SPECIFICATION MCSpec
CONSTANTS
    Datagrams = {u1, u2, u3}
    Connections = {t1}
    Caps = {0, 1, 2}
    Workers = 1
    Queries = {q1, q2}
    Sources = {s1, s2}
    Ips = {i1, i2}
    QueryWorkers = 2
    IpWorkers = 1
    LeafWorkers = 1
INVARIANTS
    CountersAgree
    NotStuck
PROPERTIES
    LimitKept
    AllQueriesEnd
