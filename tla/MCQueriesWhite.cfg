SPECIFICATION MCSpec
CONSTANTS
    Ips = {i1, i2}
    MaxChanges = 2
    AskedOfName <- MCAskedOfName
    AskedOfIp <- MCAskedOfIp
    Faults = {"list", "sources", "log"}
    Domains = {d1, d2, d3}
    Workers = {w1, w2}
    Editors = {e1}
    Edits = {"sources", "strategy", "unlisted"}
    MaxSize = 2
    TTL = 2
    QueryBound = 1
    NrdDomains = {n1}
    Dated = {n1}
    Checkers = {k1, k2}
    NrdFaults = {"insert", "fetch", "file"}
INVARIANT WhitelistedAddressKept
CHECK_DEADLOCK FALSE
