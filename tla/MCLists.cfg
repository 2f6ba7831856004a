SPECIFICATION MCSpec
CONSTANTS
    Sources = {s1, s2}
    ApiSources = {s2}
    Lists = {n1}
    Batches = 2
    ManualJobs = {m1}
    AutoJob = auto
    Readers = {r1, r2}
    Writers = {w1, w2}
    MaxVersion = 3
INVARIANTS
    WholeLists
    LoadedOnce
    SameVersion
PROPERTIES
    OthersUntouched
    TasksEnd
