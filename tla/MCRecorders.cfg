SPECIFICATION MCSpec
CONSTANTS
    Recorders = {r1}
    Flusher = f
    Days = 3
    MaxQueries = 4
    Failures = {"write"}
    Workers = {w1, w2}
    Names = {a, b}
    MaxRecords = 2
    QueueSize = 2
    BatchSize = 2
    SeenMax = 1
    Faults = {"write"}
    Purgers = {dns, web}
    Settings = {0, 2}
    MaxDays = 2
    MaxRows = 1
    PurgeBatch = 1
    LastDay = 3
    FailingTables = {"filter_log"}
INVARIANTS
    NothingElseLost
    StoredOnce
    ExitStoresAll
    FirstSightKept
PROPERTIES
    RowsGrow
    RowsCatchUp
    QueueDrains
    ExpiredGo
