SPECIFICATION MCSpec
CONSTANTS
    Callers = {c1, c2, c3}
    Threshold = 2
    OpenTimeout = 3
    CallBound = 2
    Workers = {w1, w2, w3}
    UpThreshold = 2
    UpOpenTimeout = 3
    NumTargets = 2
    AttemptBound = 1
    CountCap = 1
INVARIANTS
    SingleProbe
    ProbeAlone
    OneWorkerWaits
    BackupKeepsServing
PROPERTIES
    ReturnsToService
    SameSemantics
