SPECIFICATION MCSpec
CONSTANTS
    PublicSuffixes <- MCPublicSuffixes
    Typed <- MCTyped
    Confirmed <- MCConfirmed
    Names <- MCNames
    Requests = {r1, r2}
    Tools = {t1}
    ToolFaults = {}
    MaxRows = 2
    MaxBusy = 2
    Kinds = {"dga_suspect", "false_positive"}
    Snapshots = {"dga_suspect"}
    Targets = {"t1"}
    Reviewers = {v1, v2}
    MaxFindings = 2
    Logins = {l1, l2, l3}
    LockThreshold = 2
    LockTime = 2
    IpThreshold = 3
    IpWindow = 2
    IpBlock = 2
SYMMETRY MCSymmetry
INVARIANTS
    RowsAreLegal
    ImportIsNarrow
    AddedOnce
    OnePending
PROPERTIES
    JudgedKept
    LockHolds
\* The bounds on rows and findings may stop every request.
CHECK_DEADLOCK FALSE
