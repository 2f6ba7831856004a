SPECIFICATION MCSpec
CONSTANTS
    PublicSuffixes <- MCPublicSuffixes
    Typed <- MCTyped
    Confirmed = {}
    Names <- MCNames
    Requests = {r1, r2}
    Tools = {t1}
    ToolFaults = {}
    MaxRows = 2
    MaxBusy = 2
    Kinds = {"dga_suspect", "false_positive"}
    Snapshots = {"dga_suspect"}
    Targets = {"t1"}
    Reviewers = {v1}
    MaxFindings = 3
    Logins = {l1}
    LockThreshold = 2
    LockTime = 2
    IpThreshold = 3
    IpWindow = 2
    IpBlock = 2
INVARIANT SameEntrySameNames
CHECK_DEADLOCK FALSE
