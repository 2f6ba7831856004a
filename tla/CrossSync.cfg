SPECIFICATION FairSpec
CONSTANTS
    k1 = k1
    k2 = k2
    Tables = {"system_config", "threat_list"}
    Keys <- MCKeys
    Values <- MCValues
    Interval = 2
    MaxClock = 5
    Scenarios = {{"delete_newest"}, {"same_second", "toggle", "read_error"}}
INVARIANTS
    BoundedLag
PROPERTIES
    NextVersionHeals
