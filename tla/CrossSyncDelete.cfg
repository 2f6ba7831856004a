SPECIFICATION Spec
CONSTANTS
    k1 = k1
    k2 = k2
    Tables = {"filter_list"}
    Keys <- MCKeys
    Values <- MCValues
    Interval = 2
    MaxClock = 5
    Scenarios = {{"delete"}}
INVARIANT PromisedLag
