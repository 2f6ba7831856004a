SPECIFICATION Spec
CONSTANTS
    Threads = {t1, t2}
    Sources = {s1, s2}
    Threshold = 2
    OpenTimeout = 1
    WindowThreshold = 2
    Window = 2
INVARIANTS
    HalfOpenIsAsked
PROPERTIES
    WindowNotExtended
    DetectionRecovers
