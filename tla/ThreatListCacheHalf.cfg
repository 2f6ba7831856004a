SPECIFICATION CacheSpec
CONSTANTS
    Readers = {r1}
    Writers = {w1}
    MaxVersion = 2
INVARIANT NotHalfDropped
