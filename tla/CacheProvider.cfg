\* A cache of two entries for three keys, two calls, one foreign save.
SPECIFICATION Spec
CONSTANTS
    Keys = {k1, k2, k3}
    Key = k1
    Capacity = 2
    DefaultTTL = 0
    TTL = 1
    SoftTTL = 1
    Delay = 1
    MaxTime = 4
    MaxSets = 3
    MaxSaves = 1
    Calls = {c1, c2}
INVARIANTS CacheIsLRU 
PROPERTY StaleIsRefreshed
\* The bounds stop the system; a deadlock here says nothing of the code.
CHECK_DEADLOCK FALSE
