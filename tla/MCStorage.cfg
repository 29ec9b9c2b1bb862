\* Fallback: two clients of one process and one of another; a request fails.
\* Rotation: two keys in pages of one, a rotation and a check, three writes.
CONSTANTS
    Keys = {k1}
    Values = {a, b}
    None = None
    Processes = {p1, p2}
    Clients = {c1, c2, c3}
    Runs <- TwoProcesses
    c1 = c1
    c2 = c2
    c3 = c3
    p1 = p1
    p2 = p2
    MaxOps = 2
    MaxFaults = 1
    NumKeys = 2
    Rotators = {r1}
    Checkers = {w1}
    PageSize = 1
    OldWriters = FALSE
    MaxWrites = 3
    MaxRotationFaults = 1
SPECIFICATION StorageSpec
INVARIANTS NeverMisses  ReportsAreTrue
PROPERTIES SyncOnlyFills RecheckNarrows RequestsEnd
\* Every run of a rotation ends: then nothing is left to do.
CHECK_DEADLOCK FALSE
