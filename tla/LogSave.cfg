\* Three logs, batches of up to two, a timeout of two units.
SPECIFICATION FairLogSpec
CONSTANTS
    Items = {i1, i2, i3}
    MaxSize = 2
    FlushInterval = 2
INVARIANTS OneTimerPerBatch IndexedRight
PROPERTIES HandsOverOnce IndexedOrReported
\* The process stops; that is the end of the system.
CHECK_DEADLOCK FALSE
