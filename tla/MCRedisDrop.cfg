\* Commands are scheduled while a flush is in progress.
CONSTANTS
    Commands = {c1}
    MaxCommandRetries = 1
    MaxFaults = 0
    MaxClears = 0
    MaxBatch = 3
    MaxScheduled = 4
    MaxFailures = 1
    MaxSchedulerClears = 0
SPECIFICATION RedisSpec
INVARIANT NothingDropped
\* The bounds stop both; a deadlock here says nothing of the code.
CHECK_DEADLOCK FALSE
