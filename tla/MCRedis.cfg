\* Commands: two, up to three attempts each, two faults, one foreign event.
\* Scheduled commands: four in batches of three, timeouts cleared twice.
CONSTANTS
    Commands = {c1, c2}
    MaxCommandRetries = 3
    MaxFaults = 2
    MaxClears = 1
    MaxBatch = 3
    MaxScheduled = 4
    MaxFailures = 2
    MaxSchedulerClears = 2
SPECIFICATION RedisSpec
INVARIANTS OncePerAttempt OkWasApplied FlushesInOrder
PROPERTIES SentIsApplied CommandsEnd
\* The bounds stop both; a deadlock here says nothing of the code.
CHECK_DEADLOCK FALSE
