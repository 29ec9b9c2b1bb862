\* Seeders: two replicas, two registered seeders and a schema with its own, two
\* restarts, a failure.  The bounds of the others are under README, "Bounds".
CONSTANTS
    Replicas = {r1, r2}
    Models = {m1}
    SchemaModels = {m2}
    BootSeeders <- TwoSeeders
    Always = {}
    MaxRestarts = 2
    MaxFailures = 1
    s1 = s1
    s2 = s2
    Callers = {c1, c2, c3}
    ReplicaSet = TRUE
    Words <- SomeWords
    FieldValues = {1, 2}
    Conditions <- AllConditions
    Triggers <- SomeTriggers
    Documents <- SomeDocuments
    Paths <- SomePaths
    Indices = {"0"}
    Limit = 2
    MaxWrites = 2
    Absent = Absent
    Workers = {w1, w2}
    Connectors = {k1, k2}
    TTLs <- SomeTTLs
    MaxNow = 4
    MaxSets = 4
    Users = {u1, u2, u3}
    Contents = {a, b}
    MaxPuts = 1
    NoFile = NoFile
    WithColon = {}
    Nothing = Nothing
    Requests = 4
    Off = Off
SPECIFICATION PartsSpec
INVARIANTS  TransactionsAreIsolated 
     FailuresAreIsolated TransformsAreExact KeyKeepsItsPromises
    GetIsAtomic 
\* The parts end: nothing is left to do.
CHECK_DEADLOCK FALSE
