\* Two replicas of a rolling deployment, with polling and change streams.
SPECIFICATION FairSpec
CONSTANTS
    r1 = r1
    r2 = r2
    m1 = m1
    m2 = m2
    v1 = v1
    v2 = v2
    v3 = v3
    None = None
    Replicas = {r1, r2}
    Models = {m1, m2}
    Versions = {v1, v2}
    Deployments <- TwoReleases
    Polling = TRUE
    ChangeStream = TRUE
    MaxWrites = 1
    MaxBoots = 2
INVARIANTS RegistriesAreSnapshots CodeTakesEffect
PROPERTIES CustomUntouched UpConverges
CHECK_DEADLOCK FALSE
