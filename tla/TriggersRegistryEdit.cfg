\* A replica boots with new code while an administrator edits.
SPECIFICATION Spec
CONSTANTS
    r1 = r1
    r2 = r2
    m1 = m1
    m2 = m2
    v1 = v1
    v2 = v2
    v3 = v3
    None = None
    Replicas = {r1, r2}
    Models = {m1}
    Versions = {v1, v2, v3}
    Deployments <- Redeployed
    Polling = FALSE
    ChangeStream = FALSE
    MaxWrites = 1
    MaxBoots = 3
INVARIANT ManualEditWins
CHECK_DEADLOCK FALSE
