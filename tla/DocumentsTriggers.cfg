\* Updates with data policies, as in Documents.cfg: docs/TRIGGERS.md:327-333.
CONSTANTS
    Docs = {d1, d2}
    Clients = {c1, c2}
    Plains = {p1, p2}
    WithColon = {p2}
    Nothing = Nothing
    Modes = {"cursor", "find"}
    BatchSize = 2
    Retries = 1
    RetrySaves = FALSE
    MaxOps = 2
    MaxFaults = 1
SPECIFICATION Spec
INVARIANT TriggersSeePlain
CHECK_DEADLOCK FALSE
SYMMETRY Symmetry
