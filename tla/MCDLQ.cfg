\* One entry, two workers with labels of their own, clocks that disagree.
SPECIFICATION Spec
CONSTANTS
    e1 = e1
    e2 = e2
    w1 = w1
    w2 = w2
    ta = ta
    tb = tb
    Nil = Nil
    Ids = {e1}
    Workers = {w1, w2}
    TypeOf <- OneType
    Subscribes <- AllSubscribe
    LeaseOwner <- OwnLabels
    Caps = {0, 2}
    LeaseTtl = 2
    MaxSkew = 1
    MaxClock = 6
    MaxClaims = 3
    MaxDisruptions = 2
INVARIANTS TypeOK LeaseMatchesStatus MutualExclusion FencedIsCurrent
PROPERTY FailureRecorded
\* The bounds stop the system; a deadlock here says nothing of the code.
CHECK_DEADLOCK FALSE
