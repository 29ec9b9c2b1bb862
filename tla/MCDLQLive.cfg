\* Two entries of two types, two fair workers of which one filters: take-over.
\* Every entry is capped, so no bound is reached and deadlock is checked.
SPECIFICATION FairSpec
CONSTANTS
    e1 = e1
    e2 = e2
    w1 = w1
    w2 = w2
    ta = ta
    tb = tb
    Nil = Nil
    Ids = {e1, e2}
    Workers = {w1, w2}
    TypeOf <- TwoTypes
    Subscribes <- W2Filters
    LeaseOwner <- OwnLabels
    Caps = {1}
    LeaseTtl = 1
    MaxSkew = 0
    MaxClock = 40
    MaxClaims = 20
    MaxDisruptions = 1
PROPERTY Drains
