------------------------- MODULE MCTriggersRegistry -------------------------
(* Instances of TriggersRegistry for TLC. *)
EXTENDS TriggersRegistry, TLC

CONSTANTS r1, r2, m1, m2, v1, v2, v3

\* Two releases of the code: the second has dropped the triggers of m2.
TwoReleases == {m1 :> v1 @@ m2 :> v2, m1 :> v2 @@ m2 :> None}

\* The code never changes, and declares triggers for m1 alone.
OneRelease == {m1 :> v1}

\* Two releases with different triggers for m1.
Redeployed == {m1 :> v1, m1 :> v3}

\* Every release there could be.
AllReleases == [Models -> Versions \cup {None}]
=============================================================================
