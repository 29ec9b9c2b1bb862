------------------------------- MODULE MCDLQ -------------------------------
(* Instances of DLQ for TLC. *)
EXTENDS DLQ, TLC

CONSTANTS e1, e2, w1, w2, ta, tb

\* One process type, admitted by every claim.
OneType == [id \in Ids |-> ta]
AllSubscribe == [w \in Workers |-> ProcessTypes]

\* Two process types: w1 claims without a filter, w2 only type ta.
TwoTypes == e1 :> ta @@ e2 :> tb
W2Filters == w1 :> {ta, tb} @@ w2 :> {ta}

\* A label for each worker, or one label for a whole instance.
OwnLabels == [w \in Workers |-> w]
SharedLabel == [w \in Workers |-> "pod"]
=============================================================================
