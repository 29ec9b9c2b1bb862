----------------------------- MODULE MCStorage -----------------------------
(* Instances for TLC of two parts of the object storage, FallbackStorage   *)
(* and ObjectRotation.  A behaviour is one of either; the other stays in   *)
(* an initial state, without objects.                                      *)
EXTENDS FallbackStorage, TLC

CONSTANTS
    c1, c2, c3, p1, p2,
    NumKeys, Rotators, Checkers, PageSize, OldWriters, MaxWrites, MaxRotationFaults

VARIABLES
    part,       \* "fallback" or "rotation"
    bucket, rPc, page, token, before, plaintext, outdated, failed, due, raced, writes, rFaults

\* Two clients share a process, and the third has one of its own.
TwoProcesses == c1 :> p1 @@ c2 :> p1 @@ c3 :> p2

Rotation == INSTANCE ObjectRotation
    WITH Contents <- Values, MaxFaults <- MaxRotationFaults, pc <- rPc, faults <- rFaults

ASSUME RotationConstants ==
    /\ NumKeys \in Nat /\ PageSize \in Nat \ {0} /\ Rotators \cap Checkers = {}
    /\ OldWriters \in BOOLEAN /\ {MaxWrites, MaxRotationFaults} \subseteq Nat

rotationVars == <<bucket, rPc, page, token, before, plaintext, outdated, failed, due, raced,
                  writes, rFaults>>

allVars == <<vars, rotationVars, part>>

FallingBack == part = "fallback" /\ UNCHANGED <<part, rotationVars>>

Rotating == part = "rotation" /\ UNCHANGED <<part, vars>>

StorageInit ==
    /\ part \in {"fallback", "rotation"}
    /\ Init /\ Rotation!Init
    /\ part # "fallback" => primary = [k \in Keys |-> None] /\ fallback = primary
    /\ part # "rotation" => bucket = [k \in Rotation!ObjectKeys |-> Rotation!Absent]

StorageNext == (FallingBack /\ Next) \/ (Rotating /\ Rotation!Next)

\* The fairness of the two parts.
StorageSpec ==
    /\ StorageInit /\ [][StorageNext]_allVars
    /\ \A p \in Processes : WF_allVars(FallingBack /\ Sync(p))
    /\ \A c \in Clients : WF_allVars(FallingBack /\ Proceed(c))
    /\ \A w \in Rotation!Workers : WF_allVars(Rotating /\ Rotation!Request(w))

\* The properties of the rotation, which hold in its initial states as well.
ReportsAreTrue == Rotation!ReportsAreTrue
RecheckNarrows == Rotation!RecheckNarrows

\* Every operation of a client ends, and so does every walk over the bucket.
RequestsEnd == OpsEnd /\ Rotation!Finishes
=============================================================================
