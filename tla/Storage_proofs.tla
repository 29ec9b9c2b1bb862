--------------------------- MODULE Storage_proofs ---------------------------
(***************************************************************************)
(* Proofs about the object storage: the safety properties of               *)
(* FallbackStorage, for any keys, values, processes and clients, and those *)
(* of ObjectRotation, for any number of keys, any rotations and checks and *)
(* any page size.                                                          *)
(***************************************************************************)
EXTENDS MCStorage, FiniteSetTheorems, WellFoundedInduction, TLAPS

----------------------------------------------------------------------------
(* The store with a local fallback. *)

Requests == [kind: {"put"}, key: Keys, value: Values] \cup [kind: {"delete", "lookup"}, key: Keys]

\* An operation in progress has a request, of the kind its place calls for.
OpsTyped ==
    /\ op \in [Clients -> Requests \cup {NoOp}]
    /\ removing \in [Clients -> SUBSET {"primary", "fallback"}]
    /\ steady \in [Clients -> BOOLEAN] /\ faults \in Nat
    /\ \A c \in Clients :
         /\ pc[c] # "idle" => op[c] \in Requests
         /\ pc[c] \in {"second", "missed"} => op[c].kind = "lookup"
         /\ pc[c] = "removing" => op[c].kind = "delete"

\* A copy in progress has a key in hand, and a value before it puts it.
CopiesTyped ==
    /\ copying \in [Processes -> [key: Keys \cup {None}, value: Stored]]
    /\ \A p \in Processes :
         /\ sync[p] \in {"exists", "get", "put"} => copying[p].key \in Keys
         /\ sync[p] = "put" => copying[p].value # None
         /\ sync[p] = "done" => todo[p] = {}

\* What has been stored ever since a lookup began is still in one of the
\* stores, and in the fallback when the lookup asks there: an object moves from
\* the fallback to the primary store only, and is not taken from the fallback.
StaysSomewhere ==
    \A c \in Clients : steady[c] =>
      /\ pc[c] \in {"syncing", "ready", "second"}
      /\ op[c].kind = "lookup" /\ ~Deleting(op[c].key)
      /\ pc[c] # "second" => primary[op[c].key] # None \/ fallback[op[c].key] # None
      /\ pc[c] = "second" => fallback[op[c].key] # None

\* What a copy that has begun has not brought over yet, it has still to yield or
\* has in hand.
LeftIsInSight ==
    \A p \in Processes, k \in Keys :
      sync[p] # "none" /\ ~Deleting(k) /\ fallback[k] # None /\ primary[k] = None
      => k \in todo[p] \/ (sync[p] \in {"exists", "get", "put"} /\ copying[p].key = k)

\* A delete that has heard from the fallback has emptied it for good.
FallbackStaysEmpty ==
    \A c \in Clients :
      pc[c] = "removing" /\ "fallback" \notin removing[c] => fallback[op[c].key] = None

\* Unless a request has failed, an operation goes on only when the copy of its
\* process is done.
OpsWait ==
    faults = 0 =>
      \A c \in Clients : pc[c] \notin {"idle", "syncing"} => sync[Runs[c]] = "done"

\* The one copy finds the gap it fills as it was when it checked.
CopyFillsGap ==
    OneCopy => \A p \in Processes : sync[p] \in {"get", "put"} => primary[copying[p].key] = None

DeletedAfterCopy == OneCopy /\ deleted # {} => \E p \in Processes : sync[p] = "done"

Places == {"idle", "syncing", "ready", "second", "missed", "removing"}
SyncPlaces == {"none", "walking", "exists", "get", "put", "done"}
Copies == [key: Keys \cup {None}, value: Stored]

FallbackInv ==
    /\ TypeOK /\ OpsTyped /\ CopiesTyped
    /\ StaysSomewhere /\ LeftIsInSight /\ FallbackStaysEmpty
    /\ OpsWait /\ CopyFillsGap /\ DeletedAfterCopy /\ DeletedStaysDeleted

LEMMA FallbackInvInit == Init => FallbackInv
<1> SUFFICES ASSUME Init PROVE FallbackInv
  OBVIOUS
<1> USE DEF Init
<1>1. TypeOK
  BY DEF TypeOK
<1>2. OpsTyped
  BY DEF OpsTyped
<1>3. CopiesTyped
  BY DEF CopiesTyped, NoCopy, Stored
<1>4. StaysSomewhere /\ LeftIsInSight /\ FallbackStaysEmpty
  BY DEF StaysSomewhere, LeftIsInSight, FallbackStaysEmpty
<1>5. OpsWait /\ CopyFillsGap /\ DeletedAfterCopy /\ DeletedStaysDeleted
  BY DEF OpsWait, CopyFillsGap, DeletedAfterCopy, DeletedStaysDeleted
<1> QED
  BY <1>1, <1>2, <1>3, <1>4, <1>5 DEF FallbackInv

\* Who is deleting depends on the operations only.
LEMMA DeletingKept ==
  ASSUME UNCHANGED op, \A c \in Clients : pc'[c] = "idle" <=> pc[c] = "idle"
  PROVE  \A k \in Keys : Deleting(k)' <=> Deleting(k)
BY DEF Deleting

\* There was one copy at most if there is.
LEMMA OneCopyBefore ==
  ASSUME faults \in Nat, faults' \in Nat, faults <= faults',
         \A p \in Processes : sync[p] # "none" => sync'[p] # "none" \/ faults' > 0,
         OneCopy'
  PROVE  OneCopy
BY DEF OneCopy

\* What the steps of a copy have in common.
LEMMA SyncFrame ==
  ASSUME FallbackInv, NEW p \in Processes, Sync(p)
  PROVE  /\ UNCHANGED <<fallback, op, removing, steady, deleted>>
         /\ sync[p] \notin {"none", "done"}
         /\ sync' \in [Processes -> SyncPlaces] /\ todo' \in [Processes -> SUBSET Keys]
         /\ copying' \in [Processes -> Copies]
         /\ \A q \in Processes \ {p} :
              sync'[q] = sync[q] /\ todo'[q] = todo[q] /\ copying'[q] = copying[q]
         /\ pc' \in [Clients -> Places]
         /\ \A c \in Clients :
              /\ pc'[c] = pc[c]
                   \/ /\ pc[c] = "syncing" /\ pc'[c] = "ready"
                      /\ Runs[c] = p /\ sync'[p] \in {"none", "done"}
              /\ Runs[c] = p /\ sync'[p] \in {"none", "done"} => pc'[c] # "syncing"
         /\ primary' \in [Keys -> Stored]
         /\ \A k \in Keys : primary[k] # None => primary'[k] # None
         /\ faults \in Nat /\ faults' \in Nat /\ faults <= faults'
         /\ sync'[p] = "none" => faults' > 0
         /\ sync'[p] \in {"exists", "get", "put"} => copying'[p].key \in Keys
         /\ sync'[p] = "put" => copying'[p].value # None
         /\ sync'[p] = "done" => todo'[p] = {}
<1> USE DEF storeVars, clientVars, ghostVars, boundVars, SyncPlaces, Copies, Skip, NoCopy, Stored
<1>1. /\ {primary, fallback} \subseteq [Keys -> Stored]
      /\ sync \in [Processes -> SyncPlaces] /\ todo \in [Processes -> SUBSET Keys]
      /\ pc \in [Clients -> Places] /\ copying \in [Processes -> Copies] /\ faults \in Nat
  BY DEF FallbackInv, TypeOK, OpsTyped, CopiesTyped, Places
<1>2. /\ sync[p] \in {"exists", "get", "put"} => copying[p].key \in Keys
      /\ sync[p] = "put" => copying[p].value # None
  BY DEF FallbackInv, CopiesTyped
<1>3. CASE SyncNext(p)
  <2>1. CASE /\ \E k \in todo[p] :
                  /\ todo' = [todo EXCEPT ![p] = @ \ {k}]
                  /\ copying' = [copying EXCEPT ![p] = [key |-> k, value |-> None]]
                  /\ sync' = [sync EXCEPT ![p] = "exists"]
                  /\ UNCHANGED pc
    BY <1>1, <1>3, <2>1 DEF SyncNext
  <2>2. CASE /\ todo[p] = {}
             /\ sync' = [sync EXCEPT ![p] = "done"]
             /\ pc' = Wake(p)
             /\ UNCHANGED <<todo, copying>>
    BY <1>1, <1>3, <2>2 DEF SyncNext, Wake, Places
  <2> QED
    BY <1>3, <2>1, <2>2 DEF SyncNext
<1>4. CASE SyncExists(p)
  <2>1. sync[p] = "exists" /\ UNCHANGED <<primary, fallback, todo, pc, op, removing, steady, deleted, faults>>
    BY <1>4 DEF SyncExists
  <2>2. CASE Skip(p)
    <3>1. NoCopy \in Copies
      OBVIOUS
    <3>2. /\ sync' \in [Processes -> SyncPlaces] /\ copying' \in [Processes -> Copies]
          /\ sync'[p] = "walking"
          /\ \A q \in Processes \ {p} : sync'[q] = sync[q] /\ copying'[q] = copying[q]
      BY <1>1, <2>2, <3>1
    <3> HIDE DEF Skip, Copies
    <3> QED
      BY <1>1, <2>1, <3>2
  <2>3. CASE sync' = [sync EXCEPT ![p] = "get"] /\ UNCHANGED copying
    <3> HIDE DEF Copies
    <3> QED
      BY <1>1, <1>2, <2>1, <2>3
  <2> QED
    BY <1>4, <2>2, <2>3 DEF SyncExists
<1>5. CASE SyncGet(p)
  <2> DEFINE found == fallback[copying[p].key]
             copy == [copying[p] EXCEPT !.value = found]
  <2>1. /\ sync[p] = "get" /\ copying[p] \in Copies /\ found \in Stored
        /\ UNCHANGED <<primary, fallback, todo, pc, op, removing, steady, deleted, faults>>
    BY <1>1, <1>2, <1>5 DEF SyncGet
  <2>2. \/ Skip(p)
        \/ found # None /\ copying' = [copying EXCEPT ![p] = copy] /\ sync' = [sync EXCEPT ![p] = "put"]
    BY <1>5, <2>1 DEF SyncGet
  <2>3. copy \in Copies /\ copy.value = found /\ copy.key = copying[p].key
    BY <2>1
  <2> HIDE DEF copy, found
  <2>4. CASE Skip(p)
    <3>1. NoCopy \in Copies
      OBVIOUS
    <3>2. /\ sync' \in [Processes -> SyncPlaces] /\ copying' \in [Processes -> Copies]
          /\ sync'[p] = "walking"
          /\ \A q \in Processes \ {p} : sync'[q] = sync[q] /\ copying'[q] = copying[q]
      BY <1>1, <2>4, <3>1
    <3> HIDE DEF Skip, Copies
    <3> QED
      BY <1>1, <2>1, <3>2
  <2>5. CASE found # None /\ copying' = [copying EXCEPT ![p] = copy] /\ sync' = [sync EXCEPT ![p] = "put"]
    BY <1>1, <1>2, <2>1, <2>3, <2>5
  <2> QED
    BY <2>2, <2>4, <2>5
<1>6. CASE SyncPut(p)
  BY <1>1, <1>2, <1>6 DEF SyncPut
<1>7. CASE SyncFails(p)
  BY <1>1, <1>2, <1>7 DEF SyncFails, Fault, Wake, Places
<1> QED
  BY <1>3, <1>4, <1>5, <1>6, <1>7 DEF Sync

LEMMA SyncKeepsInv ==
  ASSUME FallbackInv, NEW p \in Processes, Sync(p)
  PROVE  FallbackInv'
<1>1. /\ UNCHANGED <<fallback, op, removing, steady, deleted>>
      /\ sync[p] \notin {"none", "done"}
      /\ sync' \in [Processes -> SyncPlaces] /\ todo' \in [Processes -> SUBSET Keys]
      /\ copying' \in [Processes -> Copies]
      /\ \A q \in Processes \ {p} :
           sync'[q] = sync[q] /\ todo'[q] = todo[q] /\ copying'[q] = copying[q]
      /\ pc' \in [Clients -> Places]
      /\ \A c \in Clients :
           /\ pc'[c] = pc[c]
                \/ /\ pc[c] = "syncing" /\ pc'[c] = "ready"
                   /\ Runs[c] = p /\ sync'[p] \in {"none", "done"}
           /\ Runs[c] = p /\ sync'[p] \in {"none", "done"} => pc'[c] # "syncing"
      /\ primary' \in [Keys -> Stored]
      /\ \A k \in Keys : primary[k] # None => primary'[k] # None
      /\ faults \in Nat /\ faults' \in Nat /\ faults <= faults'
      /\ sync'[p] = "none" => faults' > 0
      /\ sync'[p] \in {"exists", "get", "put"} => copying'[p].key \in Keys
      /\ sync'[p] = "put" => copying'[p].value # None
      /\ sync'[p] = "done" => todo'[p] = {}
  BY SyncFrame
<1>2. \A k \in Keys : Deleting(k)' <=> Deleting(k)
  <2>1. \A c \in Clients : pc'[c] = "idle" <=> pc[c] = "idle"
    BY <1>1
  <2> QED
    BY <1>1, <2>1, DeletingKept
<1>3. TypeOK'
  <2>1. \A c \in Clients : pc'[c] = "syncing" => sync'[Runs[c]] \notin {"none", "done"}
    BY <1>1, FallbackConstants DEF FallbackInv, TypeOK
  <2> QED
    BY <1>1, <2>1 DEF FallbackInv, TypeOK, SyncPlaces, Places
<1>4. OpsTyped'
  BY <1>1 DEF FallbackInv, OpsTyped
<1>5. CopiesTyped'
  BY <1>1 DEF FallbackInv, CopiesTyped, Copies
<1>6. StaysSomewhere'
  <2> SUFFICES ASSUME NEW c \in Clients, steady[c]
               PROVE  /\ pc'[c] \in {"syncing", "ready", "second"}
                      /\ op[c].kind = "lookup" /\ ~Deleting(op[c].key)'
                      /\ pc'[c] # "second" =>
                           primary'[op[c].key] # None \/ fallback[op[c].key] # None
                      /\ pc'[c] = "second" => fallback[op[c].key] # None
    BY <1>1 DEF StaysSomewhere
  <2>1. /\ pc[c] \in {"syncing", "ready", "second"}
        /\ op[c].kind = "lookup" /\ ~Deleting(op[c].key)
        /\ pc[c] # "second" => primary[op[c].key] # None \/ fallback[op[c].key] # None
        /\ pc[c] = "second" => fallback[op[c].key] # None
    BY DEF FallbackInv, StaysSomewhere
  <2>2. op[c].key \in Keys
    BY <2>1 DEF FallbackInv, OpsTyped, Requests
  <2> QED
    BY <1>1, <1>2, <2>1, <2>2
<1>7. LeftIsInSight'
  <2> SUFFICES ASSUME NEW q \in Processes, NEW k \in Keys,
                      sync'[q] # "none", ~Deleting(k), fallback[k] # None, primary'[k] = None
               PROVE  k \in todo'[q] \/ (sync'[q] \in {"exists", "get", "put"} /\ copying'[q].key = k)
    BY <1>1, <1>2 DEF LeftIsInSight
  <2>1. primary[k] = None
    BY <1>1
  <2>2. sync[q] # "none" =>
          k \in todo[q] \/ (sync[q] \in {"exists", "get", "put"} /\ copying[q].key = k)
    BY <2>1 DEF FallbackInv, LeftIsInSight
  <2>3. CASE q # p
    BY <1>1, <2>2, <2>3
  <2>4. CASE q = p
    <3>1. /\ sync \in [Processes -> SyncPlaces] /\ todo \in [Processes -> SUBSET Keys]
          /\ copying \in [Processes -> Copies] /\ primary \in [Keys -> Stored]
      BY DEF FallbackInv, TypeOK, CopiesTyped, SyncPlaces, Copies
    <3>2. CASE SyncNext(p)
      BY <1>1, <2>2, <2>4, <3>1, <3>2 DEF SyncNext
    <3>3. CASE SyncExists(p)
      BY <1>1, <2>1, <2>2, <2>4, <3>1, <3>3 DEF SyncExists, Skip
    <3>4. CASE SyncGet(p)
      BY <1>1, <2>2, <2>4, <3>1, <3>4 DEF SyncGet, Skip, Copies
    <3>5. CASE SyncPut(p)
      <4>1. primary'[copying[p].key] # None /\ todo' = todo
        BY <1>1, <3>1, <3>5 DEF SyncPut, FallbackInv, CopiesTyped
      <4> QED
        BY <1>1, <2>2, <2>4, <3>5, <4>1 DEF SyncPut
    <3>6. CASE SyncFails(p)
      BY <1>1, <2>4, <3>1, <3>6 DEF SyncFails
    <3> QED
      BY <3>2, <3>3, <3>4, <3>5, <3>6 DEF Sync
  <2> QED
    BY <2>3, <2>4
<1>8. FallbackStaysEmpty'
  BY <1>1 DEF FallbackInv, FallbackStaysEmpty
<1>9. OpsWait'
  BY <1>1, FallbackConstants DEF FallbackInv, OpsWait
<1>10. OneCopy' => OneCopy
  BY <1>1, OneCopyBefore
<1>11. OneCopy => \A q \in Processes \ {p} : sync[q] = "none"
  BY <1>1 DEF OneCopy
<1>12. CopyFillsGap'
  <2> SUFFICES ASSUME OneCopy', NEW q \in Processes, sync'[q] \in {"get", "put"}
               PROVE  primary'[copying'[q].key] = None
    BY DEF CopyFillsGap
  <2>1. q = p
    BY <1>1, <1>10, <1>11
  <2>2. sync[p] \in {"get", "put"} => primary[copying[p].key] = None
    BY <1>10 DEF FallbackInv, CopyFillsGap
  <2>3. /\ sync \in [Processes -> SyncPlaces] /\ copying \in [Processes -> Copies]
    BY DEF FallbackInv, TypeOK, CopiesTyped, SyncPlaces, Copies
  <2>4. CASE SyncExists(p)
    BY <2>1, <2>3, <2>4 DEF SyncExists, Skip, storeVars
  <2>5. CASE SyncGet(p)
    BY <2>1, <2>2, <2>3, <2>5 DEF SyncGet, Skip, storeVars, Copies
  <2>6. CASE SyncNext(p) \/ SyncPut(p) \/ SyncFails(p)
    BY <2>1, <2>3, <2>6 DEF SyncNext, SyncPut, SyncFails, Skip
  <2> QED
    BY <2>4, <2>5, <2>6 DEF Sync
<1>13. OneCopy' => deleted = {}
  BY <1>1, <1>10, <1>11 DEF FallbackInv, DeletedAfterCopy
<1>14. DeletedAfterCopy' /\ DeletedStaysDeleted'
  BY <1>1, <1>13 DEF DeletedAfterCopy, DeletedStaysDeleted
<1> QED
  BY <1>3, <1>4, <1>5, <1>6, <1>7, <1>8, <1>9, <1>12, <1>14 DEF FallbackInv

LEMMA FallbackTypes ==
  ASSUME FallbackInv
  PROVE  /\ primary \in [Keys -> Stored] /\ fallback \in [Keys -> Stored]
         /\ sync \in [Processes -> SyncPlaces] /\ todo \in [Processes -> SUBSET Keys]
         /\ copying \in [Processes -> Copies] /\ pc \in [Clients -> Places]
         /\ op \in [Clients -> Requests \cup {NoOp}]
         /\ removing \in [Clients -> SUBSET {"primary", "fallback"}]
         /\ steady \in [Clients -> BOOLEAN] /\ faults \in Nat /\ deleted \subseteq Keys
         /\ \A c \in Clients : pc[c] # "idle" => op[c] \in Requests /\ op[c].key \in Keys
BY DEF FallbackInv, TypeOK, OpsTyped, CopiesTyped, SyncPlaces, Places, Copies, Requests

\* An operation begins, perhaps with the copy of its process.
LEMMA BeginKeepsInv ==
  ASSUME FallbackInv, NEW c \in Clients, NEW request \in Requests, Begin(c, request),
         steady' \in [Clients -> BOOLEAN], UNCHANGED deleted,
         \A d \in Clients \ {c} : steady'[d] =>
           steady[d] /\ ~(request.kind = "delete" /\ op[d].key = request.key),
         steady'[c] => /\ request.kind = "lookup" /\ ~Deleting(request.key)
                       /\ primary[request.key] # None \/ fallback[request.key] # None
  PROVE  FallbackInv'
<1> DEFINE p == Runs[c]
<1> USE FallbackTypes
<1>1. /\ p \in Processes /\ request.key \in Keys /\ pc[c] = "idle"
      /\ UNCHANGED <<primary, fallback, copying, removing, faults>>
      /\ op' = [op EXCEPT ![c] = request]
      /\ pc' = [pc EXCEPT ![c] = IF sync[p] = "done" THEN "ready" ELSE "syncing"]
  BY FallbackConstants DEF Begin, Requests, storeVars
<1>2. /\ sync' \in [Processes -> SyncPlaces] /\ todo' \in [Processes -> SUBSET Keys]
      /\ \A q \in Processes :
           \/ sync'[q] = sync[q] /\ todo'[q] = todo[q]
           \/ /\ sync[q] = "none" /\ sync'[q] = "walking" /\ q = p
              /\ todo'[q] = {k \in Keys : fallback[k] # None}
      /\ sync[p] = "none" => sync'[p] = "walking"
  BY <1>1 DEF Begin, SyncPlaces
<1>3. /\ pc' \in [Clients -> Places] /\ pc'[c] \in {"ready", "syncing"}
      /\ pc'[c] = "ready" => sync'[p] = "done"
      /\ pc'[c] = "syncing" => sync'[p] \notin {"none", "done"}
      /\ op' \in [Clients -> Requests \cup {NoOp}] /\ op'[c] = request
      /\ \A d \in Clients \ {c} : pc'[d] = pc[d] /\ op'[d] = op[d]
  BY <1>1, <1>2 DEF Places, SyncPlaces
<1>4. \A k \in Keys :
        Deleting(k)' <=> Deleting(k) \/ (request.kind = "delete" /\ request.key = k)
  BY <1>1, <1>3 DEF Deleting
<1> HIDE DEF p
<1>5. TypeOK'
  <2>1. \A d \in Clients : pc'[d] = "syncing" => sync'[Runs[d]] \notin {"none", "done"}
    BY <1>2, <1>3, FallbackConstants DEF FallbackInv, TypeOK, p
  <2> QED
    BY <1>1, <1>2, <1>3, <2>1 DEF TypeOK, SyncPlaces, Places
<1>6. OpsTyped'
  BY <1>1, <1>3 DEF FallbackInv, OpsTyped
<1>7. CopiesTyped'
  BY <1>1, <1>2 DEF FallbackInv, CopiesTyped, Copies
<1>8. StaysSomewhere'
  <2> SUFFICES ASSUME NEW d \in Clients, steady'[d]
               PROVE  /\ pc'[d] \in {"syncing", "ready", "second"}
                      /\ op'[d].kind = "lookup" /\ ~Deleting(op[d].key)'
                      /\ pc'[d] # "second" =>
                           primary'[op'[d].key] # None \/ fallback'[op'[d].key] # None
                      /\ pc'[d] = "second" => fallback'[op'[d].key] # None
    BY DEF StaysSomewhere
  <2>1. CASE d = c
    <3>1. request.kind = "lookup" /\ ~Deleting(request.key)'
      BY <1>1, <1>4, <2>1
    <3> QED
      BY <1>1, <1>3, <2>1, <3>1
  <2>2. CASE d # c
    <3>1. /\ pc[d] \in {"syncing", "ready", "second"}
          /\ op[d].kind = "lookup" /\ ~Deleting(op[d].key) /\ op[d].key \in Keys
          /\ pc[d] # "second" => primary[op[d].key] # None \/ fallback[op[d].key] # None
          /\ pc[d] = "second" => fallback[op[d].key] # None
      BY <2>2 DEF FallbackInv, StaysSomewhere
    <3>2. ~Deleting(op[d].key)'
      BY <1>3, <1>4, <2>2, <3>1
    <3> QED
      BY <1>1, <1>3, <2>2, <3>1, <3>2
  <2> QED
    BY <2>1, <2>2
<1>9. LeftIsInSight'
  <2> SUFFICES ASSUME NEW q \in Processes, NEW k \in Keys,
                      sync'[q] # "none", ~Deleting(k)', fallback[k] # None, primary[k] = None
               PROVE  k \in todo'[q] \/ (sync'[q] \in {"exists", "get", "put"} /\ copying[q].key = k)
    BY <1>1 DEF LeftIsInSight
  <2> QED
    BY <1>2, <1>4 DEF FallbackInv, LeftIsInSight
<1>10. FallbackStaysEmpty'
  BY <1>1, <1>3 DEF FallbackInv, FallbackStaysEmpty
<1>11. OpsWait'
  BY <1>1, <1>2, <1>3, FallbackConstants DEF FallbackInv, OpsWait, p
<1>12. OneCopy' => OneCopy
  BY <1>1, <1>2 DEF OneCopy
<1>13. CopyFillsGap' /\ DeletedAfterCopy' /\ DeletedStaysDeleted'
  BY <1>1, <1>2, <1>12 DEF FallbackInv, CopyFillsGap, DeletedAfterCopy, DeletedStaysDeleted
<1> QED
  BY <1>5, <1>6, <1>7, <1>8, <1>9, <1>10, <1>11, <1>13 DEF FallbackInv

\* The requests of an operation wait for the copy: under OneCopy, none runs.
LEMMA NoCopyBehind ==
  ASSUME FallbackInv, NEW c \in Clients, pc[c] \notin {"idle", "syncing"}, OneCopy
  PROVE  \A q \in Processes : sync[q] \in {"none", "done"}
<1>1. Runs[c] \in Processes /\ sync[Runs[c]] = "done"
  BY FallbackConstants DEF FallbackInv, OpsWait, OneCopy
<1> QED
  BY <1>1 DEF OneCopy

\* An operation ends; what a delete leaves in the fallback is nothing, and
\* nothing else takes an object away.
LEMMA EndKeepsInv ==
  ASSUME FallbackInv, NEW c \in Clients, pc[c] \notin {"idle", "syncing"}, End(c),
         UNCHANGED <<sync, todo, copying>>,
         primary' \in [Keys -> Stored], fallback' \in [Keys -> Stored],
         \A k \in Keys \ {op[c].key} : primary'[k] = primary[k] /\ fallback'[k] = fallback[k],
         op[c].kind = "delete" => fallback'[op[c].key] = None,
         op[c].kind # "delete" =>
           /\ fallback'[op[c].key] = fallback[op[c].key]
           /\ primary'[op[c].key] \in {primary[op[c].key]} \cup Values,
         deleted' \subseteq Keys,
         \A k \in deleted' :
           \/ k \in deleted /\ primary'[k] = primary[k]
           \/ primary'[k] = None /\ fallback'[k] = None,
         faults' \in {faults, faults + 1}
  PROVE  FallbackInv'
<1> USE FallbackTypes
<1>1. /\ op[c] \in Requests /\ op[c].key \in Keys
      /\ pc' \in [Clients -> Places] /\ pc'[c] = "idle"
      /\ op' \in [Clients -> Requests \cup {NoOp}]
      /\ removing' \in [Clients -> SUBSET {"primary", "fallback"}]
      /\ steady' \in [Clients -> BOOLEAN] /\ ~steady'[c]
      /\ \A d \in Clients \ {c} :
           pc'[d] = pc[d] /\ op'[d] = op[d] /\ removing'[d] = removing[d] /\ steady'[d] = steady[d]
      /\ faults' \in Nat
  BY DEF End, Places
<1>2. \A k \in Keys : /\ Deleting(k)' => Deleting(k)
                      /\ Deleting(k) => Deleting(k)' \/ (op[c].kind = "delete" /\ op[c].key = k)
  BY <1>1 DEF Deleting
<1>3. \A k \in Keys : fallback[k] = None => fallback'[k] = None
  BY <1>1
<1>4. \A k \in Keys : ~(op[c].kind = "delete" /\ op[c].key = k) =>
        fallback'[k] = fallback[k] /\ (primary[k] # None => primary'[k] # None)
  BY <1>1, FallbackConstants
<1> HIDE DEF End
<1>5. TypeOK'
  BY <1>1 DEF FallbackInv, TypeOK, SyncPlaces, Places
<1>6. OpsTyped'
  BY <1>1 DEF FallbackInv, OpsTyped
<1>7. CopiesTyped'
  BY <1>1 DEF FallbackInv, CopiesTyped
<1>8. StaysSomewhere'
  <2> SUFFICES ASSUME NEW d \in Clients \ {c}, steady'[d]
               PROVE  /\ pc'[d] \in {"syncing", "ready", "second"}
                      /\ op'[d].kind = "lookup" /\ ~Deleting(op[d].key)'
                      /\ pc'[d] # "second" =>
                           primary'[op'[d].key] # None \/ fallback'[op'[d].key] # None
                      /\ pc'[d] = "second" => fallback'[op'[d].key] # None
    BY <1>1 DEF StaysSomewhere
  <2>1. /\ pc[d] \in {"syncing", "ready", "second"}
        /\ op[d].kind = "lookup" /\ ~Deleting(op[d].key) /\ op[d].key \in Keys
        /\ pc[d] # "second" => primary[op[d].key] # None \/ fallback[op[d].key] # None
        /\ pc[d] = "second" => fallback[op[d].key] # None
    BY <1>1 DEF FallbackInv, StaysSomewhere
  <2>2. ~(op[c].kind = "delete" /\ op[c].key = op[d].key)
    BY <2>1 DEF Deleting
  <2>3. ~Deleting(op[d].key)'
    BY <1>1, <1>2, <2>1
  <2> QED
    BY <1>1, <1>4, <2>1, <2>2, <2>3
<1>9. LeftIsInSight'
  <2> SUFFICES ASSUME NEW q \in Processes, NEW k \in Keys,
                      sync[q] # "none", ~Deleting(k)', fallback'[k] # None, primary'[k] = None
               PROVE  k \in todo[q] \/ (sync[q] \in {"exists", "get", "put"} /\ copying[q].key = k)
    BY DEF LeftIsInSight
  <2>1. ~(op[c].kind = "delete" /\ op[c].key = k)
    OBVIOUS
  <2>2. ~Deleting(k) /\ fallback[k] # None /\ primary[k] = None
    BY <1>2, <1>4, <2>1
  <2> QED
    BY <2>2 DEF FallbackInv, LeftIsInSight
<1>10. FallbackStaysEmpty'
  <2> SUFFICES ASSUME NEW d \in Clients \ {c}, pc[d] = "removing", "fallback" \notin removing[d]
               PROVE  fallback'[op[d].key] = None
    BY <1>1 DEF FallbackStaysEmpty
  <2>1. fallback[op[d].key] = None /\ op[d].key \in Keys
    BY DEF FallbackInv, FallbackStaysEmpty
  <2> QED
    BY <1>3, <2>1
<1>11. OpsWait'
  BY <1>1 DEF FallbackInv, OpsWait
<1>12. OneCopy' => OneCopy /\ faults = 0
  BY <1>1 DEF OneCopy
<1>13. CopyFillsGap'
  <2>1. OneCopy' => \A q \in Processes : sync[q] \in {"none", "done"}
    BY <1>12, NoCopyBehind
  <2> QED
    BY <2>1 DEF CopyFillsGap
<1>14. DeletedAfterCopy'
  <2>1. OneCopy' => sync[Runs[c]] = "done" /\ Runs[c] \in Processes
    BY <1>12, FallbackConstants DEF FallbackInv, OpsWait
  <2> QED
    BY <2>1 DEF DeletedAfterCopy
<1>15. DeletedStaysDeleted'
  BY <1>3, <1>12 DEF FallbackInv, DeletedStaysDeleted
<1> QED
  BY <1>5, <1>6, <1>7, <1>8, <1>9, <1>10, <1>11, <1>13, <1>14, <1>15 DEF FallbackInv

\* An operation goes on to its next request.
LEMMA GoingOnKeepsInv ==
  ASSUME FallbackInv, NEW c \in Clients, pc[c] \notin {"idle", "syncing"},
         UNCHANGED <<sync, todo, copying, op, steady, deleted, faults>>,
         NEW place \in {"second", "missed", "removing"}, pc' = [pc EXCEPT ![c] = place],
         op[c].kind = (IF place = "removing" THEN "delete" ELSE "lookup"),
         steady[c] => place = "second" /\ fallback[op[c].key] # None,
         NEW left \in SUBSET {"primary", "fallback"}, removing' = [removing EXCEPT ![c] = left],
         place = "removing" /\ "fallback" \notin left => fallback'[op[c].key] = None,
         primary' \in [Keys -> Stored], fallback' \in [Keys -> Stored],
         \A k \in Keys :
           \/ primary'[k] = primary[k] /\ fallback'[k] = fallback[k]
           \/ /\ op[c].kind = "delete" /\ op[c].key = k
              /\ primary'[k] \in {primary[k], None} /\ fallback'[k] \in {fallback[k], None}
  PROVE  FallbackInv'
<1> USE FallbackTypes
<1>1. /\ op[c] \in Requests /\ op[c].key \in Keys
      /\ pc' \in [Clients -> Places] /\ pc'[c] = place
      /\ removing' \in [Clients -> SUBSET {"primary", "fallback"}] /\ removing'[c] = left
      /\ \A d \in Clients \ {c} : pc'[d] = pc[d] /\ removing'[d] = removing[d]
  BY DEF Places
<1>2. \A k \in Keys : Deleting(k)' <=> Deleting(k)
  <2>1. \A d \in Clients : pc'[d] = "idle" <=> pc[d] = "idle"
    BY <1>1
  <2> QED
    BY <2>1, DeletingKept
<1>3. \A k \in Keys : /\ fallback[k] = None => fallback'[k] = None
                      /\ primary[k] = None => primary'[k] = None
  OBVIOUS
<1>4. \A k \in Keys : ~Deleting(k) => primary'[k] = primary[k] /\ fallback'[k] = fallback[k]
  BY DEF Deleting
<1>5. TypeOK'
  BY <1>1 DEF FallbackInv, TypeOK, SyncPlaces, Places
<1>6. OpsTyped'
  BY <1>1 DEF FallbackInv, OpsTyped
<1>7. CopiesTyped'
  BY DEF FallbackInv, CopiesTyped
<1>8. StaysSomewhere'
  <2> SUFFICES ASSUME NEW d \in Clients, steady[d]
               PROVE  /\ pc'[d] \in {"syncing", "ready", "second"}
                      /\ op[d].kind = "lookup" /\ ~Deleting(op[d].key)'
                      /\ pc'[d] # "second" =>
                           primary'[op[d].key] # None \/ fallback'[op[d].key] # None
                      /\ pc'[d] = "second" => fallback'[op[d].key] # None
    BY DEF StaysSomewhere
  <2>1. /\ pc[d] \in {"syncing", "ready", "second"}
        /\ op[d].kind = "lookup" /\ ~Deleting(op[d].key) /\ op[d].key \in Keys
        /\ pc[d] # "second" => primary[op[d].key] # None \/ fallback[op[d].key] # None
        /\ pc[d] = "second" => fallback[op[d].key] # None
    BY DEF FallbackInv, StaysSomewhere
  <2> QED
    BY <1>1, <1>2, <1>4, <2>1
<1>9. LeftIsInSight'
  <2> SUFFICES ASSUME NEW q \in Processes, NEW k \in Keys,
                      sync[q] # "none", ~Deleting(k), fallback'[k] # None, primary'[k] = None
               PROVE  k \in todo[q] \/ (sync[q] \in {"exists", "get", "put"} /\ copying[q].key = k)
    BY <1>2 DEF LeftIsInSight
  <2> QED
    BY <1>4 DEF FallbackInv, LeftIsInSight
<1>10. FallbackStaysEmpty'
  <2> SUFFICES ASSUME NEW d \in Clients \ {c}, pc[d] = "removing", "fallback" \notin removing[d]
               PROVE  fallback'[op[d].key] = None
    BY <1>1 DEF FallbackStaysEmpty
  <2>1. fallback[op[d].key] = None /\ op[d].key \in Keys
    BY DEF FallbackInv, FallbackStaysEmpty
  <2> QED
    BY <1>3, <2>1
<1>11. OpsWait'
  BY <1>1 DEF FallbackInv, OpsWait
<1>12. OneCopy' <=> OneCopy
  BY DEF OneCopy
<1>13. CopyFillsGap' /\ DeletedAfterCopy'
  BY <1>12, NoCopyBehind DEF FallbackInv, CopyFillsGap, DeletedAfterCopy
<1>14. DeletedStaysDeleted'
  BY <1>3, <1>12 DEF FallbackInv, DeletedStaysDeleted
<1> QED
  BY <1>5, <1>6, <1>7, <1>8, <1>9, <1>10, <1>11, <1>13, <1>14 DEF FallbackInv

LEMMA BeginsKeepInv ==
  ASSUME FallbackInv, NEW c \in Clients, NEW k \in Keys,
         BeginPut(c, k) \/ BeginDelete(c, k) \/ BeginLookup(c, k)
  PROVE  FallbackInv'
<1> USE FallbackTypes
<1>1. pc[c] = "idle" /\ ~steady[c]
  BY DEF BeginPut, BeginDelete, BeginLookup, Begin, FallbackInv, StaysSomewhere
<1>2. CASE BeginPut(c, k)
  <2>1. PICK v \in Values : Begin(c, [kind |-> "put", key |-> k, value |-> v])
    BY <1>2 DEF BeginPut
  <2> DEFINE request == [kind |-> "put", key |-> k, value |-> v]
  <2>2. request \in Requests /\ request.kind = "put"
    BY DEF Requests
  <2>3. UNCHANGED <<steady, deleted>>
    BY <1>2 DEF BeginPut, ghostVars
  <2>4. Begin(c, request)
    BY <2>1
  <2> HIDE DEF request
  <2> QED
    BY <1>1, <2>2, <2>3, <2>4, BeginKeepsInv
<1>3. CASE BeginDelete(c, k)
  <2> DEFINE request == [kind |-> "delete", key |-> k]
  <2>1. request \in Requests /\ request.kind = "delete" /\ request.key = k
    BY DEF Requests
  <2>2. /\ Begin(c, request) /\ UNCHANGED deleted
        /\ steady' = [d \in Clients |-> steady[d] /\ op[d].key # k]
    BY <1>3 DEF BeginDelete
  <2> HIDE DEF request
  <2>3. steady' \in [Clients -> BOOLEAN]
    BY <2>2
  <2> QED
    BY <1>1, <2>1, <2>2, <2>3, BeginKeepsInv
<1>4. CASE BeginLookup(c, k)
  <2> DEFINE request == [kind |-> "lookup", key |-> k]
  <2>1. request \in Requests /\ request.kind = "lookup" /\ request.key = k
    BY DEF Requests
  <2>2. /\ Begin(c, request) /\ UNCHANGED deleted
        /\ steady' = [steady EXCEPT ![c] =
                        (primary[k] # None \/ fallback[k] # None) /\ ~Deleting(k)]
    BY <1>4 DEF BeginLookup
  <2> HIDE DEF request
  <2>3. Deleting(k) \in BOOLEAN
    BY DEF Deleting
  <2>4. /\ steady' \in [Clients -> BOOLEAN]
        /\ \A d \in Clients \ {c} : steady'[d] = steady[d]
        /\ steady'[c] => (primary[k] # None \/ fallback[k] # None) /\ ~Deleting(k)
    BY <2>2, <2>3
  <2> QED
    BY <2>1, <2>2, <2>4, BeginKeepsInv
<1> QED
  BY <1>2, <1>3, <1>4

LEMMA LookupKeepsInv ==
  ASSUME FallbackInv, NEW c \in Clients,
         LookupPrimary(c) \/ LookupFallback(c) \/ Miss(c)
  PROVE  FallbackInv'
<1> USE FallbackTypes
<1> USE DEF LookupPrimary, LookupFallback, Miss, storeVars, syncVars, boundVars
<1>1. /\ pc[c] \notin {"idle", "syncing"} /\ op[c].kind = "lookup" /\ op[c].key \in Keys
      /\ UNCHANGED <<primary, fallback, sync, todo, copying, deleted, faults>>
  BY DEF FallbackInv, OpsTyped
<1>2. CASE End(c)
  <2>1. \A k \in deleted' : k \in deleted /\ primary'[k] = primary[k]
    BY <1>1
  <2> QED
    BY <1>1, <1>2, <2>1, EndKeepsInv
<1>3. CASE ~End(c)
  <2>1. PICK place \in {"second", "missed"} :
          /\ pc' = [pc EXCEPT ![c] = place] /\ UNCHANGED <<op, removing, steady>>
          /\ pc[c] = (IF place = "second" THEN "ready" ELSE "second")
          /\ IF place = "second" THEN primary[op[c].key] = None ELSE fallback[op[c].key] = None
    BY <1>3
  <2>2. steady[c] => place = "second" /\ fallback[op[c].key] # None
    BY <2>1 DEF FallbackInv, StaysSomewhere
  <2>3. removing[c] \in SUBSET {"primary", "fallback"} /\ removing' = [removing EXCEPT ![c] = removing[c]]
    BY <2>1
  <2> HIDE DEF LookupPrimary, LookupFallback, Miss
  <2>4. /\ place \in {"second", "missed", "removing"} /\ place # "removing"
        /\ op[c].kind = (IF place = "removing" THEN "delete" ELSE "lookup")
    BY <1>1
  <2> QED
    BY <1>1, <2>1, <2>2, <2>3, <2>4, GoingOnKeepsInv
<1> QED
  BY <1>2, <1>3

LEMMA PutKeepsInv ==
  ASSUME FallbackInv, NEW c \in Clients, Put(c)
  PROVE  FallbackInv'
<1> USE FallbackTypes DEF Put, syncVars, boundVars
<1>1. /\ pc[c] \notin {"idle", "syncing"} /\ op[c].kind = "put" /\ op[c].key \in Keys
      /\ op[c] \in Requests
  OBVIOUS
<1>2. op[c].value \in Values
  BY <1>1 DEF Requests
<1>3. /\ primary' \in [Keys -> Stored] /\ UNCHANGED fallback
      /\ primary'[op[c].key] = op[c].value
      /\ \A k \in Keys \ {op[c].key} : primary'[k] = primary[k]
  BY <1>1, <1>2 DEF Stored
<1>4. \A k \in deleted' : k \in deleted /\ primary'[k] = primary[k]
  BY <1>3
<1>5. /\ End(c) /\ UNCHANGED <<sync, todo, copying, faults>> /\ deleted' \subseteq Keys
  OBVIOUS
<1> HIDE DEF Put
<1> QED
  BY <1>1, <1>2, <1>3, <1>4, <1>5, EndKeepsInv

LEMMA DeleteKeepsInv ==
  ASSUME FallbackInv, NEW c \in Clients, Delete(c) \/ DeleteOne(c)
  PROVE  FallbackInv'
<1> USE FallbackTypes DEF syncVars, boundVars, ghostVars, storeVars
<1>1. /\ pc[c] \notin {"idle", "syncing"} /\ op[c].kind = "delete" /\ op[c].key \in Keys
      /\ ~steady[c]
  BY DEF Delete, DeleteOne, FallbackInv, OpsTyped, StaysSomewhere
<1>2. CASE Delete(c)
  <2> DEFINE left == {"primary", "fallback"}
             place == "removing"
  <2>1. /\ UNCHANGED <<primary, fallback, sync, todo, copying, op, steady, deleted, faults>>
        /\ pc' = [pc EXCEPT ![c] = place] /\ removing' = [removing EXCEPT ![c] = left]
    BY <1>2 DEF Delete
  <2>2. /\ place \in {"second", "missed", "removing"} /\ left \in SUBSET {"primary", "fallback"}
        /\ "fallback" \in left
        /\ op[c].kind = (IF place = "removing" THEN "delete" ELSE "lookup")
    BY <1>1
  <2> HIDE DEF left, place
  <2> QED
    BY <1>1, <2>1, <2>2, GoingOnKeepsInv
<1>3. CASE DeleteOne(c)
  <2>1. PICK s \in removing[c] :
         /\ primary' = IF s = "primary" THEN [primary EXCEPT ![op[c].key] = None] ELSE primary
         /\ fallback' = IF s = "fallback" THEN [fallback EXCEPT ![op[c].key] = None] ELSE fallback
         /\ IF removing[c] = {s}
            THEN /\ deleted' = IF primary'[op[c].key] = None
                               THEN deleted \cup {op[c].key} ELSE deleted
                 /\ End(c)
            ELSE /\ removing' = [removing EXCEPT ![c] = @ \ {s}]
                 /\ UNCHANGED <<pc, op, steady, deleted>>
    BY <1>3 DEF DeleteOne
  <2>2. pc[c] = "removing" /\ UNCHANGED <<sync, todo, copying, faults>>
    BY <1>3 DEF DeleteOne
  <2>3. /\ primary' \in [Keys -> Stored] /\ fallback' \in [Keys -> Stored]
        /\ \A k \in Keys \ {op[c].key} : primary'[k] = primary[k] /\ fallback'[k] = fallback[k]
        /\ primary'[op[c].key] \in {primary[op[c].key], None}
        /\ fallback'[op[c].key] \in {fallback[op[c].key], None}
        /\ s = "fallback" => fallback'[op[c].key] = None
        /\ s \in {"primary", "fallback"}
    BY <1>1, <2>1 DEF Stored
  <2>4. "fallback" \notin removing[c] \ {s} => fallback'[op[c].key] = None
    <3>1. "fallback" \notin removing[c] => fallback[op[c].key] = None
      BY <2>2 DEF FallbackInv, FallbackStaysEmpty
    <3> QED
      BY <1>1, <2>3, <3>1
  <2>5. CASE removing[c] = {s}
    <3>1. fallback'[op[c].key] = None
      BY <2>4, <2>5
    <3>2. End(c) /\ deleted' \subseteq Keys
      BY <1>1, <2>1, <2>5
    <3>3. \A k \in deleted' : \/ k \in deleted /\ primary'[k] = primary[k]
                              \/ primary'[k] = None /\ fallback'[k] = None
      BY <1>1, <2>1, <2>3, <2>5, <3>1
    <3> QED
      BY <1>1, <2>2, <2>3, <3>1, <3>2, <3>3, EndKeepsInv
  <2>6. CASE removing[c] # {s}
    <3> DEFINE left == removing[c] \ {s}
               place == "removing"
    <3>1. /\ pc' = [pc EXCEPT ![c] = place] /\ removing' = [removing EXCEPT ![c] = left]
          /\ UNCHANGED <<op, steady, deleted>>
      BY <2>1, <2>2, <2>6
    <3>2. /\ place \in {"second", "missed", "removing"} /\ left \in SUBSET {"primary", "fallback"}
          /\ "fallback" \notin left => fallback'[op[c].key] = None
          /\ op[c].kind = (IF place = "removing" THEN "delete" ELSE "lookup")
      BY <1>1, <2>4
    <3>3. \A k \in Keys :
           \/ primary'[k] = primary[k] /\ fallback'[k] = fallback[k]
           \/ /\ op[c].kind = "delete" /\ op[c].key = k
              /\ primary'[k] \in {primary[k], None} /\ fallback'[k] \in {fallback[k], None}
      BY <1>1, <2>3
    <3> HIDE DEF left, place
    <3> QED
      BY <1>1, <2>2, <2>3, <3>1, <3>2, <3>3, GoingOnKeepsInv
  <2> QED
    BY <2>5, <2>6
<1> QED
  BY <1>2, <1>3

LEMMA OpFailsKeepsInv ==
  ASSUME FallbackInv, NEW c \in Clients, OpFails(c)
  PROVE  FallbackInv'
<1> USE FallbackTypes DEF syncVars
<1>1. /\ pc[c] \notin {"idle", "syncing"} /\ op[c].key \in Keys /\ op[c] \in Requests
      /\ End(c) /\ UNCHANGED <<sync, todo, copying>> /\ faults' = faults + 1
      /\ deleted' = {k \in deleted : primary'[k] = primary[k]}
      /\ primary' \in {primary, Effect(c)}
      /\ \/ op[c].kind # "delete" /\ UNCHANGED fallback
         \/ op[c].kind = "delete" /\ fallback' = [fallback EXCEPT ![op[c].key] = None]
  BY DEF OpFails, Fault, FallbackInv, OpsTyped
<1>2. /\ Effect(c) \in [Keys -> Stored]
      /\ \A k \in Keys \ {op[c].key} : Effect(c)[k] = primary[k]
      /\ op[c].kind # "delete" => Effect(c)[op[c].key] \in {primary[op[c].key]} \cup Values
  <2>1. CASE op[c].kind = "put"
    <3>1. op[c].value \in Values
      BY <1>1, <2>1 DEF Requests
    <3>2. Effect(c) = [primary EXCEPT ![op[c].key] = op[c].value]
      BY <2>1 DEF Effect
    <3> QED
      BY <1>1, <2>1, <3>1, <3>2 DEF Stored
  <2>2. CASE op[c].kind = "delete"
    <3>1. Effect(c) = [primary EXCEPT ![op[c].key] = None]
      BY <2>2 DEF Effect
    <3> QED
      BY <1>1, <2>2, <3>1 DEF Stored
  <2>3. CASE op[c].kind \notin {"put", "delete"}
    <3>1. Effect(c) = primary
      BY <2>3 DEF Effect
    <3> QED
      BY <1>1, <2>3, <3>1
  <2> QED
    BY <2>1, <2>2, <2>3
<1>3. /\ primary' \in [Keys -> Stored] /\ fallback' \in [Keys -> Stored]
      /\ \A k \in Keys \ {op[c].key} : primary'[k] = primary[k] /\ fallback'[k] = fallback[k]
      /\ op[c].kind = "delete" => fallback'[op[c].key] = None
      /\ op[c].kind # "delete" =>
           /\ fallback'[op[c].key] = fallback[op[c].key]
           /\ primary'[op[c].key] \in {primary[op[c].key]} \cup Values
  BY <1>1, <1>2 DEF Stored
<1> QED
  BY <1>1, <1>3, EndKeepsInv

LEMMA FallbackInvInductive == FallbackInv /\ [Next]_vars => FallbackInv'
<1> SUFFICES ASSUME FallbackInv, [Next]_vars PROVE FallbackInv'
  OBVIOUS
<1>1. ASSUME NEW p \in Processes, Sync(p) PROVE FallbackInv'
  BY <1>1, SyncKeepsInv
<1>2. ASSUME NEW c \in Clients, NEW k \in Keys,
             BeginPut(c, k) \/ BeginDelete(c, k) \/ BeginLookup(c, k)
      PROVE  FallbackInv'
  BY <1>2, BeginsKeepInv
<1>3. ASSUME NEW c \in Clients, Proceed(c) PROVE FallbackInv'
  BY <1>3, LookupKeepsInv, PutKeepsInv, DeleteKeepsInv, OpFailsKeepsInv DEF Proceed
<1>4. CASE UNCHANGED vars
  BY <1>4 DEF vars, FallbackInv, TypeOK, OpsTyped, CopiesTyped, StaysSomewhere, LeftIsInSight,
              FallbackStaysEmpty, OpsWait, CopyFillsGap, DeletedAfterCopy, DeletedStaysDeleted,
              Deleting, OneCopy
<1> QED
  BY <1>1, <1>2, <1>3, <1>4 DEF Next

LEMMA FallbackInvHolds == Spec => []FallbackInv
<1> QED
  BY FallbackInvInit, FallbackInvInductive, PTL DEF Spec

\* For any number of processes and clients, and whatever fails: an object that
\* has been stored all along, and that nobody deletes, is never reported missing
\* because a copy is moving objects or a lookup asks two stores in turn.
THEOREM LookupsNeverMiss == Spec => []NeverMisses
<1>1. FallbackInv => NeverMisses
  BY DEF FallbackInv, StaysSomewhere, NeverMisses
<1> QED
  BY <1>1, FallbackInvHolds, PTL

\* When a copy is done nothing is left in the directory alone, and what has been
\* deleted after the only copy stays deleted.
THEOREM CopiesMigrateForGood == Spec => []MigratedForGood
<1>1. FallbackInv => Migrated
  BY DEF FallbackInv, LeftIsInSight, Migrated, CopiesTyped
<1>2. FallbackInv => MigratedForGood
  BY <1>1 DEF FallbackInv, MigratedForGood
<1> QED
  BY <1>2, FallbackInvHolds, PTL

\* The one copy never replaces an object by an older one: its check, its read
\* and its put are three requests, but under OneCopy no operation runs between.
THEOREM CopyOnlyFills == Spec => SyncOnlyFills
<1>1. FallbackInv /\ [Next]_vars =>
        [\A p \in Processes :
           OneCopy /\ sync[p] = "put" /\ sync'[p] = "walking"
           => primary[copying[p].key] \in {None, copying[p].value}]_vars
  BY DEF FallbackInv, CopyFillsGap
<1> QED
  BY <1>1, FallbackInvHolds, PTL DEF Spec, SyncOnlyFills
----------------------------------------------------------------------------
(* The rotation of the encryption keys. *)

Workers == Rotation!Workers
ObjectKeys == Rotation!ObjectKeys
KeyPlaces == {"head", "get", "recheck", "put"}
RunPlaces == KeyPlaces \cup {"new", "listing", "done", "rejected"}
Objects == Rotation!Object \cup {Rotation!Absent}
Reads == Values \cup {Rotation!NoContent}

\* The walk of w has still to come to k.
ToCome(w, k) == k \in page[w] \/ (token[w] # 0 /\ k > token[w])

RotationTypes ==
    /\ bucket \in [ObjectKeys -> Objects] /\ rPc \in [Workers -> RunPlaces]
    /\ page \in [Workers -> SUBSET ObjectKeys] /\ token \in [Workers -> ObjectKeys \cup {0}]
    /\ before \in [Workers -> Reads] /\ plaintext \in [Workers -> Reads]
    /\ outdated \in [Workers -> SUBSET ObjectKeys] /\ failed \in [Workers -> SUBSET ObjectKeys]
    /\ due \in [Workers -> SUBSET ObjectKeys] /\ raced \in [Workers -> BOOLEAN]

\* Where a run stands, and what it then has in hand.
Stands(v) ==
    /\ rPc[v] = "new" => page[v] = {} /\ token[v] = 0 /\ due[v] = {}
    /\ rPc[v] = "listing" => page[v] = {} /\ token[v] # 0
    /\ rPc[v] \in KeyPlaces => page[v] # {}
    /\ rPc[v] = "done" => page[v] = {} /\ token[v] = 0
    /\ rPc[v] \in KeyPlaces \ {"head"} => v \in Rotators
    /\ rPc[v] \in {"recheck", "put"} => plaintext[v] \in Values

\* What a rotation found to do, and has not migrated, has failed or is ahead.
RotationSees(v) ==
    v \in Rotators /\ rPc[v] # "rejected" =>
      \A k \in due[v] : Rotation!Outdated(k) => k \in failed[v] \/ ToCome(v, k)

\* While every writer uses the active version, whatever is on another one has
\* been noticed by a check or is ahead of it.
CheckSees(v) ==
    ~OldWriters /\ v \in Checkers /\ rPc[v] \notin {"new", "rejected"} =>
      \A k \in ObjectKeys : Rotation!Outdated(k) => k \in outdated[v] \/ ToCome(v, k)

\* The re-check will not skip an object that is still to be migrated.
ReadIsCurrent(v) ==
    v \in Rotators /\ rPc[v] \in {"get", "recheck"} =>
      (Rotation!Key(v) \in due[v] /\ Rotation!Outdated(Rotation!Key(v))
       => bucket[Rotation!Key(v)].content = before[v])

\* Until somebody changes it, the object to be put has the content checked.
CheckedIsCurrent(v) ==
    v \in Rotators /\ rPc[v] = "put" => raced[v] \/ Rotation!Holds(Rotation!Key(v), before[v])

Knows(v) == Stands(v) /\ RotationSees(v) /\ CheckSees(v) /\ ReadIsCurrent(v) /\ CheckedIsCurrent(v)

RotationInv == RotationTypes /\ \A v \in Workers : Knows(v)

\* The order of the natural numbers, as a relation.
NatLess == {x \in Nat \X Nat : x[1] < x[2]}

LEMMA NatLessWellFounded == IsWellFoundedOn(NatLess, Nat)
<1>1. NatLess = OpToRel(<, Nat)
  BY DEF NatLess, OpToRel
<1> QED
  BY <1>1, NatLessThanWellFounded

LEMMA HasLeast ==
  ASSUME NEW S \in SUBSET Nat, S # {}
  PROVE  \E x \in S : \A y \in S : x <= y
<1>1. PICK x \in S : \A y \in S : ~(<<y, x>> \in NatLess)
  BY NatLessWellFounded, WFMin
<1>2. ASSUME NEW y \in S, y < x PROVE FALSE
  <2>1. <<y, x>> \in Nat \X Nat /\ <<y, x>>[1] < <<y, x>>[2]
    BY <1>2
  <2>2. <<y, x>> \in NatLess
    BY <2>1 DEF NatLess
  <2> QED
    BY <1>1, <2>2
<1> QED
  BY <1>2

LEMMA KeysAreNumbers == ObjectKeys \subseteq Nat \ {0}
BY RotationConstants DEF ObjectKeys, Rotation!ObjectKeys

LEMMA LeastKey ==
  ASSUME NEW S \in SUBSET ObjectKeys, S # {}
  PROVE  Rotation!Min(S) \in S /\ \A k \in S : Rotation!Min(S) <= k
<1>1. S \in SUBSET Nat
  BY KeysAreNumbers
<1> QED
  BY <1>1, HasLeast DEF Rotation!Min

\* The greatest key of S is the least number that bounds it.
LEMMA GreatestKey ==
  ASSUME NEW S \in SUBSET ObjectKeys, S # {}
  PROVE  Rotation!Max(S) \in S /\ \A k \in S : k <= Rotation!Max(S)
<1> DEFINE Bounds == {n \in Nat : \A k \in S : k <= n}
<1>1. S \subseteq Nat \ {0}
  BY KeysAreNumbers
<1>2. NumKeys \in Bounds
  BY <1>1, RotationConstants DEF ObjectKeys, Rotation!ObjectKeys
<1>3. PICK u \in Bounds : \A n \in Bounds : u <= n
  BY <1>2, HasLeast
<1>4. ASSUME u \notin S PROVE FALSE
  <2>1. \A k \in S : k < u
    BY <1>1, <1>4
  <2>2. u \in Nat \ {0}
    <3>1. PICK k \in S : TRUE
      OBVIOUS
    <3>2. u \in Nat /\ k \in Nat /\ k < u
      BY <1>1, <1>3, <2>1
    <3> QED
      BY <3>2
  <2>3. u - 1 \in Bounds
    BY <1>1, <2>1, <2>2
  <2> QED
    BY <1>3, <2>2, <2>3
<1>5. u \in S /\ \A k \in S : u >= k
  BY <1>1, <1>4
<1>6. Rotation!Max(S) \in S /\ \A k \in S : Rotation!Max(S) >= k
  BY <1>5 DEF Rotation!Max
<1> QED
  BY <1>1, <1>6

\* A page holds keys after the token, in order: it leaves only later ones out,
\* and is empty only when there is none.
LEMMA PageIsAPrefix ==
  ASSUME NEW from \in Nat, NEW k \in ObjectKeys, k > from, Rotation!Exists(k),
         k \notin Rotation!PageFrom(from)
  PROVE  /\ Rotation!PageFrom(from) # {}
         /\ \A j \in Rotation!PageFrom(from) : j < k
<1> DEFINE rest == {j \in ObjectKeys : j > from /\ Rotation!Exists(j)}
           below(n) == {j \in rest : j < n}
<1>1. \A n : n \in Rotation!PageFrom(from) <=> n \in rest /\ Cardinality(below(n)) < PageSize
  <2>1. \A n : Rotation!Cardinality(below(n)) = Cardinality(below(n))
    BY DEF Cardinality, Rotation!Cardinality
  <2> QED
    BY <2>1 DEF Rotation!PageFrom, ObjectKeys
<1>2. rest \subseteq Nat /\ k \in rest
  BY KeysAreNumbers
<1>3. \A n \in rest : IsFiniteSet(below(n)) /\ Cardinality(below(n)) \in Nat
  <2>1. ASSUME NEW n \in rest PROVE IsFiniteSet(below(n))
    <3>1. below(n) \in SUBSET Nat /\ n \in Nat /\ \A j \in below(n) : j <= n
      BY <1>2
    <3> QED
      BY <3>1, FS_BoundedSetOfNaturals
  <2> QED
    BY <2>1, FS_CardinalityType
<1>4. ASSUME NEW j \in Rotation!PageFrom(from), ~(j < k) PROVE FALSE
  <2>1. j \in rest /\ Cardinality(below(j)) < PageSize
    BY <1>1
  <2>2. below(k) \in SUBSET below(j)
    BY <1>2, <1>4, <2>1
  <2>3. Cardinality(below(k)) <= Cardinality(below(j))
    BY <1>3, <2>1, <2>2, FS_Subset
  <2>4. Cardinality(below(k)) < PageSize
    BY <1>2, <1>3, <2>1, <2>3, RotationConstants
  <2> QED
    BY <1>1, <1>2, <2>4
<1>5. PICK m \in rest : \A n \in rest : m <= n
  BY <1>2, HasLeast
<1>6. below(m) = {}
  BY <1>2, <1>5
<1>7. Cardinality(below(m)) = 0
  BY <1>6, FS_EmptySet
<1>8. m \in Rotation!PageFrom(from)
  BY <1>1, <1>7, RotationConstants
<1> QED
  BY <1>4, <1>8

LEMMA PageTyped ==
  ASSUME NEW from
  PROVE  Rotation!PageFrom(from) \in SUBSET ObjectKeys
BY DEF Rotation!PageFrom, ObjectKeys

LEMMA RotationInvInit == Rotation!Init => RotationInv
<1> SUFFICES ASSUME Rotation!Init PROVE RotationInv
  OBVIOUS
<1> USE DEF Rotation!Init, Workers, ObjectKeys
<1>1. RotationTypes
  BY DEF RotationTypes, Objects, RunPlaces, KeyPlaces, Reads
<1>2. ASSUME NEW v \in Workers PROVE Knows(v)
  <2>1. rPc[v] = "new" /\ page[v] = {} /\ token[v] = 0 /\ due[v] = {}
    OBVIOUS
  <2> QED
    BY <2>1 DEF Knows, Stands, RotationSees, CheckSees, ReadIsCurrent, CheckedIsCurrent, KeyPlaces
<1> QED
  BY <1>1, <1>2 DEF RotationInv

\* The key in hand.
LEMMA KeyInHand ==
  ASSUME RotationInv, NEW w \in Workers, rPc[w] \in KeyPlaces
  PROVE  Rotation!Key(w) \in page[w] /\ Rotation!Key(w) \in ObjectKeys
<1>1. page[w] \in SUBSET ObjectKeys /\ page[w] # {}
  BY DEF RotationInv, RotationTypes, Knows, Stands
<1> QED
  BY <1>1, LeastKey DEF Rotation!Key

\* What a worker whose place and page stay knows remains true of a bucket where
\* an object changes only to the active version, is no longer due, or was not
\* checked by this worker.
WorkerKept(v) ==
    /\ page'[v] = page[v] /\ token'[v] = token[v] /\ rPc'[v] = rPc[v] /\ before'[v] = before[v]
    /\ plaintext'[v] = plaintext[v]
    /\ outdated'[v] = outdated[v] /\ failed'[v] = failed[v] /\ due'[v] \subseteq due[v]
    /\ rPc[v] = "put" =>
         \/ raced'[v]
         \/ raced'[v] = raced[v] /\ bucket'[Rotation!Key(v)] = bucket[Rotation!Key(v)]

\* Objects change to the active version, as far as anybody is concerned.
BucketImproves ==
    /\ \A v \in Workers : \A k \in due'[v] : Rotation!Outdated(k)' => bucket'[k] = bucket[k]
    /\ ~OldWriters => \A k \in ObjectKeys : Rotation!Outdated(k)' => bucket'[k] = bucket[k]

LEMMA OutdatedBefore ==
  ASSUME NEW k, Rotation!Outdated(k)', bucket'[k] = bucket[k]
  PROVE  Rotation!Outdated(k)
BY DEF Rotation!Outdated, Rotation!Metadata

LEMMA KeptKnows ==
  ASSUME RotationInv, NEW v \in Workers, WorkerKept(v), BucketImproves,
         due' \in [Workers -> SUBSET ObjectKeys]
  PROVE  Knows(v)'
<1>1. Knows(v) /\ raced[v] \in BOOLEAN /\ due'[v] \subseteq ObjectKeys
  BY DEF RotationInv, RotationTypes
<1>2. Rotation!Key(v)' = Rotation!Key(v)
  BY DEF Rotation!Key, WorkerKept
<1>3. \A k : ToCome(v, k)' <=> ToCome(v, k)
  BY DEF ToCome, WorkerKept
<1>4. \A k \in due'[v] : Rotation!Outdated(k)' => Rotation!Outdated(k) /\ bucket'[k] = bucket[k]
  BY OutdatedBefore DEF BucketImproves
<1>5. ~OldWriters => \A k \in ObjectKeys :
                       Rotation!Outdated(k)' => Rotation!Outdated(k)
  BY OutdatedBefore DEF BucketImproves
<1>6. RotationSees(v)'
  BY <1>1, <1>3, <1>4 DEF Knows, WorkerKept, RotationSees
<1>7. CheckSees(v)'
  BY <1>1, <1>3, <1>5 DEF Knows, WorkerKept, CheckSees
<1>8. ReadIsCurrent(v)'
  <2> SUFFICES ASSUME v \in Rotators, rPc'[v] \in {"get", "recheck"},
                      Rotation!Key(v) \in due'[v], Rotation!Outdated(Rotation!Key(v))'
               PROVE  bucket'[Rotation!Key(v)].content = before'[v]
    BY <1>2 DEF ReadIsCurrent
  <2>1. Rotation!Outdated(Rotation!Key(v))
        /\ bucket'[Rotation!Key(v)] = bucket[Rotation!Key(v)]
    BY <1>2, <1>4 DEF Rotation!Outdated, Rotation!Metadata
  <2> QED
    BY <1>1, <2>1 DEF Knows, WorkerKept, ReadIsCurrent
<1>9. CheckedIsCurrent(v)'
  BY <1>1, <1>2 DEF Knows, WorkerKept, CheckedIsCurrent, Rotation!Holds, Rotation!Exists
<1>10. Stands(v)'
  BY <1>1 DEF Knows, WorkerKept, Stands
<1> QED
  BY <1>6, <1>7, <1>8, <1>9, <1>10 DEF Knows

\* What Advance() does to the worker, and that it leaves the others alone.
LEMMA AdvanceFacts ==
  ASSUME RotationInv, NEW w \in Workers, rPc[w] \in KeyPlaces, Rotation!Advance(w)
  PROVE  /\ page' \in [Workers -> SUBSET ObjectKeys] /\ token' = token
         /\ rPc' \in [Workers -> RunPlaces]
         /\ before' \in [Workers -> Reads] /\ plaintext' \in [Workers -> Reads]
         /\ \A v \in Workers : rPc'[v] \in KeyPlaces => page'[v] # {}
         /\ \A v \in Workers : rPc'[v] = "done" => page'[v] = {} /\ token'[v] = 0
         /\ page'[w] = page[w] \ {Rotation!Key(w)}
         /\ rPc'[w] \in {"head", "listing", "done"}
         /\ rPc'[w] = "listing" => page'[w] = {} /\ token'[w] # 0
         /\ \A v \in Workers \ {w} :
              /\ page'[v] = page[v] /\ rPc'[v] = rPc[v]
              /\ before'[v] = before[v] /\ plaintext'[v] = plaintext[v]
<1>1. /\ page \in [Workers -> SUBSET ObjectKeys] /\ rPc \in [Workers -> RunPlaces]
      /\ before \in [Workers -> Reads] /\ plaintext \in [Workers -> Reads]
      /\ \A v \in Workers : rPc[v] \in KeyPlaces => page[v] # {}
      /\ \A v \in Workers : rPc[v] = "done" => page[v] = {} /\ token[v] = 0
  BY DEF RotationInv, RotationTypes, Knows, Stands
<1>2. Rotation!Key(w) \in page[w]
  BY KeyInHand
<1>3. /\ page' = [page EXCEPT ![w] = @ \ {Rotation!Key(w)}]
      /\ rPc' = [rPc EXCEPT ![w] = IF page[w] # {Rotation!Key(w)} THEN "head"
                                   ELSE IF token[w] # 0 THEN "listing" ELSE "done"]
      /\ before' = [before EXCEPT ![w] = Rotation!NoContent]
      /\ plaintext' = [plaintext EXCEPT ![w] = Rotation!NoContent]
      /\ token' = token
  BY DEF Rotation!Advance
<1>4. rPc'[w] \in {"head", "listing", "done"} /\ rPc' \in [Workers -> RunPlaces]
  BY <1>1, <1>3 DEF RunPlaces, KeyPlaces
<1>5. page'[w] = page[w] \ {Rotation!Key(w)} /\ page' \in [Workers -> SUBSET ObjectKeys]
  BY <1>1, <1>3
<1>6. before' \in [Workers -> Reads] /\ plaintext' \in [Workers -> Reads]
  BY <1>1, <1>3 DEF Reads
<1>7. /\ rPc'[w] = "head" => page'[w] # {}
      /\ rPc'[w] \in {"listing", "done"} => page'[w] = {}
      /\ rPc'[w] = "listing" => token'[w] # 0
      /\ rPc'[w] = "done" => token'[w] = 0
  BY <1>1, <1>2, <1>3, <1>5
<1>8. \A v \in Workers \ {w} :
         /\ page'[v] = page[v] /\ rPc'[v] = rPc[v]
         /\ before'[v] = before[v] /\ plaintext'[v] = plaintext[v]
  BY <1>1, <1>3
<1> QED
  BY <1>1, <1>3, <1>4, <1>5, <1>6, <1>7, <1>8 DEF KeyPlaces

\* A worker may go on to its next key when it has dealt with the one in hand.
LEMMA AdvanceKeepsInv ==
  ASSUME RotationInv, NEW w \in Workers, rPc[w] \in KeyPlaces, Rotation!Advance(w),
         bucket' \in [ObjectKeys -> Objects], due' = due, raced' \in [Workers -> BOOLEAN],
         outdated' \in [Workers -> SUBSET ObjectKeys], failed' \in [Workers -> SUBSET ObjectKeys],
         BucketImproves,
         \A v \in Workers \ {w} :
           /\ outdated'[v] = outdated[v] /\ failed'[v] = failed[v]
           /\ rPc[v] = "put" =>
                \/ raced'[v]
                \/ raced'[v] = raced[v] /\ bucket'[Rotation!Key(v)] = bucket[Rotation!Key(v)],
         outdated[w] \subseteq outdated'[w], failed[w] \subseteq failed'[w],
         NEW h \in ObjectKeys, h = Rotation!Key(w),
         Rotation!Outdated(h)' /\ w \in Rotators /\ h \in due[w] => h \in failed'[w],
         Rotation!Outdated(h)' /\ w \in Checkers => h \in outdated'[w]
  PROVE  RotationInv'
<1>1. due \in [Workers -> SUBSET ObjectKeys] /\ \A v \in Workers : Knows(v)
  BY DEF RotationInv, RotationTypes
<1>2. /\ page' \in [Workers -> SUBSET ObjectKeys] /\ token' = token
      /\ rPc' \in [Workers -> RunPlaces]
      /\ before' \in [Workers -> Reads] /\ plaintext' \in [Workers -> Reads]
      /\ \A v \in Workers : rPc'[v] \in KeyPlaces => page'[v] # {}
      /\ \A v \in Workers : rPc'[v] = "done" => page'[v] = {} /\ token'[v] = 0
      /\ page'[w] = page[w] \ {Rotation!Key(w)}
      /\ rPc'[w] \in {"head", "listing", "done"}
      /\ rPc'[w] = "listing" => page'[w] = {} /\ token'[w] # 0
      /\ \A v \in Workers \ {w} :
           /\ page'[v] = page[v] /\ rPc'[v] = rPc[v]
           /\ before'[v] = before[v] /\ plaintext'[v] = plaintext[v]
  BY AdvanceFacts
<1>3. RotationTypes'
  BY <1>2 DEF RotationTypes, RotationInv
<1>4. ASSUME NEW v \in Workers \ {w} PROVE Knows(v)'
  <2>1. WorkerKept(v)
    BY <1>2, <1>4 DEF WorkerKept
  <2> QED
    BY <2>1, <1>1, KeptKnows
<1>5. \A k : ToCome(w, k) /\ k # h => ToCome(w, k)'
  BY <1>2 DEF ToCome
<1>6. \A k \in due[w] : Rotation!Outdated(k)' => Rotation!Outdated(k)
  BY OutdatedBefore DEF BucketImproves
<1>7. ~OldWriters => \A k \in ObjectKeys : Rotation!Outdated(k)' => Rotation!Outdated(k)
  BY OutdatedBefore DEF BucketImproves
<1>8. RotationSees(w)'
  BY <1>1, <1>5, <1>6 DEF Knows, RotationSees, KeyPlaces
<1>9. CheckSees(w)'
  BY <1>1, <1>5, <1>7 DEF Knows, CheckSees, KeyPlaces
<1>10. Stands(w)' /\ ReadIsCurrent(w)' /\ CheckedIsCurrent(w)'
  BY <1>2 DEF Stands, ReadIsCurrent, CheckedIsCurrent, KeyPlaces
<1> QED
  BY <1>3, <1>4, <1>8, <1>9, <1>10 DEF RotationInv, Knows

LEMMA ListKeepsInv ==
  ASSUME RotationInv, NEW w \in Workers, Rotation!List(w)
  PROVE  RotationInv'
<1> DEFINE keys == Rotation!PageFrom(token[w])
           cut == Rotation!Truncated(keys)
           last == Rotation!Max(keys)
<1> USE DEF Rotation!List, Rotation!readVars, Rotation!resultVars, Rotation!boundVars
<1>1. RotationTypes /\ \A v \in Workers : Knows(v)
  BY DEF RotationInv
<1>2. rPc[w] \in {"new", "listing"} /\ token[w] \in Nat
  <2>1. token[w] \in ObjectKeys \/ token[w] = 0
    BY <1>1 DEF RotationTypes
  <2>2. token[w] \in Nat
    <3>1. CASE token[w] = 0
      BY <3>1
    <3>2. CASE token[w] \in ObjectKeys
      BY <3>2, KeysAreNumbers
    <3> QED
      BY <2>1, <3>1, <3>2
  <2>3. rPc[w] \in {"new", "listing"}
    OBVIOUS
  <2> QED
    BY <2>2, <2>3
<1>3. keys \in SUBSET ObjectKeys
  BY PageTyped
<1>4. keys # {} => last \in keys /\ \A k \in keys : k <= last
  BY <1>3, GreatestKey
<1>5. cut => keys # {}
  BY DEF Rotation!Truncated
<1>6. /\ page' = [page EXCEPT ![w] = keys]
      /\ token' = [token EXCEPT ![w] = IF cut THEN last ELSE 0]
      /\ rPc' = [rPc EXCEPT ![w] = IF keys = {} THEN "done" ELSE "head"]
      /\ due' = [due EXCEPT ![w] =
                   IF rPc[w] = "new" THEN {k \in ObjectKeys : Rotation!Outdated(k)} ELSE @]
      /\ UNCHANGED <<bucket, before, plaintext, outdated, failed, raced>>
  BY DEF ObjectKeys
\* What is there after the token is on the page or after the new one.
<1>7. ASSUME NEW k \in ObjectKeys, k > token[w], Rotation!Exists(k), k \notin keys
      PROVE  cut /\ k > last /\ last # 0
  <2>1. keys # {} /\ \A j \in keys : j < k
    BY <1>2, <1>7, PageIsAPrefix
  <2>2. last < k /\ last \in Nat \ {0}
    BY <1>3, <1>4, <2>1, KeysAreNumbers
  <2>3. k > last
    BY <2>2, KeysAreNumbers
  <2> QED
    BY <1>7, <2>1, <2>2, <2>3 DEF Rotation!Truncated, ObjectKeys
<1> HIDE DEF keys, cut, last
<1>8. RotationTypes'
  <2>1. page' \in [Workers -> SUBSET ObjectKeys] /\ rPc' \in [Workers -> RunPlaces]
    BY <1>1, <1>3, <1>6 DEF RotationTypes, RunPlaces, KeyPlaces
  <2>2. token' \in [Workers -> ObjectKeys \cup {0}]
    BY <1>1, <1>3, <1>4, <1>5, <1>6 DEF RotationTypes
  <2>3. due' \in [Workers -> SUBSET ObjectKeys]
    BY <1>1, <1>6 DEF RotationTypes
  <2> QED
    BY <1>1, <1>6, <2>1, <2>2, <2>3 DEF RotationTypes
<1>9. ASSUME NEW v \in Workers \ {w} PROVE Knows(v)'
  <2>1. WorkerKept(v) /\ BucketImproves /\ due' \in [Workers -> SUBSET ObjectKeys]
    BY <1>1, <1>6, <1>8, <1>9 DEF WorkerKept, BucketImproves, RotationTypes
  <2> QED
    BY <2>1, KeptKnows
<1>10. /\ page'[w] = keys /\ token'[w] = (IF cut THEN last ELSE 0)
       /\ rPc'[w] = (IF keys = {} THEN "done" ELSE "head")
       /\ due'[w] = IF rPc[w] = "new" THEN {k \in ObjectKeys : Rotation!Outdated(k)} ELSE due[w]
  BY <1>1, <1>6 DEF RotationTypes
<1>11. \A k \in ObjectKeys : Rotation!Outdated(k)' = Rotation!Outdated(k)
  BY <1>6 DEF Rotation!Outdated, Rotation!Metadata
<1>12. ASSUME NEW k \in ObjectKeys, Rotation!Outdated(k), k > token[w]
       PROVE  ToCome(w, k)'
  <2>1. Rotation!Exists(k)
    BY <1>12 DEF Rotation!Outdated, Rotation!Metadata, Rotation!Exists
  <2> QED
    BY <1>7, <1>10, <1>12, <2>1 DEF ToCome
<1>13. rPc[w] = "new" => \A k \in ObjectKeys : k > token[w]
  BY <1>1, KeysAreNumbers DEF Knows, Stands
<1>14. rPc[w] = "listing" => \A k \in ObjectKeys : ToCome(w, k) => k > token[w]
  BY <1>1 DEF Knows, Stands, ToCome
<1>15. RotationSees(w)'
  <2> SUFFICES ASSUME w \in Rotators, NEW k \in due'[w], Rotation!Outdated(k)'
               PROVE  k \in failed'[w] \/ ToCome(w, k)'
    BY DEF RotationSees
  <2>1. k \in ObjectKeys /\ Rotation!Outdated(k)
    BY <1>8, <1>11 DEF RotationTypes
  <2>2. CASE rPc[w] = "new"
    BY <1>12, <1>13, <2>1, <2>2
  <2>3. CASE rPc[w] = "listing"
    <3>1. k \in failed[w] \/ ToCome(w, k)
      BY <1>1, <1>10, <2>1, <2>3 DEF Knows, RotationSees
    <3> QED
      BY <1>6, <1>12, <1>14, <2>1, <2>3, <3>1
  <2> QED
    BY <1>2, <2>2, <2>3
<1>16. CheckSees(w)'
  <2> SUFFICES ASSUME ~OldWriters, w \in Checkers, NEW k \in ObjectKeys, Rotation!Outdated(k)'
               PROVE  k \in outdated'[w] \/ ToCome(w, k)'
    BY DEF CheckSees
  <2>1. Rotation!Outdated(k)
    BY <1>11
  <2>2. CASE rPc[w] = "new"
    BY <1>12, <1>13, <2>1, <2>2
  <2>3. CASE rPc[w] = "listing"
    <3>1. k \in outdated[w] \/ ToCome(w, k)
      BY <1>1, <2>1, <2>3 DEF Knows, CheckSees
    <3> QED
      BY <1>6, <1>12, <1>14, <2>1, <2>3, <3>1
  <2> QED
    BY <1>2, <2>2, <2>3
<1>17. Stands(w)' /\ ReadIsCurrent(w)' /\ CheckedIsCurrent(w)'
  BY <1>5, <1>10 DEF Stands, ReadIsCurrent, CheckedIsCurrent, KeyPlaces
<1> QED
  BY <1>8, <1>9, <1>15, <1>16, <1>17 DEF RotationInv, Knows

\* A run that is rejected has nothing to answer for.
LEMMA RejectionKeepsInv ==
  ASSUME RotationInv, NEW w \in Workers, Rotation!ListFails(w) \/ Rotation!CheckFails(w)
  PROVE  RotationInv'
<1>1. RotationTypes /\ \A v \in Workers : Knows(v)
  BY DEF RotationInv
<1>2. /\ rPc' = [rPc EXCEPT ![w] = "rejected"]
      /\ UNCHANGED <<bucket, page, token, before, plaintext, outdated, failed, due, raced>>
  BY DEF Rotation!ListFails, Rotation!CheckFails, Rotation!walkVars, Rotation!readVars,
         Rotation!resultVars, Rotation!ghostVars
<1>3. RotationTypes'
  BY <1>1, <1>2 DEF RotationTypes, RunPlaces
<1>4. ASSUME NEW v \in Workers \ {w} PROVE Knows(v)'
  <2>1. WorkerKept(v) /\ BucketImproves /\ due' \in [Workers -> SUBSET ObjectKeys]
    BY <1>1, <1>2, <1>3, <1>4 DEF WorkerKept, BucketImproves, RotationTypes
  <2> QED
    BY <2>1, KeptKnows
<1>5. rPc'[w] = "rejected"
  BY <1>1, <1>2 DEF RotationTypes
<1>6. Knows(w)'
  BY <1>5 DEF Knows, Stands, RotationSees, CheckSees, ReadIsCurrent, CheckedIsCurrent, KeyPlaces
<1> QED
  BY <1>3, <1>4, <1>6 DEF RotationInv

LEMMA WriteKeepsInv ==
  ASSUME RotationInv, NEW k \in ObjectKeys, Rotation!Write(k)
  PROVE  RotationInv'
<1> USE DEF Rotation!Write, Rotation!walkVars, Rotation!readVars, Rotation!resultVars
<1>1. RotationTypes /\ \A v \in Workers : Knows(v)
  BY DEF RotationInv
<1>2. PICK o \in Objects : /\ bucket' = [bucket EXCEPT ![k] = o]
                           /\ ~OldWriters /\ o # Rotation!Absent => o.version = Rotation!Active
  <2>1. CASE \E c \in Values, v \in Rotation!WritingVersions :
               bucket' = [bucket EXCEPT ![k] = [content |-> c, version |-> v]]
    <3>1. PICK c \in Values, v \in Rotation!WritingVersions :
               bucket' = [bucket EXCEPT ![k] = [content |-> c, version |-> v]]
      BY <2>1
    <3>2. [content |-> c, version |-> v] \in Objects /\ (~OldWriters => v = Rotation!Active)
      BY DEF Objects, Rotation!Object, Rotation!WritingVersions, Rotation!Versions
    <3> QED
      BY <3>1, <3>2
  <2>2. CASE bucket' = [bucket EXCEPT ![k] = Rotation!Absent]
    BY <2>2 DEF Objects
  <2> QED
    BY <2>1, <2>2
<1>3. bucket' \in [ObjectKeys -> Objects] /\ bucket'[k] = o
      /\ \A j \in ObjectKeys \ {k} : bucket'[j] = bucket[j]
  BY <1>1, <1>2 DEF RotationTypes
<1>4. /\ due' = [w \in Workers |-> due[w] \ {k}]
      /\ raced' = [w \in Workers |-> raced[w] \/ (rPc[w] = "put" /\ Rotation!Key(w) = k)]
      /\ UNCHANGED <<rPc, page, token, before, plaintext, outdated, failed>>
  BY DEF Rotation!Race, Workers
<1>5. due' \in [Workers -> SUBSET ObjectKeys] /\ raced' \in [Workers -> BOOLEAN]
  BY <1>1, <1>4 DEF RotationTypes
<1>6. RotationTypes'
  BY <1>1, <1>3, <1>4, <1>5 DEF RotationTypes
<1>7. BucketImproves
  <2>1. \A v \in Workers : \A j \in due'[v] : j \in ObjectKeys \ {k}
    BY <1>1, <1>4 DEF RotationTypes
  <2>2. ~OldWriters => ~Rotation!Outdated(k)'
    BY <1>2, <1>3 DEF Rotation!Outdated, Rotation!Metadata
  <2> QED
    BY <1>3, <2>1, <2>2 DEF BucketImproves
<1>8. ASSUME NEW v \in Workers PROVE WorkerKept(v)
  <2>1. rPc[v] = "put" => Rotation!Key(v) \in ObjectKeys
    BY KeyInHand DEF KeyPlaces
  <2>2. raced[v] \in BOOLEAN
    BY <1>1 DEF RotationTypes
  <2>3. rPc[v] = "put" => raced'[v] \/ (raced'[v] = raced[v] /\ Rotation!Key(v) # k)
    BY <1>4, <2>2
  <2> QED
    BY <1>3, <1>4, <2>1, <2>3 DEF WorkerKept
<1> QED
  BY <1>5, <1>6, <1>7, <1>8, KeptKnows DEF RotationInv

\* A rotation has read or checked the object in hand and goes on with it.
LEMMA GoingOnWithKeyKeepsInv ==
  ASSUME RotationInv, NEW w \in Workers, rPc[w] \in KeyPlaces, w \in Rotators,
         NEW place \in KeyPlaces \ {"head"}, rPc' = [rPc EXCEPT ![w] = place],
         UNCHANGED <<bucket, page, token, outdated, failed, due>>,
         before' \in [Workers -> Reads], plaintext' \in [Workers -> Reads],
         raced' \in [Workers -> BOOLEAN],
         \A v \in Workers \ {w} : /\ before'[v] = before[v] /\ plaintext'[v] = plaintext[v]
                                  /\ raced'[v] = raced[v],
         ReadIsCurrent(w)', CheckedIsCurrent(w)',
         place \in {"recheck", "put"} => plaintext'[w] \in Values
  PROVE  RotationInv'
<1>1. RotationTypes /\ \A v \in Workers : Knows(v)
  BY DEF RotationInv
<1>2. rPc' \in [Workers -> RunPlaces] /\ rPc'[w] = place
  BY <1>1 DEF RotationTypes, RunPlaces
<1>3. RotationTypes'
  BY <1>1, <1>2 DEF RotationTypes
<1>4. ASSUME NEW v \in Workers \ {w} PROVE Knows(v)'
  <2>1. WorkerKept(v) /\ BucketImproves /\ due' \in [Workers -> SUBSET ObjectKeys]
    BY <1>1, <1>3, <1>4 DEF WorkerKept, BucketImproves, RotationTypes
  <2> QED
    BY <2>1, KeptKnows
<1>5. \A k : Rotation!Outdated(k)' = Rotation!Outdated(k) /\ ToCome(w, k)' = ToCome(w, k)
  BY DEF Rotation!Outdated, Rotation!Metadata, ToCome
<1>6. RotationSees(w)'
  BY <1>1, <1>5 DEF Knows, RotationSees, KeyPlaces
<1>7. CheckSees(w)'
  BY RotationConstants DEF CheckSees
<1>8. Stands(w)'
  BY <1>1, <1>2 DEF Knows, Stands, KeyPlaces
<1> QED
  BY <1>3, <1>4, <1>6, <1>7, <1>8 DEF RotationInv, Knows

LEMMA UnchangedBucket ==
  ASSUME RotationTypes, UNCHANGED <<bucket, due>>
  PROVE  /\ BucketImproves /\ bucket' \in [ObjectKeys -> Objects]
         /\ \A k : Rotation!Outdated(k)' = Rotation!Outdated(k)
BY DEF RotationTypes, BucketImproves, Rotation!Outdated, Rotation!Metadata

LEMMA HeadKeepsInv ==
  ASSUME RotationInv, NEW w \in Workers, Rotation!RotateHead(w)
  PROVE  RotationInv'
<1> USE DEF Rotation!RotateHead, Rotation!resultVars, Rotation!ghostVars, Rotation!walkVars
<1>1. RotationTypes /\ Knows(w)
  BY DEF RotationInv
<1>2. rPc[w] = "head" /\ w \in Rotators /\ w \notin Checkers
      /\ UNCHANGED <<bucket, outdated, failed, due, raced>>
  BY RotationConstants
<1>3. PICK h \in ObjectKeys : h = Rotation!Key(w)
  BY <1>2, KeyInHand DEF KeyPlaces
<1>4. CASE Rotation!Outdated(Rotation!Key(w))
  <2>1. /\ before' = [before EXCEPT ![w] = bucket[h].content]
        /\ rPc' = [rPc EXCEPT ![w] = "get"] /\ UNCHANGED <<page, token, plaintext>>
    BY <1>3, <1>4 DEF Rotation!Metadata
  <2>2. bucket[h] \in Objects /\ bucket[h] # Rotation!Absent
    BY <1>1, <1>3, <1>4 DEF RotationTypes, Rotation!Outdated, Rotation!Metadata
  <2>3. bucket[h].content \in Reads
    BY <2>2 DEF Objects, Rotation!Object, Reads
  <2>4. /\ before' \in [Workers -> Reads] /\ before'[w] = bucket[h].content
        /\ plaintext' \in [Workers -> Reads] /\ raced' \in [Workers -> BOOLEAN]
        /\ rPc'[w] = "get"
        /\ \A v \in Workers \ {w} : before'[v] = before[v]
    BY <1>1, <1>2, <2>1, <2>3 DEF RotationTypes
  <2>5. ReadIsCurrent(w)' /\ CheckedIsCurrent(w)'
    BY <1>2, <1>3, <2>1, <2>4 DEF ReadIsCurrent, CheckedIsCurrent, Rotation!Key
  <2> QED
    BY <1>2, <2>1, <2>4, <2>5, GoingOnWithKeyKeepsInv DEF KeyPlaces
<1>5. CASE ~Rotation!Outdated(Rotation!Key(w))
  <2>1. Rotation!Advance(w) /\ ~Rotation!Outdated(h)
    BY <1>3, <1>5
  <2> QED
    BY <1>1, <1>2, <1>3, <2>1, UnchangedBucket, AdvanceKeepsInv DEF KeyPlaces, RotationTypes
<1> QED
  BY <1>4, <1>5

LEMMA GetKeepsInv ==
  ASSUME RotationInv, NEW w \in Workers, Rotation!Get(w)
  PROVE  RotationInv'
<1> USE DEF Rotation!Get, Rotation!resultVars, Rotation!ghostVars, Rotation!walkVars
<1>1. RotationTypes /\ Knows(w)
  BY DEF RotationInv
<1>2. rPc[w] = "get" /\ w \in Rotators /\ w \notin Checkers
      /\ UNCHANGED <<bucket, outdated, failed, due, raced>>
  BY <1>1, RotationConstants DEF Knows, Stands, KeyPlaces
<1>3. PICK h \in ObjectKeys : h = Rotation!Key(w)
  BY <1>2, KeyInHand DEF KeyPlaces
<1>4. CASE Rotation!Exists(Rotation!Key(w))
  <2>1. /\ plaintext' = [plaintext EXCEPT ![w] = bucket[h].content]
        /\ rPc' = [rPc EXCEPT ![w] = "recheck"] /\ UNCHANGED <<page, token, before>>
    BY <1>3, <1>4
  <2>2. bucket[h] \in Objects /\ bucket[h] # Rotation!Absent
    BY <1>1, <1>3, <1>4 DEF RotationTypes, Rotation!Exists
  <2>3. bucket[h].content \in Values
    BY <2>2 DEF Objects, Rotation!Object
  <2>4. /\ plaintext' \in [Workers -> Reads] /\ plaintext'[w] = bucket[h].content
        /\ before' \in [Workers -> Reads] /\ raced' \in [Workers -> BOOLEAN]
        /\ rPc'[w] = "recheck"
        /\ \A v \in Workers \ {w} : plaintext'[v] = plaintext[v]
    BY <1>1, <1>2, <2>1, <2>3 DEF RotationTypes, Reads
  <2>5. Rotation!Key(w)' = Rotation!Key(w)
    BY <2>1 DEF Rotation!Key
  <2>6. ReadIsCurrent(w)' /\ CheckedIsCurrent(w)'
    BY <1>1, <1>2, <2>1, <2>4, <2>5 DEF Knows, ReadIsCurrent, CheckedIsCurrent,
       Rotation!Outdated, Rotation!Metadata
  <2> QED
    BY <1>2, <2>1, <2>3, <2>4, <2>6, GoingOnWithKeyKeepsInv DEF KeyPlaces
<1>5. CASE ~Rotation!Exists(Rotation!Key(w))
  <2>1. Rotation!Advance(w) /\ ~Rotation!Outdated(h)
    BY <1>3, <1>5 DEF Rotation!Exists, Rotation!Outdated, Rotation!Metadata
  <2> QED
    BY <1>1, <1>2, <1>3, <2>1, UnchangedBucket, AdvanceKeepsInv DEF KeyPlaces, RotationTypes
<1> QED
  BY <1>4, <1>5

LEMMA RecheckKeepsInv ==
  ASSUME RotationInv, NEW w \in Workers, Rotation!Recheck(w)
  PROVE  RotationInv'
<1> USE DEF Rotation!Recheck, Rotation!resultVars, Rotation!readVars, Rotation!walkVars
<1>1. RotationTypes /\ Knows(w)
  BY DEF RotationInv
<1>2. rPc[w] = "recheck" /\ w \in Rotators /\ w \notin Checkers
      /\ UNCHANGED <<bucket, outdated, failed, due>>
  BY <1>1, RotationConstants DEF Knows, Stands, KeyPlaces
<1>3. PICK h \in ObjectKeys : h = Rotation!Key(w)
  BY <1>2, KeyInHand DEF KeyPlaces
<1>4. CASE Rotation!Unchanged(w)
  <2>1. /\ rPc' = [rPc EXCEPT ![w] = "put"] /\ raced' = [raced EXCEPT ![w] = FALSE]
        /\ UNCHANGED <<page, token, before, plaintext>>
    BY <1>4
  <2>2. /\ plaintext' \in [Workers -> Reads] /\ before' \in [Workers -> Reads]
        /\ raced' \in [Workers -> BOOLEAN] /\ rPc'[w] = "put"
        /\ \A v \in Workers \ {w} : raced'[v] = raced[v]
    BY <1>1, <2>1 DEF RotationTypes
  <2>3. Rotation!Key(w)' = Rotation!Key(w)
    BY <2>1 DEF Rotation!Key
  <2>4. ReadIsCurrent(w)' /\ CheckedIsCurrent(w)'
    BY <1>2, <1>4, <2>1, <2>2, <2>3 DEF ReadIsCurrent, CheckedIsCurrent, Rotation!Holds,
       Rotation!Exists, Rotation!Unchanged, Rotation!Metadata
  <2>5. plaintext'[w] \in Values
    BY <1>1, <1>2, <2>1 DEF Knows, Stands
  <2> QED
    BY <1>2, <2>1, <2>2, <2>4, <2>5, GoingOnWithKeyKeepsInv DEF KeyPlaces
<1>5. CASE ~Rotation!Unchanged(w)
  <2>1. Rotation!Advance(w) /\ raced' = raced
    BY <1>5
  <2>2. h \in due[w] => ~Rotation!Outdated(h)
    BY <1>1, <1>2, <1>3, <1>5 DEF Knows, ReadIsCurrent, Rotation!Unchanged, Rotation!Metadata,
       Rotation!Outdated
  <2> QED
    BY <1>1, <1>2, <1>3, <2>1, <2>2, UnchangedBucket, AdvanceKeepsInv DEF KeyPlaces, RotationTypes
<1> QED
  BY <1>4, <1>5

\* The put makes the object current, and is a change to whoever has checked it.
LEMMA StoredImproves ==
  ASSUME RotationInv, NEW w \in Workers, rPc[w] = "put",
         bucket' = Rotation!Stored(w), raced' = Rotation!Race(Rotation!Key(w)), due' = due,
         NEW h \in ObjectKeys, h = Rotation!Key(w)
  PROVE  /\ bucket' \in [ObjectKeys -> Objects] /\ raced' \in [Workers -> BOOLEAN]
         /\ BucketImproves /\ ~Rotation!Outdated(h)'
         /\ \A v \in Workers : rPc[v] = "put" =>
              \/ raced'[v]
              \/ raced'[v] = raced[v] /\ bucket'[Rotation!Key(v)] = bucket[Rotation!Key(v)]
<1>1. RotationTypes /\ plaintext[w] \in Values
  BY DEF RotationInv, Knows, Stands
<1>2. bucket' = [bucket EXCEPT ![h] = [content |-> plaintext[w], version |-> Rotation!Active]]
  BY DEF Rotation!Stored
<1>3. [content |-> plaintext[w], version |-> Rotation!Active] \in Objects
  BY <1>1 DEF Objects, Rotation!Object, Rotation!Versions
<1>4. /\ bucket' \in [ObjectKeys -> Objects] /\ bucket'[h].version = Rotation!Active
      /\ \A k \in ObjectKeys \ {h} : bucket'[k] = bucket[k]
  BY <1>1, <1>2, <1>3 DEF RotationTypes
<1>5. ~Rotation!Outdated(h)'
  BY <1>4 DEF Rotation!Outdated, Rotation!Metadata
<1>6. BucketImproves
  BY <1>1, <1>4, <1>5 DEF BucketImproves, RotationTypes
<1>7. raced' = [v \in Workers |-> raced[v] \/ (rPc[v] = "put" /\ Rotation!Key(v) = h)]
  BY DEF Rotation!Race, Workers
<1>8. raced' \in [Workers -> BOOLEAN]
  BY <1>1, <1>7 DEF RotationTypes
<1>9. ASSUME NEW v \in Workers, rPc[v] = "put", ~raced'[v]
      PROVE  raced'[v] = raced[v] /\ bucket'[Rotation!Key(v)] = bucket[Rotation!Key(v)]
  <2>1. Rotation!Key(v) \in ObjectKeys
    BY <1>9, KeyInHand DEF KeyPlaces
  <2>2. raced[v] \in BOOLEAN /\ raced'[v] \in BOOLEAN
    BY <1>1, <1>8 DEF RotationTypes
  <2>3. Rotation!Key(v) # h /\ ~raced[v]
    BY <1>7, <1>9
  <2> QED
    BY <1>4, <1>9, <2>1, <2>2, <2>3
<1> QED
  BY <1>4, <1>5, <1>6, <1>8, <1>9

LEMMA RotatePutKeepsInv ==
  ASSUME RotationInv, NEW w \in Workers, Rotation!Put(w)
  PROVE  RotationInv'
<1> USE DEF Rotation!Put, Rotation!resultVars
<1>1. RotationTypes /\ Knows(w)
  BY DEF RotationInv
<1>2. /\ rPc[w] = "put" /\ w \in Rotators /\ w \notin Checkers /\ Rotation!Advance(w)
      /\ UNCHANGED <<outdated, failed, due>>
      /\ bucket' = Rotation!Stored(w) /\ raced' = Rotation!Race(Rotation!Key(w))
  BY <1>1, RotationConstants DEF Knows, Stands, KeyPlaces
<1>3. PICK h \in ObjectKeys : h = Rotation!Key(w)
  BY <1>2, KeyInHand DEF KeyPlaces
<1>4. /\ bucket' \in [ObjectKeys -> Objects] /\ raced' \in [Workers -> BOOLEAN]
      /\ BucketImproves /\ ~Rotation!Outdated(h)'
      /\ \A v \in Workers : rPc[v] = "put" =>
           \/ raced'[v]
           \/ raced'[v] = raced[v] /\ bucket'[Rotation!Key(v)] = bucket[Rotation!Key(v)]
  BY <1>2, <1>3, StoredImproves
<1> QED
  BY <1>1, <1>2, <1>3, <1>4, AdvanceKeepsInv DEF KeyPlaces, RotationTypes

LEMMA KeyFailsKeepsInv ==
  ASSUME RotationInv, NEW w \in Workers, Rotation!KeyFails(w)
  PROVE  RotationInv'
<1> USE DEF Rotation!KeyFails
<1>1. RotationTypes /\ Knows(w)
  BY DEF RotationInv
<1>2. /\ rPc[w] \in KeyPlaces /\ w \in Rotators /\ w \notin Checkers /\ Rotation!Advance(w)
      /\ UNCHANGED <<outdated, due>>
  BY RotationConstants DEF KeyPlaces
<1>3. PICK h \in ObjectKeys : h = Rotation!Key(w)
  BY <1>2, KeyInHand
<1>4. failed' = [failed EXCEPT ![w] = @ \cup {h}]
  BY <1>3
<1>5. /\ failed' \in [Workers -> SUBSET ObjectKeys] /\ failed'[w] = failed[w] \cup {h}
      /\ \A v \in Workers \ {w} : failed'[v] = failed[v]
  BY <1>1, <1>4 DEF RotationTypes
<1>6. /\ bucket' \in [ObjectKeys -> Objects] /\ raced' \in [Workers -> BOOLEAN]
      /\ BucketImproves
      /\ \A v \in Workers : rPc[v] = "put" =>
           \/ raced'[v]
           \/ raced'[v] = raced[v] /\ bucket'[Rotation!Key(v)] = bucket[Rotation!Key(v)]
  <2>1. CASE UNCHANGED <<bucket, raced>>
    BY <1>1, <1>2, <2>1, UnchangedBucket DEF RotationTypes
  <2>2. CASE rPc[w] = "put" /\ bucket' = Rotation!Stored(w)
             /\ raced' = Rotation!Race(Rotation!Key(w))
    BY <1>2, <1>3, <2>2, StoredImproves
  <2> QED
    BY <2>1, <2>2
<1> QED
  BY <1>1, <1>2, <1>3, <1>5, <1>6, AdvanceKeepsInv DEF RotationTypes

LEMMA CheckHeadKeepsInv ==
  ASSUME RotationInv, NEW w \in Workers, Rotation!CheckHead(w)
  PROVE  RotationInv'
<1> USE DEF Rotation!CheckHead, Rotation!ghostVars
<1>1. RotationTypes /\ Knows(w)
  BY DEF RotationInv
<1>2. /\ rPc[w] \in KeyPlaces /\ w \in Checkers /\ w \notin Rotators /\ Rotation!Advance(w)
      /\ UNCHANGED <<bucket, failed, due, raced>>
  BY RotationConstants DEF KeyPlaces
<1>3. PICK h \in ObjectKeys : h = Rotation!Key(w)
  BY <1>2, KeyInHand
<1>4. outdated' = [outdated EXCEPT ![w] = IF Rotation!Outdated(h) THEN @ \cup {h} ELSE @]
  BY <1>3
<1>5. /\ outdated' \in [Workers -> SUBSET ObjectKeys] /\ outdated[w] \subseteq outdated'[w]
      /\ Rotation!Outdated(h) => h \in outdated'[w]
      /\ \A v \in Workers \ {w} : outdated'[v] = outdated[v]
  BY <1>1, <1>4 DEF RotationTypes
<1> QED
  BY <1>1, <1>2, <1>3, <1>5, UnchangedBucket, AdvanceKeepsInv DEF RotationTypes

LEMMA RotationInvInductive == RotationInv /\ [Rotation!Next]_rotationVars => RotationInv'
<1> SUFFICES ASSUME RotationInv, [Rotation!Next]_rotationVars PROVE RotationInv'
  OBVIOUS
<1>1. ASSUME NEW w \in Rotation!Workers, Rotation!Request(w) PROVE RotationInv'
  BY <1>1, ListKeepsInv, RejectionKeepsInv, HeadKeepsInv, GetKeepsInv, RecheckKeepsInv,
     RotatePutKeepsInv, KeyFailsKeepsInv, CheckHeadKeepsInv DEF Rotation!Request, Workers
<1>2. ASSUME NEW k \in Rotation!ObjectKeys, Rotation!Write(k) PROVE RotationInv'
  BY <1>2, WriteKeepsInv DEF ObjectKeys
<1>3. CASE UNCHANGED rotationVars
  <2>1. UNCHANGED <<bucket, rPc, page, token, before, plaintext, outdated, failed, due, raced>>
    BY <1>3 DEF rotationVars
  <2>2. RotationTypes' = RotationTypes
    BY <2>1 DEF RotationTypes
  <2>3. \A v \in Workers : WorkerKept(v) /\ BucketImproves
    BY <2>1 DEF WorkerKept, BucketImproves
  <2> QED
    BY <2>1, <2>2, <2>3, KeptKnows DEF RotationInv, RotationTypes
<1> QED
  BY <1>1, <1>2, <1>3 DEF Rotation!Next

LEMMA RotationInvHolds == StorageSpec => []RotationInv
<1>1. StorageInit => RotationInv
  BY RotationInvInit DEF StorageInit
<1>2. [StorageNext]_allVars => [Rotation!Next]_rotationVars
  BY DEF StorageNext, FallingBack, Rotating, allVars
<1> QED
  BY <1>1, <1>2, RotationInvInductive, PTL DEF StorageSpec

\* For any number of keys, pages of any size, and any rotations and checks at
\* once: a rotation that is over has migrated or listed all it found to do, and
\* safeToRetireOldKeys stays true once it is reported.
THEOREM RotationReportsAreTrue == StorageSpec => []ReportsAreTrue
<1>1. RotationInv => Rotation!TypeOK
  <2>1. RunPlaces = {"new", "listing", "head", "get", "recheck", "put", "done", "rejected"}
    BY DEF RunPlaces, KeyPlaces
  <2> QED
    BY <2>1 DEF RotationInv, RotationTypes, Knows, Stands, Rotation!TypeOK, Workers, ObjectKeys,
       Objects, Reads, KeyPlaces
<1>2. RotationInv => Rotation!RunMigrates
  BY DEF RotationInv, Knows, Stands, RotationSees, ToCome, Rotation!RunMigrates, Workers,
     Rotation!Workers
<1>3. RotationInv => Rotation!SafeMeansSafe
  BY DEF RotationInv, Knows, Stands, CheckSees, ToCome, Rotation!SafeMeansSafe,
     Rotation!SafeToRetireOldKeys, Workers, Rotation!Workers, ObjectKeys
<1>4. RotationInv => ReportsAreTrue
  BY <1>1, <1>2, <1>3 DEF ReportsAreTrue, Rotation!ReportsAreTrue
<1> QED
  BY <1>4, RotationInvHolds, PTL

\* Whatever runs beside it, a rotation overwrites other content than it read in
\* the two cases only that the unconditional put leaves open.
THEOREM RecheckNarrowsTheRace == StorageSpec => RecheckNarrows
<1>1. RotationInv =>
        \A w \in Rotators :
          rPc[w] = "put" /\ ~Rotation!Holds(Rotation!Key(w), plaintext[w])
          => raced[w] \/ plaintext[w] # before[w]
  BY DEF RotationInv, Knows, CheckedIsCurrent, Workers, Rotation!Workers
<1>2. RotationInv /\ [StorageNext]_allVars =>
        [\A w \in Rotators :
           Rotation!Stores(w) /\ ~Rotation!Holds(Rotation!Key(w), plaintext[w])
           => raced[w] \/ plaintext[w] # before[w]]_(Rotation!vars)
  BY <1>1 DEF Rotation!Stores
<1> QED
  BY <1>2, RotationInvHolds, PTL DEF StorageSpec, RecheckNarrows, Rotation!RecheckNarrows
=============================================================================
