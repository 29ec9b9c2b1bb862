----------------------------- MODULE DLQ_proofs -----------------------------
(***************************************************************************)
(* Proofs of the safety properties of DLQ, for any number of entries and   *)
(* workers, any labels, process types, caps, lease duration and skew.      *)
(***************************************************************************)
EXTENDS DLQ, SequenceTheorems, TLAPS

\* A document stays a document under the updates of DLQProvider.
LEMMA UnleasedType ==
  ASSUME NEW e \in Entry, NEW s \in Status
  PROVE  /\ Unleased(e, s) \in Entry
         /\ Unleased(e, s).status = s
         /\ Unleased(e, s).leaseOwner = Nil
         /\ Unleased(e, s).leaseExpiresAt = NoLease
         /\ Unleased(e, s).attempts = e.attempts
         /\ Unleased(e, s).maxAttempts = e.maxAttempts
         /\ Unleased(e, s).errorHistory = e.errorHistory
  BY DEF Unleased, Entry, NoLease, Status

LEMMA LeasedType ==
  ASSUME NEW e \in Entry, NEW owner \in Owners, NEW until \in Nat
  PROVE  /\ Leased(e, owner, until) \in Entry
         /\ Leased(e, owner, until).status = "claimed"
         /\ Leased(e, owner, until).leaseOwner = owner
         /\ Leased(e, owner, until).leaseExpiresAt = until
         /\ Leased(e, owner, until).errorHistory = e.errorHistory
<1>1. e.attempts + 1 \in Nat
  BY DEF Entry
<1> QED
  BY <1>1 DEF Leased, Entry, Status

LEMMA HistoryType ==
  ASSUME NEW e \in Entry, NEW h \in Seq(Nat)
  PROVE  /\ [e EXCEPT !.errorHistory = h] \in Entry
         /\ [e EXCEPT !.errorHistory = h].errorHistory = h
         /\ [e EXCEPT !.errorHistory = h].status = e.status
         /\ [e EXCEPT !.errorHistory = h].leaseOwner = e.leaseOwner
         /\ [e EXCEPT !.errorHistory = h].leaseExpiresAt = e.leaseExpiresAt
         /\ [e EXCEPT !.errorHistory = h].attempts = e.attempts
         /\ [e EXCEPT !.errorHistory = h].maxAttempts = e.maxAttempts
  BY DEF Entry

LEMMA AttemptsType ==
  ASSUME NEW e \in Entry, NEW n \in Nat
  PROVE  /\ [e EXCEPT !.attempts = n] \in Entry
         /\ [e EXCEPT !.attempts = n].status = e.status
         /\ [e EXCEPT !.attempts = n].leaseOwner = e.leaseOwner
         /\ [e EXCEPT !.attempts = n].leaseExpiresAt = e.leaseExpiresAt
         /\ [e EXCEPT !.attempts = n].errorHistory = e.errorHistory
  BY DEF Entry

LEMMA NoDocumentType ==
  ASSUME NEW s \in Status \cup {"absent", "removed"}
  PROVE  NoDocument(s) \in Entry
  BY DEF NoDocument, Entry, NoLease, Status

\* Handing a worker back to its loop keeps its variables well typed.
LEMMA IdleType ==
  ASSUME TypeOK, NEW w \in Workers, Idle(w)
  PROVE  /\ pc' \in [Workers -> {"idle", "claiming", "holding", "failing"}]
         /\ now' \in [Workers -> Nat]
         /\ held' \in [Workers -> [id: Ids \cup {Nil}, grant: Nat, until: Nat]]
         /\ snap' \in [Workers -> [attempts: Nat, maxAttempts: Nat]]
  BY DEF TypeOK, Idle, NoClaim, NoSnap, NoLease

LEMMA SpendType ==
  ASSUME TypeOK, NEW n \in Nat, Spend(n)
  PROVE  disruptions' \in Nat
  BY DEF TypeOK, Spend

\* Replacing one document by another, and marking its claim as ended.
LEMMA StoreType ==
  ASSUME TypeOK, NEW id \in Ids, NEW e \in Entry,
         store' = [store EXCEPT ![id] = e]
  PROVE  store' \in [Ids -> Entry]
  BY DEF TypeOK

LEMMA EndedType ==
  ASSUME TypeOK, NEW id \in Ids,
         ended' = [ended EXCEPT ![id] = @ \cup {grant[id]}]
  PROVE  ended' \in [Ids -> SUBSET Nat]
  BY DEF TypeOK

LEMMA InstantsType ==
  ASSUME TypeOK, NEW t \in Instants
  PROVE  t \in Nat /\ t <= clock + MaxSkew
  BY DLQConstants DEF TypeOK, Instants

LEMMA TransitionType ==
  ASSUME TypeOK, NEW w \in Workers, NEW s \in Status, NEW h \in Seq(Nat),
         NEW c \in Nat, held[w].id \in Ids, TransitionLeasedEntry(w, s, h, c)
  PROVE  TypeOK'
<1> DEFINE id == held[w].id
<1>1. CASE ~Fenced(store[id], LeaseOwner[w])
  BY <1>1, IdleType DEF TransitionLeasedEntry, TypeOK
<1>2. CASE Fenced(store[id], LeaseOwner[w])
  <2>1. /\ store' = [store EXCEPT ![id] =
                      [Unleased(store[id], s) EXCEPT !.errorHistory = h]]
        /\ ended' = [ended EXCEPT ![id] = @ \cup {grant[id]}]
        /\ \/ Idle(w) /\ Spend(c)
           \/ /\ Spend(c + 1)
              /\ pc' = [pc EXCEPT ![w] = "holding"]
              /\ snap' = [snap EXCEPT ![w] = NoSnap]
              /\ UNCHANGED <<now, held>>
        /\ UNCHANGED <<clock, grant>>
    BY <1>2 DEF TransitionLeasedEntry
  <2>2. store[id] \in Entry
    BY DEF TypeOK
  <2>3. [Unleased(store[id], s) EXCEPT !.errorHistory = h] \in Entry
    BY <2>2, UnleasedType, HistoryType
  <2>4. store' \in [Ids -> Entry]
    BY <2>1, <2>3, StoreType
  <2>5. ended' \in [Ids -> SUBSET Nat]
    BY <2>1, EndedType
  <2>6. disruptions' \in Nat
    BY <2>1, SpendType
  <2>7. CASE Idle(w)
    BY <2>1, <2>4, <2>5, <2>6, <2>7, IdleType DEF TypeOK
  <2>8. CASE /\ pc' = [pc EXCEPT ![w] = "holding"]
             /\ snap' = [snap EXCEPT ![w] = NoSnap]
             /\ UNCHANGED <<now, held>>
    BY <2>1, <2>4, <2>5, <2>6, <2>8 DEF TypeOK, NoSnap
  <2> QED
    BY <2>1, <2>7, <2>8
<1> QED
  BY <1>1, <1>2

\* A worker past its claim holds an entry, never Nil.
HoldsEntry == \A w \in Workers : Holding(w) => held[w].id \in Ids

LEMMA TransitionHolds ==
  ASSUME TypeOK, HoldsEntry, NEW w \in Workers, Holding(w),
         NEW s, NEW h, NEW c, TransitionLeasedEntry(w, s, h, c)
  PROVE  HoldsEntry'
  BY DEF TransitionLeasedEntry, Idle, HoldsEntry, Holding, TypeOK

\* Type correctness: every operation of the provider keeps the collection and
\* the state of its callers well formed.
THEOREM TypeCorrect == Spec => [](TypeOK /\ HoldsEntry)
<1> USE DLQConstants
<1>1. Init => TypeOK /\ HoldsEntry
  BY NoDocumentType DEF Init, TypeOK, HoldsEntry, Holding, NoClaim, NoSnap, NoLease
<1>2. TypeOK /\ HoldsEntry /\ [Next]_vars => (TypeOK /\ HoldsEntry)'
  <2> SUFFICES ASSUME TypeOK, HoldsEntry, [Next]_vars PROVE TypeOK' /\ HoldsEntry'
    OBVIOUS
  <2>1. CASE Tick
    BY <2>1 DEF Tick, Spend, TypeOK, workerVars, HoldsEntry, Holding
  <2>2. ASSUME NEW id \in Ids, Push(id) PROVE TypeOK' /\ HoldsEntry'
    <3>1. PICK at \in Instants, cap \in Caps :
            store' = [store EXCEPT ![id] =
                     [NoDocument("pending") EXCEPT !.maxAttempts = cap,
                                                   !.createdAt = at,
                                                   !.errorHistory = <<0>>]]
      BY <2>2 DEF Push
    <3>2. at \in Nat /\ cap \in Nat /\ <<0>> \in Seq(Nat)
      BY InstantsType
    <3>3. [NoDocument("pending") EXCEPT !.maxAttempts = cap, !.createdAt = at,
                                        !.errorHistory = <<0>>] \in Entry
      BY <3>2 DEF NoDocument, Entry, NoLease, Status
    <3>4. store' \in [Ids -> Entry]
      BY <3>1, <3>3, StoreType
    <3> QED
      BY <2>2, <3>4 DEF Push, TypeOK, workerVars, HoldsEntry, Holding
  <2>3. ASSUME NEW id \in Ids, Requeue(id) PROVE TypeOK' /\ HoldsEntry'
    <3>1. PICK reset \in BOOLEAN :
            store' = [store EXCEPT ![id] = [Unleased(store[id], "pending") EXCEPT
                        !.attempts = IF reset THEN 0 ELSE store[id].attempts]]
      BY <2>3 DEF Requeue
    <3>2. Unleased(store[id], "pending") \in Entry /\ store[id].attempts \in Nat
      BY UnleasedType DEF TypeOK, Status, Entry
    <3>3. store' \in [Ids -> Entry]
      BY <3>1, <3>2, AttemptsType, StoreType
    <3> QED
      BY <2>3, <3>3, EndedType, SpendType DEF Requeue, TypeOK, workerVars, HoldsEntry, Holding
  <2>4. ASSUME NEW id \in Ids, Discard(id) PROVE TypeOK' /\ HoldsEntry'
    <3>1. Unleased(store[id], "discarded") \in Entry
      BY UnleasedType DEF TypeOK, Status
    <3>2. store' \in [Ids -> Entry]
      BY <2>4, <3>1, StoreType DEF Discard
    <3> QED
      BY <2>4, <3>2, EndedType, SpendType DEF Discard, TypeOK, workerVars, HoldsEntry, Holding
  <2>5. ASSUME NEW id \in Ids, Remove(id) PROVE TypeOK' /\ HoldsEntry'
    <3>1. store' \in [Ids -> Entry]
      BY <2>5, NoDocumentType, StoreType DEF Remove
    <3> QED
      BY <2>5, <3>1, EndedType, SpendType DEF Remove, TypeOK, workerVars, HoldsEntry, Holding
  <2>6. ASSUME NEW w \in Workers, ClaimRead(w) PROVE TypeOK' /\ HoldsEntry'
    BY <2>6, InstantsType DEF ClaimRead, TypeOK, HoldsEntry, Holding
  <2>7. ASSUME NEW w \in Workers, Claim(w) PROVE TypeOK' /\ HoldsEntry'
    <3>1. CASE ClaimNull(w)
      BY <3>1, IdleType DEF ClaimNull, TypeOK, Idle, HoldsEntry, Holding
    <3>2. ASSUME NEW id \in Ids, ClaimUpdate(w, id) PROVE TypeOK' /\ HoldsEntry'
      <4>1. /\ store[id] \in Entry /\ LeaseOwner[w] \in Owners
            /\ now[w] + LeaseTtl \in Nat /\ grant[id] + 1 \in Nat
        BY DEF TypeOK
      <4>2. store' \in [Ids -> Entry]
        BY <3>2, <4>1, LeasedType, StoreType DEF ClaimUpdate
      <4>3. grant' \in [Ids -> Nat]
        BY <3>2, <4>1 DEF ClaimUpdate, TypeOK
      <4>4. CASE Spend(1) /\ Idle(w)
        BY <3>2, <4>2, <4>3, <4>4, IdleType, SpendType
           DEF ClaimUpdate, TypeOK, Idle, HoldsEntry, Holding
      <4>5. CASE /\ pc' = [pc EXCEPT ![w] = "holding"]
                 /\ held' = [held EXCEPT ![w] = [id |-> id, grant |-> grant[id] + 1,
                                          until |-> now[w] + LeaseTtl]]
                 /\ now' = [now EXCEPT ![w] = 0]
                 /\ UNCHANGED <<snap, disruptions>>
        BY <3>2, <4>1, <4>2, <4>3, <4>5 DEF ClaimUpdate, TypeOK, HoldsEntry, Holding
      <4> QED
        BY <3>2, <4>4, <4>5 DEF ClaimUpdate
    <3> QED
      BY <2>7, <3>1, <3>2 DEF Claim, Candidates
  <2>8. ASSUME NEW w \in Workers, Release(w) \/ Complete(w) PROVE TypeOK' /\ HoldsEntry'
    <3>1. Holding(w) /\ held[w].id \in Ids
      BY <2>8 DEF Release, Complete, Holding, HoldsEntry
    <3>2. store[held[w].id].errorHistory \in Seq(Nat)
      BY <3>1 DEF TypeOK, Entry
    <3> QED
      BY <2>8, <3>1, <3>2, TransitionType, TransitionHolds DEF Release, Complete, Status
  <2>9. ASSUME NEW w \in Workers, FailRead(w) PROVE TypeOK' /\ HoldsEntry'
    <3>1. Holding(w) /\ held[w].id \in Ids
      BY <2>9 DEF FailRead, Holding, HoldsEntry
    <3>2. store[held[w].id].attempts \in Nat /\ store[held[w].id].maxAttempts \in Nat
      BY <3>1 DEF TypeOK, Entry
    <3>3. CASE Fenced(store[held[w].id], LeaseOwner[w])
      <4>1. /\ pc' = [pc EXCEPT ![w] = "failing"]
            /\ snap' = [snap EXCEPT ![w] = [attempts |-> store[held[w].id].attempts,
                                            maxAttempts |-> store[held[w].id].maxAttempts]]
            /\ UNCHANGED <<now, held, store, clock, grant, ended, disruptions>>
        BY <2>9, <3>3 DEF FailRead
      <4>2. snap' \in [Workers -> [attempts: Nat, maxAttempts: Nat]]
        BY <3>2, <4>1 DEF TypeOK
      <4> QED
        BY <3>1, <4>1, <4>2 DEF TypeOK, HoldsEntry, Holding
    <3>4. CASE ~Fenced(store[held[w].id], LeaseOwner[w])
      BY <2>9, <3>4, IdleType, ZenonT(30) DEF FailRead, TypeOK, Idle, HoldsEntry, Holding
    <3> QED
      BY <3>3, <3>4
  <2>10. ASSUME NEW w \in Workers, FailWrite(w) PROVE TypeOK' /\ HoldsEntry'
    <3>1. Holding(w) /\ held[w].id \in Ids
      BY <2>10 DEF FailWrite, Holding, HoldsEntry
    <3>2. Append(store[held[w].id].errorHistory, snap[w].attempts) \in Seq(Nat)
      BY <3>1, SMTT(30) DEF TypeOK, Entry
    <3>3. NextStatus(snap[w]) \in Status
      BY DEF NextStatus, Status
    <3> QED
      BY <2>10, <3>1, <3>2, <3>3, TransitionType, TransitionHolds DEF FailWrite
  <2>11. ASSUME NEW w \in Workers, Crash(w) PROVE TypeOK' /\ HoldsEntry'
    BY <2>11, IdleType, SpendType DEF Crash, TypeOK, Idle, HoldsEntry, Holding
  <2>12. CASE UNCHANGED vars
    BY <2>12 DEF vars, TypeOK, HoldsEntry, Holding
  <2> QED
    BY <2>1, <2>2, <2>3, <2>4, <2>5, <2>6, <2>7, <2>8, <2>9, <2>10, <2>11, <2>12 DEF Next
<1> QED
  BY <1>1, <1>2, PTL DEF Spec

----------------------------------------------------------------------------
(* The lease fields agree with the status. *)

LEMMA LeaseStep ==
  TypeOK /\ HoldsEntry /\ LeaseMatchesStatus /\ [Next]_vars => LeaseMatchesStatus'
<1> SUFFICES ASSUME TypeOK, HoldsEntry, LeaseMatchesStatus, [Next]_vars
             PROVE  LeaseMatchesStatus'
  OBVIOUS
<1> DEFINE Agree(e) == /\ (e.status = "claimed") <=> (e.leaseOwner # Nil)
                       /\ (e.status = "claimed") <=> (e.leaseExpiresAt # NoLease)
<1>1. ASSUME NEW id \in Ids, NEW e, Agree(e), store' = [store EXCEPT ![id] = e]
      PROVE  LeaseMatchesStatus'
  BY <1>1 DEF LeaseMatchesStatus, TypeOK
<1>2. ASSUME NEW id \in Ids, NEW s \in Status, s # "claimed"
      PROVE  Agree(Unleased(store[id], s))
  BY <1>2, UnleasedType DEF TypeOK
<1>3. ASSUME NEW s \in Status \cup {"absent", "removed"}, s # "claimed"
      PROVE  Agree(NoDocument(s))
  BY <1>3 DEF NoDocument
<1>4. ASSUME NEW w \in Workers, Holding(w), NEW s \in Status, s # "claimed",
             NEW h \in Seq(Nat), NEW c, TransitionLeasedEntry(w, s, h, c)
      PROVE  LeaseMatchesStatus'
  <2> DEFINE u == Unleased(store[held[w].id], s)
  <2>1. held[w].id \in Ids
    BY <1>4 DEF HoldsEntry
  <2>2. u \in Entry /\ Agree(u)
    BY <1>2, <1>4, <2>1, UnleasedType DEF TypeOK
  <2>3. Agree([u EXCEPT !.errorHistory = h])
    BY <1>4, <2>2, HistoryType
  <2>4. CASE UNCHANGED store
    BY <2>4 DEF LeaseMatchesStatus
  <2>5. CASE store' = [store EXCEPT ![held[w].id] = [u EXCEPT !.errorHistory = h]]
    BY <1>1, <2>1, <2>3, <2>5
  <2> QED
    BY <1>4, <2>4, <2>5 DEF TransitionLeasedEntry
<1>5. ASSUME NEW id \in Ids, Push(id) PROVE LeaseMatchesStatus'
  BY <1>1, <1>5 DEF Push, NoDocument, NoLease
<1>6. ASSUME NEW id \in Ids, Requeue(id) PROVE LeaseMatchesStatus'
  <2>1. PICK reset \in BOOLEAN :
          store' = [store EXCEPT ![id] = [Unleased(store[id], "pending") EXCEPT
                      !.attempts = IF reset THEN 0 ELSE store[id].attempts]]
    BY <1>6 DEF Requeue
  <2>2. Unleased(store[id], "pending") \in Entry /\ Agree(Unleased(store[id], "pending"))
    BY <1>2, UnleasedType DEF TypeOK, Status
  <2>3. store[id].attempts \in Nat
    BY DEF TypeOK, Entry
  <2>4. Agree([Unleased(store[id], "pending") EXCEPT
                      !.attempts = IF reset THEN 0 ELSE store[id].attempts])
    BY <2>2, <2>3, AttemptsType
  <2> QED
    BY <1>1, <2>1, <2>4
<1>7. ASSUME NEW id \in Ids, Discard(id) PROVE LeaseMatchesStatus'
  BY <1>1, <1>2, <1>7 DEF Discard, Status
<1>8. ASSUME NEW id \in Ids, Remove(id) PROVE LeaseMatchesStatus'
  BY <1>1, <1>3, <1>8 DEF Remove
<1>9. ASSUME NEW w \in Workers, Claim(w) PROVE LeaseMatchesStatus'
  <2>1. CASE UNCHANGED store
    BY <2>1 DEF LeaseMatchesStatus
  <2>2. ASSUME NEW id \in Ids, ClaimUpdate(w, id) PROVE LeaseMatchesStatus'
    <3>1. /\ store[id] \in Entry /\ LeaseOwner[w] \in Owners /\ LeaseOwner[w] # Nil
          /\ now[w] + LeaseTtl \in Nat /\ now[w] + LeaseTtl # NoLease
      BY DLQConstants DEF TypeOK, NoLease
    <3>2. Agree(Leased(store[id], LeaseOwner[w], now[w] + LeaseTtl))
      BY <3>1, LeasedType
    <3> QED
      BY <1>1, <2>2, <3>2 DEF ClaimUpdate
  <2> QED
    BY <1>9, <2>1, <2>2 DEF Claim, Candidates, ClaimNull
<1>10. ASSUME NEW w \in Workers, Release(w) \/ Complete(w) PROVE LeaseMatchesStatus'
  <2>1. Holding(w) /\ store[held[w].id].errorHistory \in Seq(Nat)
    BY <1>10 DEF Release, Complete, Holding, HoldsEntry, TypeOK, Entry
  <2> QED
    BY <1>4, <1>10, <2>1 DEF Release, Complete, Status
<1>11. ASSUME NEW w \in Workers, FailWrite(w) PROVE LeaseMatchesStatus'
  <2>1. Holding(w)
    BY <1>11 DEF FailWrite, Holding
  <2>2. Append(store[held[w].id].errorHistory, snap[w].attempts) \in Seq(Nat)
    BY <2>1 DEF HoldsEntry, TypeOK, Entry
  <2>3. NextStatus(snap[w]) \in Status /\ NextStatus(snap[w]) # "claimed"
    BY DEF NextStatus, Status
  <2> QED
    BY <1>4, <1>11, <2>1, <2>2, <2>3 DEF FailWrite
<1>12. CASE UNCHANGED store
  BY <1>12 DEF LeaseMatchesStatus
<1>13. Tick \/ UNCHANGED vars => UNCHANGED store
  BY DEF Tick, vars
<1>14. ASSUME NEW w \in Workers, ClaimRead(w) \/ FailRead(w) \/ Crash(w)
       PROVE  UNCHANGED store
  BY <1>14 DEF ClaimRead, FailRead, Crash
<1> QED
  BY <1>5, <1>6, <1>7, <1>8, <1>9, <1>10, <1>11, <1>12, <1>13, <1>14 DEF Next

\* A document carries a lease exactly when it is claimed, whatever sequence
\* of claims, settlements and administrative calls led there.
THEOREM LeaseAgreement == Spec => []LeaseMatchesStatus
<1>1. Init => LeaseMatchesStatus
  <2>1. /\ NoDocument("absent").status # "claimed"
        /\ NoDocument("absent").leaseOwner = Nil
        /\ NoDocument("absent").leaseExpiresAt = NoLease
    BY DEF NoDocument
  <2>2. Init => \A id \in Ids : store[id] = NoDocument("absent")
    BY ZenonT(30) DEF Init
  <2> QED
    BY <2>1, <2>2 DEF LeaseMatchesStatus
<1> QED
  BY <1>1, LeaseStep, TypeCorrect, PTL DEF Spec

----------------------------------------------------------------------------
(* Mutual exclusion under running leases. *)

\* What a step that is not a successful claim() does to workers: it lets some
\* go, gives nobody a new entry, and reads no clock beyond the fastest.
WorkersKept ==
  \A v \in Workers : /\ Holding(v)' => Holding(v) /\ held'[v] = held[v]
                     /\ now'[v] \in Nat /\ now'[v] <= clock + MaxSkew

\* ... and to documents: it changes no claimed one, or ends its claim.
ClaimsKept ==
  \A id \in Ids : \/ /\ store'[id] = store[id] \/ store[id].status # "claimed"
                     /\ ended'[id] = ended[id]
                  \/ ended'[id] = ended[id] \cup {grant[id]}

LEMMA KeptIsTracked ==
  ASSUME TypeOK, ClaimsTracked, WorkersKept, ClaimsKept,
         grant' = grant, clock' \in {clock, clock + 1}
  PROVE  ClaimsTracked'
<1>1. clock \in Nat /\ MaxSkew \in Nat /\ clock + MaxSkew <= clock' + MaxSkew
  BY DLQConstants DEF TypeOK
<1>2. ASSUME NEW w \in Workers, Holding(w)' PROVE ClaimState(w)'
  <2>1. Holding(w) /\ held'[w] = held[w] /\ ClaimState(w)
    BY <1>2 DEF WorkersKept, ClaimsTracked
  <2>2. held[w].until \in Nat /\ held[w].id \in Ids
    BY <2>1 DEF ClaimState, TypeOK
  <2>3. CASE held[w].grant \in ended[held[w].id]
    BY <2>1, <2>2, <2>3 DEF ClaimState, ClaimsKept
  <2>4. CASE held[w].until < clock + MaxSkew
    <3>1. held[w].until < clock' + MaxSkew
      BY <1>1, <2>2, <2>4
    <3> QED
      BY <2>1, <3>1 DEF ClaimState
  <2>5. CASE /\ held[w].grant = grant[held[w].id]
             /\ store[held[w].id].status = "claimed"
             /\ store[held[w].id].leaseExpiresAt = held[w].until
    BY <2>1, <2>2, <2>5 DEF ClaimState, ClaimsKept
  <2> QED
    BY <2>1, <2>3, <2>4, <2>5 DEF ClaimState
<1>3. ASSUME NEW w \in Workers PROVE now'[w] <= clock' + MaxSkew
  <2>1. now'[w] \in Nat /\ now'[w] <= clock + MaxSkew
    BY DEF WorkersKept
  <2> QED
    BY <1>1, <2>1
<1>4. ASSUME NEW v \in Workers, NEW w \in Workers, Holding(v)', Holding(w)',
             v # w, held'[v].id = held'[w].id
      PROVE  held'[v].grant # held'[w].grant
  BY <1>4 DEF WorkersKept, ClaimsTracked
<1> QED
  BY <1>2, <1>3, <1>4 DEF ClaimsTracked, Holding

LEMMA IdleKeeps ==
  ASSUME TypeOK, ClaimsTracked, NEW w \in Workers, Idle(w)
  PROVE  WorkersKept
<1>1. 0 <= clock + MaxSkew
  BY DLQConstants DEF TypeOK
<1> QED
  BY <1>1 DEF Idle, WorkersKept, Holding, TypeOK, ClaimsTracked

LEMMA SameWorkersKept ==
  ASSUME TypeOK, ClaimsTracked, UNCHANGED <<held, now>>,
         \A v \in Workers : Holding(v)' => Holding(v)
  PROVE  WorkersKept
  BY DEF WorkersKept, TypeOK, ClaimsTracked

LEMMA TransitionIsTracked ==
  ASSUME TypeOK, HoldsEntry, ClaimsTracked, NEW w \in Workers, Holding(w),
         NEW s, NEW h, NEW c, TransitionLeasedEntry(w, s, h, c)
  PROVE  ClaimsTracked'
<1>1. held[w].id \in Ids
  BY DEF HoldsEntry
<1>2. ClaimsKept /\ grant' = grant /\ clock' = clock
  BY <1>1 DEF ClaimsKept, TransitionLeasedEntry, TypeOK
<1>3. CASE Idle(w)
  BY <1>2, <1>3, IdleKeeps, KeptIsTracked DEF TypeOK
<1>4. CASE /\ pc' = [pc EXCEPT ![w] = "holding"]
           /\ UNCHANGED <<now, held>>
  <2>1. WorkersKept
    BY <1>4, SameWorkersKept DEF Holding, TypeOK
  <2> QED
    BY <1>2, <2>1, KeptIsTracked DEF TypeOK
<1> QED
  BY <1>3, <1>4 DEF TransitionLeasedEntry

LEMMA ClaimIsTracked ==
  ASSUME TypeOK, HoldsEntry, LeaseMatchesStatus, ClaimsTracked,
         NEW w \in Workers, NEW id \in Ids, pc[w] = "claiming",
         Eligible(store[id], now[w]), ClaimUpdate(w, id)
  PROVE  ClaimsTracked'
<1> DEFINE until == now[w] + LeaseTtl
<1>1. /\ clock' = clock /\ ended' = ended
      /\ grant' = [grant EXCEPT ![id] = @ + 1]
      /\ store' = [store EXCEPT ![id] = Leased(store[id], LeaseOwner[w], until)]
  BY DEF ClaimUpdate
<1>2. /\ clock \in Nat /\ MaxSkew \in Nat /\ grant[id] \in Nat
      /\ now[w] \in Nat /\ now[w] <= clock + MaxSkew
      /\ until \in Nat /\ LeaseOwner[w] \in Owners
  BY DLQConstants DEF TypeOK, ClaimsTracked
<1>3. /\ store'[id].status = "claimed" /\ store'[id].leaseExpiresAt = until
      /\ grant'[id] = grant[id] + 1
  BY <1>1, <1>2, LeasedType, SMTT(30) DEF TypeOK
\* Everyone else: a claim on id that was current had run out.
<1>4. ASSUME NEW v \in Workers, Holding(v), held'[v] = held[v]
      PROVE  ClaimState(v)'
  <2>1. ClaimState(v) /\ held[v].id \in Ids /\ held[v].grant \in Nat /\ held[v].until \in Nat
    BY <1>4 DEF ClaimsTracked, ClaimState, TypeOK
  <2>2. held[v].grant <= grant'[held[v].id]
    BY <1>1, <1>2, <2>1 DEF ClaimState, TypeOK
  <2>3. CASE held[v].id # id
    BY <1>1, <1>4, <2>1, <2>2, <2>3 DEF ClaimState, TypeOK
  <2>4. CASE held[v].id = id
    <3>1. CASE held[v].grant \in ended[id] \/ held[v].until < clock + MaxSkew
      BY <1>1, <1>4, <2>1, <2>2, <2>4, <3>1 DEF ClaimState
    <3>2. CASE /\ store[id].status = "claimed"
               /\ store[id].leaseExpiresAt = held[v].until
      <4>1. held[v].until < now[w]
        BY <2>4, <3>2 DEF LeaseMatchesStatus, Eligible
      <4>2. held[v].until < clock + MaxSkew
        BY <1>2, <2>1, <4>1
      <4> QED
        BY <1>1, <1>4, <2>1, <2>2, <2>4, <4>2 DEF ClaimState
    <3> QED
      BY <2>1, <2>4, <3>1, <3>2 DEF ClaimState
  <2> QED
    BY <2>3, <2>4
<1>5. CASE Idle(w)
  <2>1. WorkersKept
    BY <1>5, IdleKeeps
  <2> QED
    BY <1>1, <1>4, <2>1 DEF WorkersKept, ClaimsTracked, Holding
<1>6. CASE /\ pc' = [pc EXCEPT ![w] = "holding"]
           /\ held' = [held EXCEPT ![w] = [id |-> id, grant |-> grant[id] + 1,
                                          until |-> until]]
           /\ now' = [now EXCEPT ![w] = 0]
  <2>1. held'[w] = [id |-> id, grant |-> grant[id] + 1, until |-> until]
    BY <1>6 DEF TypeOK
  <2>2. ASSUME NEW v \in Workers, v # w, Holding(v)'
        PROVE  Holding(v) /\ held'[v] = held[v]
    BY <1>6, <2>2 DEF Holding, TypeOK
  <2>3. ASSUME NEW v \in Workers, v # w, Holding(v)', held'[v].id = id
        PROVE  held'[v].grant # grant[id] + 1
    <3>1. held[v].grant <= grant[id] /\ held[v].grant \in Nat /\ held'[v] = held[v]
      BY <2>2, <2>3 DEF ClaimsTracked, ClaimState, TypeOK
    <3> QED
      BY <1>2, <3>1
  <2>4. ClaimState(w)'
    BY <1>1, <1>2, <1>3, <2>1 DEF ClaimState
  <2>5. \A v \in Workers : Holding(v)' => ClaimState(v)'
    BY <1>4, <2>2, <2>4
  <2>6. \A v \in Workers : now'[v] <= clock' + MaxSkew
    BY <1>1, <1>2, <1>6 DEF ClaimsTracked, TypeOK
  <2>7. ASSUME NEW u \in Workers, NEW v \in Workers, Holding(u)', Holding(v)',
               u # v, held'[u].id = held'[v].id
        PROVE  held'[u].grant # held'[v].grant
    <3>1. CASE u = w
      BY <2>1, <2>3, <2>7, <3>1
    <3>2. CASE v = w
      BY <2>1, <2>3, <2>7, <3>2
    <3>3. CASE u # w /\ v # w
      BY <2>2, <2>7, <3>3 DEF ClaimsTracked
    <3> QED
      BY <3>1, <3>2, <3>3
  <2> QED
    BY <2>5, <2>6, <2>7 DEF ClaimsTracked, Holding
<1> QED
  BY <1>5, <1>6 DEF ClaimUpdate

LEMMA TrackedStep ==
  TypeOK /\ HoldsEntry /\ LeaseMatchesStatus /\ ClaimsTracked /\ [Next]_vars
  => ClaimsTracked'
<1> SUFFICES ASSUME TypeOK, HoldsEntry, LeaseMatchesStatus, ClaimsTracked, [Next]_vars
             PROVE  ClaimsTracked'
  OBVIOUS
<1>1. ASSUME UNCHANGED <<pc, held, now, store, ended, grant>>, clock' \in {clock, clock + 1}
      PROVE  ClaimsTracked'
  BY <1>1, SameWorkersKept, KeptIsTracked DEF ClaimsKept, Holding
<1>2. ASSUME UNCHANGED <<workerVars, clock, grant>>, ClaimsKept
      PROVE  ClaimsTracked'
  BY <1>2, SameWorkersKept, KeptIsTracked DEF workerVars, Holding
<1>3. ASSUME NEW id \in Ids, Push(id) PROVE ClaimsTracked'
  <2>1. ClaimsKept
    BY <1>3 DEF Push, ClaimsKept, TypeOK
  <2> QED
    BY <1>2, <1>3, <2>1 DEF Push
<1>4. ASSUME NEW id \in Ids, Requeue(id) \/ Discard(id) \/ Remove(id)
      PROVE  ClaimsTracked'
  <2>1. /\ \A other \in Ids \ {id} : store'[other] = store[other]
        /\ ended' = [ended EXCEPT ![id] = @ \cup {grant[id]}]
        /\ UNCHANGED <<workerVars, clock, grant>>
    BY <1>4 DEF Requeue, Discard, Remove, TypeOK
  <2>2. ClaimsKept
    BY <2>1 DEF ClaimsKept, TypeOK
  <2> QED
    BY <1>2, <2>1, <2>2
<1>5. ASSUME NEW w \in Workers, ClaimRead(w) PROVE ClaimsTracked'
  <2>1. PICK t \in Instants : now' = [now EXCEPT ![w] = t]
    BY <1>5 DEF ClaimRead
  <2>2. WorkersKept
    BY <1>5, <2>1, InstantsType DEF ClaimRead, WorkersKept, Holding, TypeOK, ClaimsTracked
  <2> QED
    BY <1>5, <2>2, KeptIsTracked DEF ClaimRead, ClaimsKept
<1>6. ASSUME NEW w \in Workers, Claim(w) PROVE ClaimsTracked'
  <2>1. CASE ClaimNull(w)
    BY <2>1, IdleKeeps, KeptIsTracked DEF ClaimNull, ClaimsKept
  <2>2. ASSUME NEW id \in Candidates(w), ClaimUpdate(w, id) PROVE ClaimsTracked'
    BY <1>6, <2>2, ClaimIsTracked DEF Claim, Candidates
  <2> QED
    BY <1>6, <2>1, <2>2 DEF Claim
<1>7. ASSUME NEW w \in Workers, Release(w) \/ Complete(w) \/ FailWrite(w)
      PROVE  ClaimsTracked'
  <2>1. Holding(w)
    BY <1>7 DEF Release, Complete, FailWrite, Holding
  <2> QED
    BY <1>7, <2>1, TransitionIsTracked DEF Release, Complete, FailWrite
<1>8. ASSUME NEW w \in Workers, FailRead(w) PROVE ClaimsTracked'
  <2>1. ClaimsKept /\ grant' = grant /\ clock' = clock
    BY <1>8 DEF FailRead, ClaimsKept
  <2>2. CASE Idle(w)
    BY <2>1, <2>2, IdleKeeps, KeptIsTracked
  <2>3. CASE UNCHANGED <<now, held>> /\ pc' = [pc EXCEPT ![w] = "failing"]
    BY <1>8, <2>1, <2>3, SameWorkersKept, KeptIsTracked DEF FailRead, Holding, TypeOK
  <2> QED
    BY <1>8, <2>2, <2>3 DEF FailRead
<1>9. ASSUME NEW w \in Workers, Crash(w) PROVE ClaimsTracked'
  BY <1>9, IdleKeeps, KeptIsTracked DEF Crash, ClaimsKept
<1>10. Tick \/ UNCHANGED vars => ClaimsTracked'
  BY <1>1 DEF Tick, vars, workerVars
<1> QED
  BY <1>3, <1>4, <1>5, <1>6, <1>7, <1>8, <1>9, <1>10 DEF Next

LEMMA TrackedExcludes == TypeOK /\ ClaimsTracked => MutualExclusion
<1> SUFFICES ASSUME TypeOK, ClaimsTracked, NEW v \in Workers, NEW w \in Workers,
                    v # w, LeaseRuns(v), LeaseRuns(w), held[v].id = held[w].id,
                    held[v].grant \notin ended[held[v].id],
                    held[w].grant \notin ended[held[w].id]
             PROVE  FALSE
  BY DEF MutualExclusion
<1>1. ASSUME NEW u \in Workers, LeaseRuns(u), held[u].grant \notin ended[held[u].id]
      PROVE  held[u].grant = grant[held[u].id]
  <2>1. ClaimState(u) /\ held[u].until \in Nat /\ clock + MaxSkew \in Nat
    BY <1>1, DLQConstants DEF LeaseRuns, ClaimsTracked, TypeOK
  <2>2. ~(held[u].until < clock + MaxSkew)
    BY <1>1, <2>1 DEF LeaseRuns
  <2> QED
    BY <1>1, <2>1, <2>2 DEF ClaimState
<1>2. held[v].grant # held[w].grant
  BY DEF ClaimsTracked, LeaseRuns
<1> QED
  BY <1>1, <1>2

\* Lease exclusivity: two workers never work on one entry under two leases
\* that both still run, unless one of the claims was settled or ended by an
\* administrator, for any number of instances whose clocks differ by MaxSkew.
THEOREM LeaseExclusivity == Spec => []MutualExclusion
<1>1. Init => ClaimsTracked
  BY DLQConstants DEF Init, ClaimsTracked, Holding
<1> QED
  BY <1>1, TrackedStep, TrackedExcludes, TypeCorrect, LeaseAgreement, PTL DEF Spec

----------------------------------------------------------------------------
(* The fence, when every worker has a label of its own. *)

\* The two properties are proved together.
FenceInv == FencedIsCurrent /\ SnapshotCurrent

LEMMA FenceStep ==
  ASSUME UniqueLabels
  PROVE  TypeOK /\ HoldsEntry /\ FenceInv /\ [Next]_vars => FenceInv'
<1> SUFFICES ASSUME TypeOK, HoldsEntry, FenceInv, [Next]_vars
             PROVE  FenceInv'
  OBVIOUS
<1> DEFINE Passes(v) == Fenced(store[held[v].id], LeaseOwner[v])
           Kept(v) == /\ Holding(v) /\ held'[v] = held[v]
                      /\ pc'[v] = "failing" => pc[v] = "failing" /\ snap'[v] = snap[v]
           Good(v) == /\ held[v].grant = grant[held[v].id]
                      /\ pc[v] = "failing" =>
                           /\ snap[v].attempts = store[held[v].id].attempts
                           /\ snap[v].maxAttempts = store[held[v].id].maxAttempts
\* It is enough that every worker which passes the fence afterwards is in order.
<1>1. ASSUME \A v \in Workers : Holding(v)' /\ Passes(v)' => Good(v)'
      PROVE  FenceInv'
  BY <1>1 DEF FenceInv, FencedIsCurrent, SnapshotCurrent, Holding
<1>2. ASSUME NEW v \in Workers, Holding(v), Passes(v) PROVE Good(v)
  BY <1>2 DEF FenceInv, FencedIsCurrent, SnapshotCurrent, Holding
<1>3. ASSUME NEW v \in Workers, Kept(v), Passes(v)', 
             store'[held[v].id] = store[held[v].id], grant'[held[v].id] = grant[held[v].id]
      PROVE  Good(v)'
  BY <1>2, <1>3
\* A document without a lease lets nobody through.
<1>4. ASSUME NEW v \in Workers, store'[held'[v].id].status # "claimed"
      PROVE  ~Passes(v)'
  BY <1>4 DEF Fenced
<1>5. ASSUME NEW id \in Ids, store'[id].status # "claimed", grant' = grant,
             \A other \in Ids \ {id} : store'[other] = store[other],
             \A v \in Workers : Holding(v)' => Kept(v)
      PROVE  FenceInv'
  <2> SUFFICES ASSUME NEW v \in Workers, Holding(v)', Passes(v)' PROVE Good(v)'
    BY <1>1
  <2>1. Kept(v) /\ held[v].id \in Ids
    BY <1>5 DEF HoldsEntry
  <2>2. held[v].id # id
    BY <1>4, <1>5, <2>1
  <2> QED
    BY <1>3, <1>5, <2>1, <2>2
<1>6. ASSUME store' = store, grant' = grant,
             \A v \in Workers : Holding(v)' => Kept(v)
      PROVE  FenceInv'
  BY <1>1, <1>3, <1>6
<1>7. ASSUME UNCHANGED <<workerVars>>, NEW v \in Workers, Holding(v)' PROVE Kept(v)
  BY <1>7 DEF workerVars, Holding
<1>8. ASSUME NEW w \in Workers, Idle(w), NEW v \in Workers, Holding(v)' PROVE Kept(v) /\ v # w
  BY <1>8 DEF Idle, Holding, TypeOK
<1>9. ASSUME NEW id \in Ids, Push(id) \/ Requeue(id) \/ Discard(id) \/ Remove(id)
      PROVE  FenceInv'
  <2>1. /\ \A other \in Ids \ {id} : store'[other] = store[other]
        /\ UNCHANGED <<workerVars, grant>>
    BY <1>9 DEF Push, Requeue, Discard, Remove, TypeOK
  <2>2. store'[id].status # "claimed"
    <3>1. store[id] \in Entry /\ store[id].attempts \in Nat
      BY DEF TypeOK, Entry
    <3>2. CASE Push(id)
      BY <3>2 DEF Push, TypeOK, NoDocument
    <3>3. CASE Requeue(id)
      <4>1. PICK reset \in BOOLEAN :
              store' = [store EXCEPT ![id] = [Unleased(store[id], "pending") EXCEPT
                      !.attempts = IF reset THEN 0 ELSE store[id].attempts]]
        BY <3>3 DEF Requeue
      <4>2. Unleased(store[id], "pending") \in Entry /\ Unleased(store[id], "pending").status = "pending"
        BY <3>1, UnleasedType DEF Status
      <4> QED
        BY <3>1, <4>1, <4>2, AttemptsType DEF TypeOK
    <3>4. CASE Discard(id)
      BY <3>1, <3>4, UnleasedType DEF Discard, TypeOK, Status
    <3>5. CASE Remove(id)
      BY <3>5 DEF Remove, TypeOK, NoDocument
    <3> QED
      BY <1>9, <3>2, <3>3, <3>4, <3>5
  <2> QED
    BY <1>5, <1>7, <2>1, <2>2
<1>10. ASSUME NEW w \in Workers, NEW s \in Status, s # "claimed", NEW h \in Seq(Nat),
              NEW c, Holding(w), TransitionLeasedEntry(w, s, h, c)
       PROVE  FenceInv'
  <2>1. held[w].id \in Ids /\ store[held[w].id] \in Entry
    BY <1>10 DEF HoldsEntry, TypeOK
  <2>2. \A v \in Workers : Holding(v)' => Kept(v)
    <3>1. CASE Idle(w)
      BY <1>8, <3>1
    <3>2. CASE /\ pc' = [pc EXCEPT ![w] = "holding"]
               /\ snap' = [snap EXCEPT ![w] = NoSnap]
               /\ UNCHANGED <<now, held>>
      BY <1>10, <3>2 DEF Holding, TypeOK
    <3> QED
      BY <1>10, <3>1, <3>2 DEF TransitionLeasedEntry
  <2>3. grant' = grant
    BY <1>10 DEF TransitionLeasedEntry
  <2>4. CASE store' = store
    BY <1>6, <2>2, <2>3, <2>4
  <2>5. CASE store' = [store EXCEPT ![held[w].id] =
                        [Unleased(store[held[w].id], s) EXCEPT !.errorHistory = h]]
    <3>1. store'[held[w].id].status = s
      BY <1>10, <2>1, <2>5, UnleasedType, HistoryType DEF TypeOK
    <3>2. \A other \in Ids \ {held[w].id} : store'[other] = store[other]
      BY <2>5 DEF TypeOK
    <3> QED
      BY <1>5, <1>10, <2>1, <2>2, <2>3, <3>1, <3>2
  <2> QED
    BY <1>10, <2>4, <2>5 DEF TransitionLeasedEntry
<1>11. ASSUME NEW w \in Workers, NEW id \in Ids, pc[w] = "claiming", ClaimUpdate(w, id)
       PROVE  FenceInv'
  <2> DEFINE until == now[w] + LeaseTtl
  <2>1. /\ grant' = [grant EXCEPT ![id] = @ + 1]
        /\ store' = [store EXCEPT ![id] = Leased(store[id], LeaseOwner[w], until)]
    BY <1>11 DEF ClaimUpdate
  <2>2. /\ store[id] \in Entry /\ LeaseOwner[w] \in Owners /\ until \in Nat
        /\ store'[id] = Leased(store[id], LeaseOwner[w], until)
        /\ grant'[id] = grant[id] + 1
    BY <2>1, DLQConstants DEF TypeOK
  <2>3. store'[id].leaseOwner = LeaseOwner[w]
    BY <2>2, LeasedType
  \* Whoever else held this entry no longer passes.
  <2>4. ASSUME NEW v \in Workers, v # w, Kept(v), Passes(v)' PROVE Good(v)'
    <3>1. held[v].id \in Ids
      BY <2>4 DEF HoldsEntry
    <3>2. held[v].id # id
      BY <2>3, <2>4 DEF UniqueLabels, Fenced
    <3>3. store'[held[v].id] = store[held[v].id] /\ grant'[held[v].id] = grant[held[v].id]
      BY <2>1, <3>1, <3>2 DEF TypeOK
    <3> QED
      BY <1>3, <2>4, <3>3
  <2>5. CASE Idle(w)
    BY <1>1, <1>8, <2>4, <2>5
  <2>6. CASE /\ pc' = [pc EXCEPT ![w] = "holding"]
             /\ held' = [held EXCEPT ![w] = [id |-> id, grant |-> grant[id] + 1,
                                            until |-> until]]
             /\ UNCHANGED snap
    <3>1. Good(w)'
      BY <2>2, <2>6 DEF TypeOK
    <3>2. ASSUME NEW v \in Workers, v # w, Holding(v)' PROVE Kept(v)
      BY <2>6, <3>2 DEF Holding, TypeOK
    <3> QED
      BY <1>1, <2>4, <3>1, <3>2
  <2> QED
    BY <1>11, <2>5, <2>6 DEF ClaimUpdate
<1>12. ASSUME NEW w \in Workers, Claim(w) PROVE FenceInv'
  <2>1. CASE ClaimNull(w)
    BY <1>6, <1>8, <2>1 DEF ClaimNull
  <2> QED
    BY <1>11, <1>12, <2>1 DEF Claim, Candidates
<1>13. ASSUME NEW w \in Workers, ClaimRead(w) PROVE FenceInv'
  <2>1. \A v \in Workers : Holding(v)' => Kept(v)
    BY <1>13 DEF ClaimRead, Holding, TypeOK
  <2> QED
    BY <1>6, <1>13, <2>1 DEF ClaimRead
<1>14. ASSUME NEW w \in Workers, Release(w) \/ Complete(w) \/ FailWrite(w) PROVE FenceInv'
  <2>1. Holding(w) /\ store[held[w].id].errorHistory \in Seq(Nat)
        /\ Append(store[held[w].id].errorHistory, snap[w].attempts) \in Seq(Nat)
    BY <1>14 DEF Release, Complete, FailWrite, Holding, HoldsEntry, TypeOK, Entry
  <2>2. NextStatus(snap[w]) \in Status /\ NextStatus(snap[w]) # "claimed"
    BY DEF NextStatus, Status
  <2> QED
    BY <1>10, <1>14, <2>1, <2>2 DEF Release, Complete, FailWrite, Status
\* The read of fail() is fresh when it is made.
<1>15. ASSUME NEW w \in Workers, FailRead(w) PROVE FenceInv'
  <2>1. CASE Idle(w)
    BY <1>6, <1>8, <1>15, <2>1 DEF FailRead
  <2>2. CASE /\ pc' = [pc EXCEPT ![w] = "failing"]
             /\ snap' = [snap EXCEPT ![w] =
                          [attempts |-> store[held[w].id].attempts,
                           maxAttempts |-> store[held[w].id].maxAttempts]]
             /\ UNCHANGED <<now, held>>
    <3>1. store' = store /\ grant' = grant
      BY <1>15 DEF FailRead
    <3>2. ASSUME NEW v \in Workers, v # w, Holding(v)', Passes(v)' PROVE Good(v)'
      <4>1. Kept(v)
        BY <2>2, <3>2 DEF Holding, TypeOK
      <4> QED
        BY <1>3, <3>1, <3>2, <4>1
    <3>3. Passes(w)' => Good(w)'
      <4>1. /\ snap'[w].attempts = store'[held'[w].id].attempts
            /\ snap'[w].maxAttempts = store'[held'[w].id].maxAttempts
        BY <2>2, <3>1 DEF TypeOK
      <4>2. Holding(w) /\ (Passes(w)' => Passes(w))
        BY <1>15, <2>2, <3>1 DEF FailRead, Holding
      <4> QED
        BY <1>2, <2>2, <3>1, <4>1, <4>2
    <3> QED
      BY <1>1, <3>2, <3>3
  <2> QED
    BY <1>15, <2>1, <2>2 DEF FailRead
<1>16. ASSUME NEW w \in Workers, Crash(w) PROVE FenceInv'
  BY <1>6, <1>8, <1>16 DEF Crash
<1>17. CASE Tick \/ UNCHANGED vars
  <2>1. UNCHANGED <<workerVars, store, grant>>
    BY <1>17 DEF Tick, vars, workerVars
  <2> QED
    BY <1>6, <1>7, <2>1
<1> QED
  BY <1>9, <1>12, <1>13, <1>14, <1>15, <1>16, <1>17 DEF Next

\* When every worker passes a label of its own, an update that passes the
\* fence comes from the holder of the current claim, and fail() decides on
\* figures that are still true.
THEOREM FenceIsSound ==
  ASSUME UniqueLabels
  PROVE  Spec => [](FencedIsCurrent /\ SnapshotCurrent)
<1>1. Init => FenceInv
  BY DEF Init, FenceInv, FencedIsCurrent, SnapshotCurrent, Holding
<1>2. FenceInv => FencedIsCurrent /\ SnapshotCurrent
  BY DEF FenceInv
<1> QED
  BY <1>1, <1>2, FenceStep, TypeCorrect, PTL DEF Spec

LEMMA HistoryGrows ==
  ASSUME NEW h \in Seq(Nat), NEW n \in Nat
  PROVE  /\ Append(h, n) \in Seq(Nat)
         /\ Append(h, n)[Len(Append(h, n))] = n
  OBVIOUS

LEMMA RecordStep ==
  ASSUME TypeOK, HoldsEntry, SnapshotCurrent, [Next]_vars, NEW id \in Ids,
         Len(store'[id].errorHistory) > Len(store[id].errorHistory),
         store[id].status # "absent"
  PROVE  LET e == store'[id] IN
         /\ e.errorHistory[Len(e.errorHistory)] = e.attempts
         /\ e.status = IF AtCap(e) THEN "failed" ELSE "pending"
<1> DEFINE e == store'[id]
<1>1. store[id] \in Entry /\ Len(store[id].errorHistory) \in Nat
  BY DEF TypeOK, Entry
\* Nothing but fail() makes a history longer.
<1>2. e.errorHistory # store[id].errorHistory /\ e.errorHistory # << >>
  BY <1>1
<1>3. ASSUME NEW other \in Ids, Push(other) PROVE FALSE
  BY <1>2, <1>3 DEF Push, TypeOK
<1>4. ASSUME NEW other \in Ids, Requeue(other) PROVE FALSE
  <2>1. PICK reset \in BOOLEAN :
          store' = [store EXCEPT ![other] = [Unleased(store[other], "pending") EXCEPT
                      !.attempts = IF reset THEN 0 ELSE store[other].attempts]]
    BY <1>4 DEF Requeue
  <2>2. store[other] \in Entry /\ store[other].attempts \in Nat
    BY DEF TypeOK, Entry
  <2>3. /\ Unleased(store[other], "pending") \in Entry
        /\ Unleased(store[other], "pending").errorHistory = store[other].errorHistory
    BY <2>2, UnleasedType DEF Status
  <2> QED
    BY <1>2, <2>1, <2>2, <2>3, AttemptsType DEF TypeOK
<1>5. ASSUME NEW other \in Ids, Discard(other) PROVE FALSE
  <2>1. Unleased(store[other], "discarded").errorHistory = store[other].errorHistory
    BY UnleasedType DEF TypeOK, Status
  <2> QED
    BY <1>2, <1>5, <2>1 DEF Discard, TypeOK
<1>6. ASSUME NEW other \in Ids, Remove(other) PROVE FALSE
  BY <1>2, <1>6 DEF Remove, TypeOK, NoDocument
<1>7. ASSUME NEW w \in Workers, NEW other \in Ids, ClaimUpdate(w, other) PROVE FALSE
  <2>1. /\ store[other] \in Entry /\ LeaseOwner[w] \in Owners
        /\ now[w] + LeaseTtl \in Nat
    BY DLQConstants, SMTT(30) DEF TypeOK
  <2>2. Leased(store[other], LeaseOwner[w], now[w] + LeaseTtl).errorHistory
          = store[other].errorHistory
    BY <2>1, LeasedType, SMTT(30)
  <2> QED
    BY <1>2, <1>7, <2>2 DEF ClaimUpdate, TypeOK
<1>8. ASSUME NEW w \in Workers, Claim(w) PROVE FALSE
  BY <1>2, <1>7, <1>8 DEF Claim, ClaimNull, Candidates
\* A fenced update changes one document, and its history is the one given.
<1>9. ASSUME NEW w \in Workers, Holding(w), NEW s \in Status, NEW h \in Seq(Nat),
             NEW c, TransitionLeasedEntry(w, s, h, c)
      PROVE  /\ id = held[w].id
             /\ Fenced(store[id], LeaseOwner[w])
             /\ e.errorHistory = h /\ e.status = s
             /\ e.attempts = store[id].attempts
             /\ e.maxAttempts = store[id].maxAttempts
  <2> DEFINE u == Unleased(store[held[w].id], s)
  <2>1. held[w].id \in Ids /\ store[held[w].id] \in Entry
    BY <1>9 DEF HoldsEntry, TypeOK
  <2>2. /\ store' = [store EXCEPT ![held[w].id] = [u EXCEPT !.errorHistory = h]]
        /\ Fenced(store[held[w].id], LeaseOwner[w])
    BY <1>2, <1>9 DEF TransitionLeasedEntry
  <2>3. id = held[w].id
    BY <1>2, <2>2 DEF TypeOK
  <2>4. e = [u EXCEPT !.errorHistory = h]
    BY <2>1, <2>2, <2>3 DEF TypeOK
  <2>5. u \in Entry /\ u.attempts = store[id].attempts
        /\ u.maxAttempts = store[id].maxAttempts /\ u.status = s
    BY <2>1, <2>3, UnleasedType
  <2> QED
    BY <1>9, <2>2, <2>3, <2>4, <2>5, HistoryType
<1>10. ASSUME NEW w \in Workers, Release(w) \/ Complete(w) PROVE FALSE
  <2>1. Holding(w) /\ store[held[w].id].errorHistory \in Seq(Nat)
    BY <1>10 DEF Release, Complete, Holding, HoldsEntry, TypeOK, Entry
  <2> QED
    BY <1>2, <1>9, <1>10, <2>1 DEF Release, Complete, Status
<1>11. ASSUME NEW w \in Workers, FailWrite(w)
       PROVE  /\ e.errorHistory[Len(e.errorHistory)] = e.attempts
              /\ e.status = IF AtCap(e) THEN "failed" ELSE "pending"
  <2> DEFINE h == Append(store[held[w].id].errorHistory, snap[w].attempts)
  <2>1. Holding(w) /\ pc[w] = "failing"
    BY <1>11 DEF FailWrite, Holding
  <2>2. store[held[w].id].errorHistory \in Seq(Nat) /\ snap[w].attempts \in Nat
    BY <2>1 DEF HoldsEntry, TypeOK, Entry
  <2>3. h \in Seq(Nat) /\ h[Len(h)] = snap[w].attempts
    BY <2>2, HistoryGrows
  <2>4. NextStatus(snap[w]) \in Status
    BY DEF NextStatus, Status
  <2>5. TransitionLeasedEntry(w, NextStatus(snap[w]), h, 0)
    BY <1>11 DEF FailWrite
  <2>6. /\ id = held[w].id /\ Fenced(store[id], LeaseOwner[w])
        /\ e.errorHistory = h /\ e.status = NextStatus(snap[w])
        /\ e.attempts = store[id].attempts /\ e.maxAttempts = store[id].maxAttempts
    BY <1>9, <2>1, <2>3, <2>4, <2>5
  <2>7. snap[w].attempts = e.attempts /\ snap[w].maxAttempts = e.maxAttempts
    BY <2>1, <2>6 DEF SnapshotCurrent
  <2> QED
    BY <2>3, <2>6, <2>7 DEF NextStatus, AtCap
<1>12. UNCHANGED store => FALSE
  BY <1>2
<1> QED
  BY <1>3, <1>4, <1>5, <1>6, <1>8, <1>10, <1>11, <1>12
     DEF Next, vars, Tick, ClaimRead, FailRead, Crash

\* With labels of their own, every failure is recorded under the attempts
\* count the entry has at that moment, and closes it exactly at its cap.
THEOREM FailuresAreRecorded ==
  ASSUME UniqueLabels
  PROVE  Spec => FailureRecorded
<1>1. TypeOK /\ HoldsEntry /\ SnapshotCurrent /\ [Next]_vars
      => [\A id \in Ids :
           Len(store'[id].errorHistory) > Len(store[id].errorHistory)
             /\ store[id].status # "absent"
           => LET e == store'[id] IN
              /\ e.errorHistory[Len(e.errorHistory)] = e.attempts
              /\ e.status = IF AtCap(e) THEN "failed" ELSE "pending"]_vars
  BY RecordStep
<1> QED
  BY <1>1, TypeCorrect, FenceIsSound, PTL DEF Spec, FailureRecorded
=============================================================================
