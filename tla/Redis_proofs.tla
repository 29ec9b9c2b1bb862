---------------------------- MODULE Redis_proofs ----------------------------
(***************************************************************************)
(* Proofs about the Redis connector: the safety properties of RedisRetry,  *)
(* for any number of commands, of attempts, of faults and of cleared       *)
(* timeouts; then those of RedisPipelineScheduler, for any batch size and  *)
(* any number of commands, of failing attempts and of cleared timeouts.    *)
(***************************************************************************)
EXTENDS MCRedis, SequenceTheorems, WellFoundedInduction, TLAPS

\* Nothing has been done for a command that has not been issued, and a command
\* that waits has an attempt left.
Tracked ==
    \A c \in Commands :
      /\ pc[c] = "new" => attempt[c] = 0 /\ applied[c] + queued[c] + ensuring[c] = 0
      /\ pc[c] = "waiting" => attempt[c] < MaxCommandRetries - 1

Inv == TypeOK /\ Tracked /\ OncePerAttempt /\ HasASettler /\ OkWasApplied

\* An attempt begins: one more call, in the client or on its way to it.
LEMMA ExecKeepsInv ==
  ASSUME Inv, NEW c \in Commands, NEW n \in 0 .. MaxCommandRetries - 1,
         Exec(c, n), n = attempt[c] + 1 \/ (n = 0 /\ pc[c] = "new"),
         UNCHANGED <<connectionVars, applied, boundVars>>
  PROVE  Inv'
<1> USE DEF Exec, connectionVars, boundVars, Unsettled
<1>1. /\ queued[c] \in Nat /\ ensuring[c] \in Nat /\ applied[c] \in Nat
      /\ pc'[c] \in {"direct", "racing"}
      /\ pc' \in [Commands -> Unsettled \cup {"new", "lost", "ok", "failed"}]
  BY DEF Inv, TypeOK
<1>2. /\ queued' \in [Commands -> Nat] /\ ensuring' \in [Commands -> Nat]
      /\ queued'[c] + ensuring'[c] = queued[c] + ensuring[c] + 1
      /\ \A d \in Commands \ {c} :
           queued'[d] = queued[d] /\ ensuring'[d] = ensuring[d]
  <2>1. CASE isReady
    BY <1>1, <2>1 DEF Inv, TypeOK, EnsureReady
  <2>2. CASE ~isReady
    BY <1>1, <2>2 DEF Inv, TypeOK, EnsureReady
  <2> QED
    BY <2>1, <2>2
<1>3. \A d \in Commands \ {c} :
        pc'[d] = pc[d] /\ attempt'[d] = attempt[d] /\ applied'[d] = applied[d]
  BY DEF Inv, TypeOK
<1>4. TypeOK'
  BY <1>1, <1>2 DEF Inv, TypeOK
<1>5. applied[c] + queued[c] + ensuring[c] <= n
  BY <1>1 DEF Inv, TypeOK, Tracked, OncePerAttempt
<1>6. attempt'[c] = n /\ applied'[c] = applied[c]
  BY DEF Inv, TypeOK
<1>7. Tracked'
  BY <1>1, <1>2, <1>3 DEF Inv, TypeOK, Tracked
<1>8. OncePerAttempt'
  BY <1>1, <1>2, <1>3, <1>4, <1>5, <1>6 DEF Inv, TypeOK, OncePerAttempt
<1>9. HasASettler'
  BY <1>1, <1>2, <1>3 DEF Inv, TypeOK, HasASettler
<1>10. OkWasApplied'
  BY <1>1, <1>3 DEF Inv, TypeOK, OkWasApplied
<1> QED
  BY <1>4, <1>7, <1>8, <1>9, <1>10 DEF Inv

\* A call of c leaves the client, executed or not, and c goes on as its await
\* of that call tells it.
LEMMA SettleKeepsInv ==
  ASSUME Inv, NEW c \in Commands, queued[c] > 0,
         queued' = [queued EXCEPT ![c] = @ - 1],
         NEW n \in {0, 1}, applied' = [applied EXCEPT ![c] = @ + n],
         NEW next, NEW running \in BOOLEAN,
         pc' = [pc EXCEPT ![c] = next], race' = [race EXCEPT ![c] = running],
         \/ next = pc[c] /\ ~(Awaited(c) /\ pc[c] \in {"direct", "racing"})
         \/ next = "failed"
         \/ next = "waiting" /\ ~LastAttempt(c)
         \/ next = "ok" /\ n = 1,
         pc[c] = "new" => next = "new",
         faults' \in 0 .. MaxFaults, UNCHANGED <<connectionVars, attempt, ensuring, clears>>
  PROVE  Inv'
<1> USE DEF connectionVars, Unsettled, Awaited, LastAttempt
<1>1. /\ queued[c] \in Nat /\ ensuring[c] \in Nat /\ applied[c] \in Nat
      /\ attempt[c] \in Nat /\ pc[c] # "new"
  BY DEF Inv, TypeOK, Tracked
<1>2. /\ queued'[c] = queued[c] - 1 /\ applied'[c] = applied[c] + n
      /\ ensuring'[c] = ensuring[c] /\ pc'[c] = next /\ attempt'[c] = attempt[c]
  BY DEF Inv, TypeOK
<1>3. \A d \in Commands \ {c} :
        /\ pc'[d] = pc[d] /\ attempt'[d] = attempt[d] /\ applied'[d] = applied[d]
        /\ queued'[d] = queued[d] /\ ensuring'[d] = ensuring[d]
  BY DEF Inv, TypeOK
<1>4. TypeOK'
  BY <1>1 DEF Inv, TypeOK
<1>5. Tracked'
  BY <1>1, <1>2, <1>3, RedisRetryConstants DEF Inv, TypeOK, Tracked
<1>6. OncePerAttempt'
  BY <1>1, <1>2, <1>3 DEF Inv, OncePerAttempt
<1>7. HasASettler'
  <2>1. ASSUME pc'[c] \in {"direct", "racing"}
        PROVE  queued'[c] + ensuring'[c] > 0
    <3>1. pc[c] \in {"direct", "racing"} /\ queued[c] # 1
      BY <1>2, <2>1
    <3> QED
      BY <1>1, <1>2, <3>1
  <2>2. ASSUME NEW d \in Commands \ {c}, pc'[d] \in {"direct", "racing"}
        PROVE  queued'[d] + ensuring'[d] > 0
    BY <1>3, <2>2 DEF Inv, HasASettler
  <2> QED
    BY <2>1, <2>2 DEF HasASettler
<1>8. OkWasApplied'
  BY <1>1, <1>2, <1>3 DEF Inv, OkWasApplied
<1> QED
  BY <1>4, <1>5, <1>6, <1>7, <1>8 DEF Inv

LEMMA InvInit == Init => Inv
<1> SUFFICES ASSUME Init PROVE Inv
  OBVIOUS
<1> USE DEF Init
<1>1. 0 \in 0 .. MaxCommandRetries - 1 /\ 0 \in 0 .. MaxFaults /\ 0 \in 0 .. MaxClears
  BY RedisRetryConstants
<1>2. TypeOK
  BY <1>1 DEF TypeOK
<1>3. Tracked /\ OncePerAttempt
  BY DEF Tracked, OncePerAttempt
<1>4. HasASettler /\ OkWasApplied
  BY DEF HasASettler, OkWasApplied
<1> QED
  BY <1>2, <1>3, <1>4 DEF Inv

\* The event of a connection stops the timeouts: what is settled, and what has
\* a call in the client, stays so.
LEMMA ClearKeepsInv ==
  ASSUME Inv, ClearTimeouts, UNCHANGED <<attempt, applied>>,
         queued' \in [Commands -> Nat], ensuring' \in [Commands -> Nat],
         \A c \in Commands : queued'[c] + ensuring'[c] = queued[c] + ensuring[c],
         connected' \in BOOLEAN, isReady' \in BOOLEAN, closed' \in BOOLEAN,
         faults' \in 0 .. MaxFaults, clears' \in 0 .. MaxClears
  PROVE  Inv'
<1>1. \A c \in Commands :
        /\ pc'[c] # "waiting"
        /\ pc'[c] = pc[c] \/ (pc[c] = "waiting" /\ pc'[c] = "lost")
  BY DEF ClearTimeouts, Inv, TypeOK
<1>2. TypeOK'
  BY DEF ClearTimeouts, Inv, TypeOK, Unsettled
<1>3. \A c \in Commands :
        applied'[c] + queued'[c] + ensuring'[c] = applied[c] + queued[c] + ensuring[c]
  <2> TAKE c \in Commands
  <2>1. /\ queued[c] \in Nat /\ ensuring[c] \in Nat /\ applied[c] \in Nat
        /\ queued'[c] \in Nat /\ ensuring'[c] \in Nat /\ applied'[c] = applied[c]
    BY DEF Inv, TypeOK
  <2> QED
    BY <2>1
<1>4. Tracked'
  BY <1>1, <1>3 DEF Inv, Tracked
<1>5. OncePerAttempt'
  BY <1>1, <1>3 DEF Inv, OncePerAttempt
<1>6. HasASettler' /\ OkWasApplied'
  BY <1>1 DEF Inv, HasASettler, OkWasApplied
<1> QED
  BY <1>2, <1>4, <1>5, <1>6 DEF Inv

\* The attempt of c in progress has failed and nothing else has happened.
LEMMA RaceTimeoutKeepsInv ==
  ASSUME Inv, NEW c \in Commands, RaceTimeout(c)
  PROVE  Inv'
<1> USE DEF RaceTimeout, AttemptFails, connectionVars, boundVars, Unsettled
<1>1. \A d \in Commands \ {c} : pc'[d] = pc[d]
  BY DEF Inv, TypeOK
<1>2. /\ pc[c] = "racing" /\ pc'[c] \in {"failed", "waiting"}
      /\ pc'[c] = "waiting" => attempt[c] < MaxCommandRetries - 1
  BY RedisRetryConstants DEF LastAttempt, Inv, TypeOK
<1>3. TypeOK'
  BY DEF Inv, TypeOK
<1>4. Tracked'
  BY <1>1, <1>2 DEF Inv, Tracked
<1>5. OncePerAttempt' /\ HasASettler' /\ OkWasApplied'
  BY <1>1, <1>2 DEF Inv, OncePerAttempt, HasASettler, OkWasApplied
<1> QED
  BY <1>3, <1>4, <1>5 DEF Inv

LEMMA ReplyKeepsInv ==
  ASSUME Inv, NEW c \in Commands, ReplyOk(c) \/ ReplyError(c)
  PROVE  Inv'
<1> USE DEF connectionVars, boundVars
<1>1. /\ pc = [pc EXCEPT ![c] = pc[c]] /\ race = [race EXCEPT ![c] = race[c]]
      /\ applied = [applied EXCEPT ![c] = @ + 0]
      /\ race[c] \in BOOLEAN /\ faults \in 0 .. MaxFaults
  BY DEF Inv, TypeOK
<1>2. pc[c] = "new" => ~(queued[c] > 0)
  BY DEF Inv, TypeOK, Tracked
<1>3. CASE ReplyOk(c)
  <2>1. CASE Awaited(c) /\ pc[c] \in {"direct", "racing"}
    <3> DEFINE next == "ok"
    <3>1. pc' = [pc EXCEPT ![c] = next] /\ race' = [race EXCEPT ![c] = FALSE]
      BY <1>3, <2>1 DEF ReplyOk
    <3>2. next = "ok" /\ (pc[c] = "new" => next = "new")
      BY <2>1
    <3> HIDE DEF next
    <3> QED
      BY <1>1, <1>3, <3>1, <3>2, SettleKeepsInv DEF ReplyOk
  <2>2. CASE ~(Awaited(c) /\ pc[c] \in {"direct", "racing"})
    <3> DEFINE next == pc[c]
    <3>1. pc' = [pc EXCEPT ![c] = next] /\ race' = [race EXCEPT ![c] = race[c]]
      BY <1>1, <1>3, <2>2 DEF ReplyOk
    <3>2. next = pc[c] /\ (pc[c] = "new" => next = "new")
      OBVIOUS
    <3> HIDE DEF next
    <3> QED
      BY <1>1, <1>3, <2>2, <3>1, <3>2, SettleKeepsInv DEF ReplyOk
  <2> QED
    BY <2>1, <2>2
<1>4. CASE ReplyError(c)
  <2>1. PICK n \in {0, 1} : applied' = [applied EXCEPT ![c] = @ + n]
    BY <1>1, <1>4 DEF ReplyError
  <2>2. faults' \in 0 .. MaxFaults
    BY <1>1, <1>4, RedisRetryConstants DEF ReplyError
  <2>3. PICK next \in {"failed", "waiting", pc[c]}, running \in BOOLEAN :
          /\ pc' = [pc EXCEPT ![c] = next] /\ race' = [race EXCEPT ![c] = running]
          /\ \/ next = pc[c] /\ ~(Awaited(c) /\ pc[c] \in {"direct", "racing"})
             \/ next = "failed"
             \/ next = "waiting" /\ ~LastAttempt(c)
          /\ pc[c] = "new" => next = "new"
    <3>1. CASE Awaited(c) /\ pc[c] = "racing" /\ AttemptFails(c)
      BY <3>1 DEF AttemptFails
    <3>2. CASE Awaited(c) /\ pc[c] = "direct" /\ pc' = [pc EXCEPT ![c] = "failed"] /\ UNCHANGED race
      BY <1>1, <3>2
    <3>3. CASE ~(Awaited(c) /\ pc[c] \in {"racing", "direct"}) /\ UNCHANGED <<pc, race>>
      BY <1>1, <3>3
    <3> QED
      BY <1>4, <3>1, <3>2, <3>3 DEF ReplyError
  <2> QED
    BY <1>4, <2>1, <2>2, <2>3, SettleKeepsInv DEF ReplyError
<1> QED
  BY <1>3, <1>4

LEMMA ConnectionKeepsInv ==
  ASSUME Inv, Ready \/ Reconnecting \/ Close \/ OtherConnection
  PROVE  Inv'
<1> USE DEF connectionVars, boundVars
<1>1. CASE Ready
  <2>1. /\ queued' \in [Commands -> Nat] /\ ensuring' \in [Commands -> Nat]
        /\ \A c \in Commands : queued'[c] + ensuring'[c] = queued[c] + ensuring[c]
    BY <1>1 DEF Ready, Inv, TypeOK
  <2> QED
    BY <1>1, <2>1, ClearKeepsInv DEF Ready, Inv, TypeOK
<1>2. CASE Reconnecting
  <2>1. faults' \in 0 .. MaxFaults /\ connected' \in BOOLEAN
    <3>1. faults \in Nat /\ MaxFaults \in Nat
      BY RedisRetryConstants DEF Inv, TypeOK
    <3>2. faults < MaxFaults /\ faults' = faults + 1 /\ connected' = FALSE
      BY <1>2 DEF Reconnecting
    <3>3. faults' \in 0 .. MaxFaults
      BY <3>1, <3>2
    <3> QED
      BY <3>2, <3>3
  <2>2. TypeOK'
    BY <1>2, <2>1 DEF Reconnecting, Inv, TypeOK
  <2> QED
    BY <1>2, <2>2
       DEF Reconnecting, Inv, Tracked, OncePerAttempt, HasASettler, OkWasApplied
<1>3. CASE Close
  BY <1>3, ClearKeepsInv DEF Close, Inv, TypeOK
<1>4. CASE OtherConnection
  BY <1>4, ClearKeepsInv, RedisRetryConstants DEF OtherConnection, Inv, TypeOK
<1> QED
  BY <1>1, <1>2, <1>3, <1>4

LEMMA InvInductive == Inv /\ [Next]_vars => Inv'
<1> SUFFICES ASSUME Inv, [Next]_vars PROVE Inv'
  OBVIOUS
<1>1. ASSUME NEW c \in Commands, Issue(c) PROVE Inv'
  <2>1. 0 \in 0 .. MaxCommandRetries - 1
    BY RedisRetryConstants
  <2> QED
    BY <1>1, <2>1, ExecKeepsInv DEF Issue
<1>2. ASSUME NEW c \in Commands, RetryFires(c) PROVE Inv'
  <2>1. attempt[c] + 1 \in 0 .. MaxCommandRetries - 1
    BY <1>2, RedisRetryConstants DEF RetryFires, Inv, TypeOK, Tracked
  <2> QED
    BY <1>2, <2>1, ExecKeepsInv DEF RetryFires
<1>3. ASSUME NEW c \in Commands, RaceTimeout(c) \/ ReplyOk(c) \/ ReplyError(c)
      PROVE  Inv'
  BY <1>3, RaceTimeoutKeepsInv, ReplyKeepsInv
<1>4. CASE Ready \/ Reconnecting \/ Close \/ OtherConnection
  BY <1>4, ConnectionKeepsInv
<1>5. CASE UNCHANGED vars
  BY <1>5
     DEF vars, Inv, TypeOK, Tracked, OncePerAttempt, HasASettler, OkWasApplied
<1> QED
  BY <1>1, <1>2, <1>3, <1>4, <1>5 DEF Next, Step

LEMMA InvHolds == Spec => []Inv
<1> QED
  BY InvInit, InvInductive, PTL DEF Spec

\* For any number of commands, faults and foreign events: the variables keep
\* their types, and execWithRetry never starts attempt maxCommandRetries.
THEOREM TypesHold == Spec => []TypeOK
<1>1. Inv => TypeOK
  BY DEF Inv
<1> QED
  BY InvHolds, <1>1, PTL

\* However attempts are abandoned, fail late and are retried, the client
\* receives a command at most once per attempt.
THEOREM CommandsAreSentOncePerAttempt == Spec => []OncePerAttempt
<1>1. Inv => OncePerAttempt
  BY DEF Inv
<1> QED
  BY InvHolds, <1>1, PTL

\* Whatever timeouts another connector clears, a command that is being
\* attempted has a call in the client that can settle it: only the pause
\* between two attempts can lose a command.
THEOREM AttemptsHaveASettler == Spec => []HasASettler
<1>1. Inv => HasASettler
  BY DEF Inv
<1> QED
  BY InvHolds, <1>1, PTL

\* A command that resolves was executed by Redis, even when the answers of the
\* attempts abandoned before arrive first.
THEOREM SuccessMeansApplied == Spec => []OkWasApplied
<1>1. Inv => OkWasApplied
  BY DEF Inv
<1> QED
  BY InvHolds, <1>1, PTL

----------------------------------------------------------------------------
(* The scheduler. *)

\* The commands are queued in the order they are numbered in.
Ascending == \A i, j \in DOMAIN pipeline : i < j => pipeline[i] < pipeline[j]

\* No command that was queued before one that Redis has executed is missing
\* there, although replies may belong to attempts abandoned long before.
NoneSkipped ==
    \A i \in DOMAIN sApplied, j \in DOMAIN pipeline :
      pipeline[j] <= sApplied[i] => \E k \in DOMAIN sApplied : sApplied[k] = pipeline[j]

\* The blocks on the wire are those of ever later attempts, and an attempt that
\* is about to be sent is later than all of them.
LatestIsLast ==
    /\ \A i, j \in DOMAIN wire : i < j => wire[i].attempt < wire[j].attempt
    /\ call = "starting" => \A i \in DOMAIN wire : wire[i].attempt < attempts

\* While no flush runs the handle is set exactly when its timeout waits, and
\* then something is queued.
TimerWaits == ~flushing => /\ timer <=> timeout
                           /\ timer => pipeline # << >>

SchedulerInv ==
    /\ Scheduler!FlushesInOrder
    /\ Ascending /\ NoneSkipped /\ LatestIsLast /\ TimerWaits

LEMMA SchedulerTypes ==
  ASSUME SchedulerInv
  PROVE  Scheduler!TypeOK
BY DEF SchedulerInv, Scheduler!FlushesInOrder

LEMMA NatElements ==
  ASSUME NEW n \in Nat, NEW s \in Seq(1 .. n)
  PROVE  s \in [1 .. Len(s) -> Nat]
<1>1. s \in [1 .. Len(s) -> 1 .. n]
  BY LenProperties
<1> QED
  BY <1>1

LEMMA PrefixElements ==
  ASSUME NEW S, NEW s \in Seq(S), NEW t \in Seq(S)
  PROVE  Scheduler!IsPrefix(s, t)
           <=> Len(s) <= Len(t) /\ \A i \in 1 .. Len(s) : s[i] = t[i]
<1>1. /\ Len(s) \in Nat /\ Len(t) \in Nat
      /\ \A i \in 1 .. Len(s) : s[i] \in S
      /\ SubSeq(s, 1, Len(s)) = s
  BY SubSeqFull
<1>2. ASSUME Len(s) <= Len(t)
      PROVE  /\ SubSeq(t, 1, Len(s)) \in Seq(S)
             /\ Len(SubSeq(t, 1, Len(s))) = Len(s)
             /\ \A i \in 1 .. Len(s) : SubSeq(t, 1, Len(s))[i] = t[i]
  <2>1. \A i \in 1 .. Len(s) : t[i] \in S
    BY <1>1, <1>2
  <2> QED
    BY <1>1, <2>1, SubSeqProperties
<1>3. ASSUME Len(s) <= Len(t), \A i \in 1 .. Len(s) : s[i] = t[i]
      PROVE  s = SubSeq(t, 1, Len(s))
  BY <1>2, <1>3, SeqEqual
<1> QED
  BY <1>1, <1>2, <1>3 DEF Scheduler!IsPrefix

NatLess == {p \in Nat \X Nat : p[1] < p[2]}

LEMMA NatLessWellFounded == IsWellFoundedOn(NatLess, Nat)
<1>1. NatLess = OpToRel(<, Nat)
  BY DEF NatLess, OpToRel
<1> QED
  BY <1>1, NatLessThanWellFounded

LEMMA LeastNumber ==
  ASSUME NEW S \in SUBSET Nat, S # {}
  PROVE  Scheduler!Min(S) \in S /\ \A y \in S : Scheduler!Min(S) <= y
<1>1. PICK x \in S : \A y \in S : ~(<<y, x>> \in NatLess)
  BY NatLessWellFounded, WFMin
<1>2. ASSUME NEW y \in S, y < x PROVE FALSE
  <2>1. <<y, x>> \in Nat \X Nat /\ <<y, x>>[1] < <<y, x>>[2]
    BY <1>2
  <2>2. <<y, x>> \in NatLess
    BY <2>1 DEF NatLess
  <2> QED
    BY <1>1, <2>2
<1>3. \A y \in S : x <= y
  BY <1>2
<1> QED
  BY <1>3 DEF Scheduler!Min

\* What a block executes for the first time is the end of its batch.
LEMMA NewIsTheEnd ==
  ASSUME NEW S \in SUBSET Nat, NEW batch \in Seq(S)
  PROVE  LET new == Scheduler!NotYetApplied(batch)
         IN  /\ new \in Seq(S)
             /\ \E n \in 0 .. Len(batch) :
                  /\ Len(new) = Len(batch) - n
                  /\ \A i \in 1 .. Len(new) : new[i] = batch[n + i]
                  /\ \A j \in 1 .. n : \E k \in DOMAIN sApplied : sApplied[k] = batch[j]
                  /\ n < Len(batch) =>
                       ~ \E k \in DOMAIN sApplied : sApplied[k] = batch[n + 1]
<1> DEFINE fresh == {i \in DOMAIN batch : batch[i] \notin Scheduler!ToSet(sApplied)}
<1>1. /\ Len(batch) \in Nat /\ DOMAIN batch = 1 .. Len(batch)
      /\ \A i \in 1 .. Len(batch) : batch[i] \in S
      /\ fresh \in SUBSET (1 .. Len(batch))
  OBVIOUS
<1>2. \A i \in 1 .. Len(batch) :
        i \in fresh <=> ~ \E k \in DOMAIN sApplied : sApplied[k] = batch[i]
  BY <1>1 DEF Scheduler!ToSet
<1>3. CASE fresh = {}
  <2>1. Scheduler!NotYetApplied(batch) = << >>
    BY <1>3 DEF Scheduler!NotYetApplied
  <2>2. \A j \in 1 .. Len(batch) : \E k \in DOMAIN sApplied : sApplied[k] = batch[j]
    BY <1>2, <1>3
  <2>3. Len(batch) \in 0 .. Len(batch) /\ Len(batch) - Len(batch) = 0
    BY <1>1
  <2>4. << >> \in Seq(S) /\ Len(<< >>) = 0
    OBVIOUS
  <2> DEFINE n == Len(batch)
  <2>5. /\ n \in 0 .. Len(batch) /\ Len(<< >>) = Len(batch) - n
        /\ \A i \in 1 .. Len(<< >>) : << >>[i] = batch[n + i]
        /\ ~ n < Len(batch)
    BY <1>1, <2>3, <2>4
  <2> HIDE DEF fresh
  <2> QED
    BY <2>1, <2>2, <2>4, <2>5
<1>4. CASE fresh # {}
  <2> DEFINE m == Scheduler!Min(fresh)
  <2>1. m \in fresh /\ \A y \in fresh : m <= y
    BY <1>1, <1>4, LeastNumber, SMTT(30)
  <2>2. m \in 1 .. Len(batch) /\ m - 1 \in 0 .. Len(batch)
    BY <1>1, <2>1
  <2>3. Scheduler!NotYetApplied(batch) = SubSeq(batch, m, Len(batch))
    BY <1>4 DEF Scheduler!NotYetApplied
  <2> HIDE DEF m, fresh
  <2>4. /\ SubSeq(batch, m, Len(batch)) \in Seq(S)
        /\ Len(SubSeq(batch, m, Len(batch))) = Len(batch) - (m - 1)
        /\ \A i \in 1 .. Len(SubSeq(batch, m, Len(batch))) :
             SubSeq(batch, m, Len(batch))[i] = batch[(m - 1) + i]
    <3>1. \A i \in m .. Len(batch) : batch[i] \in S
      BY <1>1, <2>2
    <3>2. /\ SubSeq(batch, m, Len(batch)) \in Seq(S)
          /\ Len(SubSeq(batch, m, Len(batch))) = Len(batch) - m + 1
          /\ \A i \in 1 .. Len(batch) - m + 1 : SubSeq(batch, m, Len(batch))[i] = batch[m + i - 1]
      BY <1>1, <2>2, <3>1, SubSeqProperties
    <3>3. Len(batch) - m + 1 = Len(batch) - (m - 1) /\ \A i \in Nat : m + i - 1 = (m - 1) + i
      BY <1>1, <2>2
    <3> QED
      BY <1>1, <2>2, <3>2, <3>3
  <2>5. \A j \in 1 .. m - 1 : \E k \in DOMAIN sApplied : sApplied[k] = batch[j]
    BY <1>1, <1>2, <2>1, <2>2
  <2>6. ~ \E k \in DOMAIN sApplied : sApplied[k] = batch[(m - 1) + 1]
    BY <1>2, <2>1, <2>2
  <2> QED
    BY <2>2, <2>3, <2>4, <2>5, <2>6
<1> QED
  BY <1>3, <1>4

\* `after' is `before' followed by entries n + 1 up to n + more of an ascending
\* queue of the given size, whose first n entries are among the old entries of
\* `before' and whose next is not.
Splices(after, before, queue, old, more, n, size) ==
    /\ n + more <= size
    /\ queue \in [1 .. size -> Nat] /\ before \in [1 .. old -> Nat]
    /\ after \in [1 .. old + more -> Nat]
    /\ \A i \in 1 .. old : after[i] = before[i]
    /\ \A i \in 1 .. more : after[old + i] = queue[n + i]
    /\ \A i, j \in 1 .. size : i < j => queue[i] < queue[j]
    /\ \A i, j \in 1 .. old : i < j => before[i] < before[j]
    /\ \A i \in 1 .. old, j \in 1 .. size :
         queue[j] <= before[i] => \E k \in 1 .. old : before[k] = queue[j]
    /\ \A j \in 1 .. n : \E k \in 1 .. old : before[k] = queue[j]
    /\ more > 0 => ~ \E k \in 1 .. old : before[k] = queue[n + 1]

\* Then `after' ascends, has the first n + more entries, and skips none.
Spliced(after, queue, old, more, n, size) ==
    /\ \A i, j \in 1 .. old + more : i < j => after[i] < after[j]
    /\ \A j \in 1 .. n + more : \E k \in 1 .. old + more : after[k] = queue[j]
    /\ \A i \in 1 .. old + more, j \in 1 .. size :
         queue[j] <= after[i] => \E k \in 1 .. old + more : after[k] = queue[j]

LEMMA Splice ==
  ASSUME NEW old \in Nat, NEW more \in Nat, NEW n \in Nat, NEW size \in Nat,
         NEW after, NEW before, NEW queue,
         Splices(after, before, queue, old, more, n, size)
  PROVE  Spliced(after, queue, old, more, n, size)
<1> USE DEF Splices
<1>1. \A k \in 1 .. old, i \in 1 .. more : before[k] < queue[n + i]
  <2> TAKE k \in 1 .. old, i \in 1 .. more
  <2>1. n + 1 \in 1 .. size /\ n + i \in 1 .. size /\ (i = 1 \/ n + 1 < n + i) /\ more > 0
    OBVIOUS
  <2>2. ~ (queue[n + 1] <= before[k])
    BY <2>1
  <2>3. i = 1 \/ queue[n + 1] < queue[n + i]
    BY <2>1
  <2>4. queue[n + 1] \in Nat /\ queue[n + i] \in Nat /\ before[k] \in Nat
    BY <2>1
  <2> QED
    BY <2>2, <2>3, <2>4, SMTT(30)
<1>2. ASSUME NEW i \in 1 .. old + more, NEW j \in 1 .. old + more, i < j
      PROVE  after[i] < after[j]
  <2>1. CASE j <= old
    BY <1>2, <2>1
  <2>2. CASE i <= old /\ ~(j <= old)
    <3>1. PICK m \in 1 .. more : j = old + m
      <4>1. j - old \in 1 .. more /\ j = old + (j - old)
        BY <2>2
      <4> QED
        BY <4>1
    <3>2. i \in 1 .. old /\ after[i] = before[i] /\ after[j] = queue[n + m]
      BY <2>2, <3>1
    <3>3. before[i] < queue[n + m]
      BY <1>1, <3>2
    <3> QED
      BY <3>2, <3>3
  <2>3. CASE ~(i <= old)
    <3>1. PICK l \in 1 .. more : i = old + l
      <4>1. i - old \in 1 .. more /\ i = old + (i - old)
        BY <2>3
      <4> QED
        BY <4>1
    <3>2. PICK m \in 1 .. more : j = old + m
      <4>1. j - old \in 1 .. more /\ j = old + (j - old)
        BY <1>2, <2>3
      <4> QED
        BY <4>1
    <3>3. n + l \in 1 .. size /\ n + m \in 1 .. size /\ n + l < n + m
      BY <1>2, <3>1, <3>2
    <3>4. queue[n + l] < queue[n + m]
      BY <3>3
    <3> QED
      BY <3>1, <3>2, <3>4
  <2> QED
    BY <2>1, <2>2, <2>3
<1>3. ASSUME NEW j \in 1 .. n + more
      PROVE  \E k \in 1 .. old + more : after[k] = queue[j]
  <2>1. CASE j <= n
    <3>1. PICK k \in 1 .. old : before[k] = queue[j]
      BY <2>1
    <3>2. k \in 1 .. old + more /\ after[k] = queue[j]
      BY <3>1
    <3> QED
      BY <3>2
  <2>2. CASE ~(j <= n)
    <3>1. PICK m \in 1 .. more : j = n + m
      <4>1. j - n \in 1 .. more /\ j = n + (j - n)
        BY <2>2
      <4> QED
        BY <4>1
    <3>2. old + m \in 1 .. old + more /\ after[old + m] = queue[j]
      BY <3>1
    <3> QED
      BY <3>2
  <2> QED
    BY <2>1, <2>2
<1>4. ASSUME NEW i \in 1 .. old + more, NEW j \in 1 .. size, queue[j] <= after[i]
      PROVE  \E k \in 1 .. old + more : after[k] = queue[j]
  <2>1. CASE i <= old
    <3>1. PICK k \in 1 .. old : before[k] = queue[j]
      BY <1>4, <2>1
    <3>2. k \in 1 .. old + more /\ after[k] = queue[j]
      BY <3>1
    <3> QED
      BY <3>2
  <2>2. CASE ~(i <= old)
    <3>1. PICK m \in 1 .. more : i = old + m
      <4>1. i - old \in 1 .. more /\ i = old + (i - old)
        BY <2>2
      <4> QED
        BY <4>1
    <3>2. n + m \in 1 .. size /\ queue[j] <= queue[n + m]
      BY <1>4, <3>1
    <3>3. ~(n + m < j)
      <4>1. queue[j] \in Nat /\ queue[n + m] \in Nat
        BY <3>2
      <4> QED
        BY <3>2, <4>1
    <3>4. j \in 1 .. n + more
      BY <3>1, <3>3
    <3> QED
      BY <1>3, <3>4
  <2> QED
    BY <2>1, <2>2
<1> QED
  BY <1>2, <1>3, <1>4 DEF Spliced

Blocks == [batch: Seq(1 .. scheduled), attempt: Nat]

\* Redis executes the oldest block: the order stays, and nothing is skipped.
LEMMA ExecutingKeepsOrder ==
  ASSUME SchedulerInv, wire # << >>, UNCHANGED scheduled, pipeline' \in {pipeline, << >>},
         sApplied' = sApplied \o Scheduler!NotYetApplied(Head(wire).batch)
  PROVE  /\ sApplied' \in Seq(1 .. scheduled)
         /\ Scheduler!InOrder' /\ NoneSkipped'
         /\ \A j \in DOMAIN Head(wire).batch :
              \E k \in DOMAIN sApplied' : sApplied'[k] = Head(wire).batch[j]
<1> DEFINE batch == Head(wire).batch
           new == Scheduler!NotYetApplied(batch)
<1>1. /\ scheduled \in Nat /\ wire \in Seq(Blocks) /\ wire[1] = Head(wire) /\ 1 \in DOMAIN wire
      /\ pipeline \in Seq(1 .. scheduled) /\ sApplied \in Seq(1 .. scheduled)
  BY SchedulerTypes, SchedulerConstants DEF Scheduler!TypeOK, Blocks
<1>2. batch \in Seq(1 .. scheduled)
  <2>1. Head(wire) \in Blocks
    BY <1>1, HeadTailProperties
  <2> QED
    BY <2>1 DEF Blocks
<1>3. Len(batch) <= Len(pipeline) /\ \A i \in 1 .. Len(batch) : batch[i] = pipeline[i]
  BY <1>1, <1>2, PrefixElements, SMTT(30)
     DEF SchedulerInv, Scheduler!FlushesInOrder, Scheduler!Serialized
<1>4. sApplied' = sApplied \o new
  OBVIOUS
<1> HIDE DEF batch, new
<1>5. /\ new \in Seq(1 .. scheduled)
      /\ \E n \in 0 .. Len(batch) :
           /\ Len(new) = Len(batch) - n
           /\ \A i \in 1 .. Len(new) : new[i] = batch[n + i]
           /\ \A j \in 1 .. n : \E k \in DOMAIN sApplied : sApplied[k] = batch[j]
           /\ n < Len(batch) => ~ \E k \in DOMAIN sApplied : sApplied[k] = batch[n + 1]
  <2>1. 1 .. scheduled \in SUBSET Nat
    BY <1>1
  <2> QED
    BY <1>2, <2>1, NewIsTheEnd DEF new
<1>6. /\ sApplied' \in Seq(1 .. scheduled)
      /\ Len(sApplied') = Len(sApplied) + Len(new)
      /\ \A i \in 1 .. Len(sApplied) : sApplied'[i] = sApplied[i]
      /\ \A i \in 1 .. Len(new) : sApplied'[Len(sApplied) + i] = new[i]
  <2>1. /\ sApplied \o new \in Seq(1 .. scheduled)
        /\ Len(sApplied \o new) = Len(sApplied) + Len(new)
        /\ \A i \in 1 .. Len(sApplied) + Len(new) : (sApplied \o new)[i] =
             IF i <= Len(sApplied) THEN sApplied[i] ELSE new[i - Len(sApplied)]
    <3>1. sApplied \in Seq(1 .. scheduled) /\ new \in Seq(1 .. scheduled)
      BY <1>1, <1>5
    <3> QED
      BY <3>1, ConcatProperties
  <2>2. Len(sApplied) \in Nat /\ Len(new) \in Nat
    BY <1>1, <1>5
  <2>3. \A i \in 1 .. Len(sApplied) : (sApplied \o new)[i] = sApplied[i]
    BY <2>1, <2>2
  <2>4. \A i \in 1 .. Len(new) : (sApplied \o new)[Len(sApplied) + i] = new[i]
    <3> TAKE i \in 1 .. Len(new)
    <3>1. /\ Len(sApplied) + i \in 1 .. Len(sApplied) + Len(new)
          /\ ~(Len(sApplied) + i <= Len(sApplied)) /\ (Len(sApplied) + i) - Len(sApplied) = i
      BY <2>2
    <3> QED
      BY <2>1, <3>1
  <2> QED
    BY <1>4, <2>1, <2>3, <2>4
<1> SUFFICES ASSUME NEW n \in Nat, n <= Len(batch), Len(new) = Len(batch) - n,
                    \A i \in 1 .. Len(new) : new[i] = batch[n + i],
                    \A j \in 1 .. n : \E k \in DOMAIN sApplied : sApplied[k] = batch[j],
                    n < Len(batch) => ~ \E k \in DOMAIN sApplied : sApplied[k] = batch[n + 1]
             PROVE  /\ Scheduler!InOrder' /\ NoneSkipped'
                    /\ \A j \in DOMAIN batch : \E k \in DOMAIN sApplied' : sApplied'[k] = batch[j]
  <2>1. Len(batch) \in Nat /\ 0 .. Len(batch) \subseteq Nat
    BY <1>2
  <2>2. PICK n \in 0 .. Len(batch) :
           /\ Len(new) = Len(batch) - n
           /\ \A i \in 1 .. Len(new) : new[i] = batch[n + i]
           /\ \A j \in 1 .. n : \E k \in DOMAIN sApplied : sApplied[k] = batch[j]
           /\ n < Len(batch) => ~ \E k \in DOMAIN sApplied : sApplied[k] = batch[n + 1]
    BY <1>5
  <2>3. n \in Nat /\ n <= Len(batch)
    BY <2>1, <2>2
  <2>4. /\ Scheduler!InOrder' /\ NoneSkipped'
        /\ \A j \in DOMAIN batch : \E k \in DOMAIN sApplied' : sApplied'[k] = batch[j]
    BY <2>2, <2>3
  <2> QED
    BY <1>6, <2>4 DEF batch
<1>p. PICK old \in Nat, more \in Nat, size \in Nat, most \in Nat :
        /\ old = Len(sApplied) /\ more = Len(new)
        /\ size = Len(pipeline) /\ most = Len(batch)
  BY <1>1, <1>2, <1>5, SMTT(30)
<1>7. /\ n + more = most /\ n + more <= size
      /\ DOMAIN sApplied = 1 .. old /\ DOMAIN sApplied' = 1 .. old + more
      /\ DOMAIN pipeline = 1 .. size /\ DOMAIN batch = 1 .. most
      /\ pipeline \in [1 .. size -> Nat] /\ sApplied \in [1 .. old -> Nat]
      /\ sApplied' \in [1 .. old + more -> Nat]
  <2>1. more = most - n /\ most <= size
    BY <1>3, <1>p
  <2>2. /\ DOMAIN sApplied = 1 .. old /\ DOMAIN sApplied' = 1 .. old + more
        /\ DOMAIN pipeline = 1 .. size /\ DOMAIN batch = 1 .. most
    BY <1>1, <1>2, <1>6, <1>p, LenProperties
  <2>3. \A s \in Seq(1 .. scheduled) : s \in [1 .. Len(s) -> Nat]
    <3>1. scheduled \in Nat
      BY <1>1
    <3> QED
      BY <3>1, NatElements
  <2>4. sApplied' \in [1 .. old + more -> Nat]
    <3>1. sApplied' \in [1 .. Len(sApplied') -> Nat]
      BY <1>6, <2>3
    <3> QED
      BY <1>6, <1>p, <3>1
  <2>5. n + more = most
    BY <2>1
  <2> QED
    BY <1>1, <1>p, <2>1, <2>2, <2>3, <2>4, <2>5
<1>8. Splices(sApplied', sApplied, pipeline, old, more, n, size)
  <2>1. \A i \in 1 .. more : n + i \in 1 .. most /\ (n + i) \in 1 .. size
    BY <1>7
  <2>2. \A i \in 1 .. more : sApplied'[old + i] = pipeline[n + i]
    BY <1>3, <1>6, <1>p, <2>1
  <2>3. \A i, j \in 1 .. size : i < j => pipeline[i] < pipeline[j]
    BY <1>7 DEF SchedulerInv, Ascending
  <2>4. \A i, j \in 1 .. old : i < j => sApplied[i] < sApplied[j]
    BY <1>7 DEF SchedulerInv, Scheduler!FlushesInOrder, Scheduler!InOrder
  <2>5. \A i \in 1 .. old, j \in 1 .. size :
           pipeline[j] <= sApplied[i] => \E k \in 1 .. old : sApplied[k] = pipeline[j]
    BY <1>7 DEF SchedulerInv, NoneSkipped
  <2>6. \A j \in 1 .. n : j \in 1 .. most
    BY <1>7
  <2>7. \A j \in 1 .. n : \E k \in 1 .. old : sApplied[k] = pipeline[j]
    BY <1>3, <1>7, <1>p, <2>6
  <2>8. more > 0 => n < most /\ n + 1 \in 1 .. most
    BY <1>7
  <2>9. more > 0 => ~ \E k \in 1 .. old : sApplied[k] = pipeline[n + 1]
    BY <1>3, <1>7, <1>p, <2>8
  <2> QED
    BY <1>6, <1>7, <1>p, <2>2, <2>3, <2>4, <2>5, <2>7, <2>9 DEF Splices
<1>9. Spliced(sApplied', pipeline, old, more, n, size)
  BY <1>8, Splice
<1>10. Scheduler!InOrder'
  BY <1>7, <1>9 DEF Spliced, Scheduler!InOrder
<1>11. NoneSkipped'
  <2>1. CASE pipeline' = << >>
    BY <2>1 DEF NoneSkipped
  <2>2. CASE pipeline' = pipeline
    BY <1>7, <1>9, <2>2, ZenonT(30) DEF Spliced, NoneSkipped
  <2> QED
    BY <2>1, <2>2
<1>12. \A j \in DOMAIN batch : \E k \in DOMAIN sApplied' : sApplied'[k] = batch[j]
  <2>1. \A j \in 1 .. most : batch[j] = pipeline[j]
    BY <1>3, <1>p
  <2> QED
    BY <1>7, <1>9, <2>1, ZenonT(30) DEF Spliced
<1> QED
  BY <1>10, <1>11, <1>12

\* addSet(): the new command comes after all that are queued or executed.
LEMMA QueueingKeepsOrder ==
  ASSUME SchedulerInv, scheduled < MaxScheduled, scheduled' = scheduled + 1,
         pipeline' = Append(pipeline, scheduled'), UNCHANGED <<sApplied, wire>>
  PROVE  /\ scheduled' \in 0 .. MaxScheduled
         /\ pipeline' \in Seq(1 .. scheduled') /\ sApplied' \in Seq(1 .. scheduled')
         /\ wire' \in Seq(Blocks')
         /\ pipeline' # << >>
         /\ Ascending' /\ NoneSkipped'
         /\ \A i \in DOMAIN wire : Scheduler!IsPrefix(wire[i].batch, pipeline')
<1>1. /\ scheduled \in Nat /\ MaxScheduled \in Nat
      /\ wire \in Seq(Blocks)
      /\ pipeline \in Seq(1 .. scheduled) /\ sApplied \in Seq(1 .. scheduled)
  BY SchedulerTypes, SchedulerConstants DEF Scheduler!TypeOK, Blocks
<1>2. scheduled' \in 0 .. MaxScheduled /\ 1 .. scheduled \subseteq 1 .. scheduled'
      /\ scheduled' \in 1 .. scheduled' /\ scheduled' \in Nat
  BY <1>1
<1>3. /\ pipeline \in Seq(1 .. scheduled') /\ sApplied \in Seq(1 .. scheduled')
      /\ Blocks \subseteq Blocks'
  <2>1. \A s \in Seq(1 .. scheduled) : s \in Seq(1 .. scheduled')
    BY <1>2, SeqMonotonic
  <2> QED
    BY <1>1, <2>1 DEF Blocks
<1>4. wire' \in Seq(Blocks')
  BY <1>1, <1>3, SeqMonotonic
<1> DEFINE size == Len(pipeline)
<1>5. /\ pipeline' \in Seq(1 .. scheduled') /\ Len(pipeline') = size + 1
      /\ \A i \in 1 .. size : pipeline'[i] = pipeline[i]
      /\ pipeline'[size + 1] = scheduled'
      /\ pipeline' # << >> /\ size \in Nat
      /\ DOMAIN pipeline = 1 .. size /\ DOMAIN pipeline' = 1 .. size + 1
  <2>1. /\ Append(pipeline, scheduled') \in Seq(1 .. scheduled')
        /\ Len(Append(pipeline, scheduled')) = size + 1
        /\ \A i \in 1 .. size : Append(pipeline, scheduled')[i] = pipeline[i]
        /\ Append(pipeline, scheduled')[size + 1] = scheduled'
        /\ Append(pipeline, scheduled') # << >>
    BY <1>2, <1>3, AppendProperties
  <2>2. size \in Nat /\ DOMAIN pipeline = 1 .. size
    BY <1>1
  <2>3. DOMAIN Append(pipeline, scheduled') = 1 .. size + 1
    BY <2>1, <2>2, LenProperties
  <2> QED
    BY <2>1, <2>2, <2>3
<1>6. /\ \A i \in 1 .. size : pipeline[i] \in Nat /\ pipeline[i] < scheduled'
      /\ \A i \in DOMAIN sApplied : sApplied[i] \in Nat /\ sApplied[i] < scheduled'
  BY <1>1, SMTT(30)
<1> HIDE DEF size
<1>7. Ascending'
  <2> SUFFICES ASSUME NEW i \in 1 .. size + 1, NEW j \in 1 .. size + 1, i < j
               PROVE  pipeline'[i] < pipeline'[j]
    BY <1>5 DEF Ascending
  <2>1. i \in 1 .. size /\ (j \in 1 .. size \/ j = size + 1)
    BY <1>5
  <2> QED
    BY <1>5, <1>6, <2>1 DEF SchedulerInv, Ascending
<1>8. NoneSkipped'
  <2> SUFFICES ASSUME NEW i \in DOMAIN sApplied, NEW j \in 1 .. size + 1,
                      pipeline'[j] <= sApplied[i]
               PROVE  \E k \in DOMAIN sApplied : sApplied[k] = pipeline'[j]
    BY <1>5 DEF NoneSkipped
  <2>1. ~ (scheduled' <= sApplied[i])
    BY <1>2, <1>6
  <2>2. j \in 1 .. size /\ pipeline'[j] = pipeline[j]
    BY <1>5, <2>1
  <2> QED
    BY <1>5, <2>2 DEF SchedulerInv, NoneSkipped
<1>9. ASSUME NEW i \in DOMAIN wire PROVE Scheduler!IsPrefix(wire[i].batch, pipeline')
  <2>1. wire[i] \in Blocks /\ wire[i].batch \in Seq(1 .. scheduled)
    <3>1. wire[i] \in Blocks
      BY <1>1
    <3> QED
      BY <3>1 DEF Blocks
  <2>2. wire[i].batch \in Seq(1 .. scheduled')
    BY <1>2, <2>1, SeqMonotonic
  <2>3. Scheduler!IsPrefix(wire[i].batch, pipeline)
    BY DEF SchedulerInv, Scheduler!FlushesInOrder, Scheduler!Serialized
  <2>4. /\ Len(wire[i].batch) <= size
        /\ \A k \in 1 .. Len(wire[i].batch) : wire[i].batch[k] = pipeline[k]
    <3>1. pipeline \in Seq(1 .. scheduled) /\ size = Len(pipeline)
      BY <1>1 DEF size
    <3> QED
      BY <2>1, <2>3, <3>1, PrefixElements
  <2>5. PICK n \in Nat : n = Len(wire[i].batch)
    BY <2>1
  <2>6. n <= size + 1 /\ \A k \in 1 .. n : k \in 1 .. size
    BY <1>5, <2>4, <2>5
  <2>7. \A k \in 1 .. n : wire[i].batch[k] = pipeline'[k]
    BY <1>5, <2>4, <2>5, <2>6
  <2> QED
    BY <1>5, <2>2, <2>5, <2>6, <2>7, PrefixElements
<1> QED
  BY <1>2, <1>3, <1>4, <1>5, <1>7, <1>8, <1>9

\* A flush begins: nothing is on the wire.
LEMMA StartKeepsInv ==
  ASSUME SchedulerInv, ~flushing, Scheduler!StartFlush, UNCHANGED <<wire, sApplied, failures, sClears>>,
         scheduled' \in 0 .. MaxScheduled,
         pipeline' \in Seq(1 .. scheduled'), sApplied' \in Seq(1 .. scheduled'),
         wire' \in Seq(Blocks'),
         timer' \in BOOLEAN, timeout' \in BOOLEAN, stopping' \in {"no", "awaiting", "done"},
         Ascending', NoneSkipped'
  PROVE  SchedulerInv'
<1>1. wire = << >> /\ wire' = << >>
  BY DEF SchedulerInv, Scheduler!FlushesInOrder, Scheduler!Serialized
<1>2. Scheduler!TypeOK'
  BY DEF SchedulerInv, Scheduler!FlushesInOrder, Scheduler!TypeOK, Scheduler!StartFlush, Blocks
<1>3. Scheduler!Serialized' /\ LatestIsLast' /\ Scheduler!Armed' /\ TimerWaits'
  BY <1>1 DEF Scheduler!Serialized, LatestIsLast, Scheduler!Armed, TimerWaits, Scheduler!StartFlush
<1>4. Scheduler!InOrder'
  BY DEF SchedulerInv, Scheduler!FlushesInOrder, Scheduler!InOrder
<1> QED
  BY <1>2, <1>3, <1>4 DEF SchedulerInv, Scheduler!FlushesInOrder

\* The order of what is queued and executed depends on nothing else.
LEMMA OrderKept ==
  ASSUME SchedulerInv, UNCHANGED <<pipeline, sApplied>>
  PROVE  Ascending' /\ NoneSkipped' /\ Scheduler!InOrder'
BY DEF SchedulerInv, Scheduler!FlushesInOrder, Ascending, NoneSkipped, Scheduler!InOrder

LEMMA AddSetKeepsInv ==
  ASSUME SchedulerInv, Scheduler!AddSet
  PROVE  SchedulerInv'
<1> USE DEF Scheduler!AddSet, Scheduler!Flush, Scheduler!MayFlush, Scheduler!flushVars,
            Scheduler!redisVars, Scheduler!boundVars
<1>1. /\ scheduled' \in 0 .. MaxScheduled
      /\ pipeline' \in Seq(1 .. scheduled') /\ sApplied' \in Seq(1 .. scheduled')
      /\ wire' \in Seq(Blocks')
      /\ pipeline' # << >>
      /\ Ascending' /\ NoneSkipped'
      /\ \A i \in DOMAIN wire : Scheduler!IsPrefix(wire[i].batch, pipeline')
  BY QueueingKeepsOrder
<1>2. timer' \in BOOLEAN /\ timeout' \in BOOLEAN
  BY SchedulerTypes DEF Scheduler!TypeOK
<1>3. CASE Scheduler!StartFlush /\ ~flushing
  BY <1>1, <1>2, <1>3, SchedulerTypes, StartKeepsInv DEF Scheduler!TypeOK
<1>4. CASE UNCHANGED <<flushing, call, sRace, attempts>>
  <2>1. Scheduler!TypeOK'
    BY <1>1, <1>2, <1>4, SchedulerTypes DEF Scheduler!TypeOK, Blocks
  <2>2. Scheduler!Serialized'
    BY <1>1, <1>4 DEF SchedulerInv, Scheduler!FlushesInOrder, Scheduler!Serialized
  <2>3. Scheduler!InOrder' /\ LatestIsLast'
    BY <1>4 DEF SchedulerInv, Scheduler!FlushesInOrder, Scheduler!InOrder, LatestIsLast
  <2>4. TimerWaits' /\ Scheduler!Armed'
    <3>1. ~flushing => timer' /\ timeout'
      <4>1. ~flushing => ~(Len(pipeline') >= MaxBatch)
        BY <1>1, <1>4, SchedulerTypes DEF Scheduler!StartFlush, Scheduler!TypeOK
      <4> QED
        BY <4>1, SchedulerTypes DEF SchedulerInv, TimerWaits, Scheduler!TypeOK
    <3> QED
      BY <1>1, <1>4, <3>1 DEF TimerWaits, Scheduler!Armed
  <2> QED
    BY <1>1, <2>1, <2>2, <2>3, <2>4 DEF SchedulerInv, Scheduler!FlushesInOrder
<1> QED
  BY <1>3, <1>4

\* Whoever else calls flush(): the callback of the timer, the application, or
\* shutdown().
LEMMA FlushKeepsInv ==
  ASSUME SchedulerInv, Scheduler!TimerFires \/ Scheduler!FlushNow \/ Scheduler!Shutdown
  PROVE  SchedulerInv'
<1> USE DEF Scheduler!TimerFires, Scheduler!FlushNow, Scheduler!Shutdown, Scheduler!Flush,
            Scheduler!MayFlush, Scheduler!flushVars, Scheduler!redisVars, Scheduler!boundVars,
            Scheduler!queueVars
<1>1. /\ UNCHANGED <<scheduled, pipeline, timer, wire, sApplied, failures, sClears>>
      /\ timeout' \in BOOLEAN /\ stopping' \in {"no", "awaiting", "done"}
      /\ (~flushing /\ pipeline # << >> /\ Scheduler!StartFlush)
           \/ UNCHANGED <<flushing, call, sRace, attempts>>
  BY SchedulerTypes DEF Scheduler!TypeOK
<1>2. Ascending' /\ NoneSkipped' /\ Scheduler!InOrder'
  BY <1>1, OrderKept
<1>3. CASE ~flushing /\ pipeline # << >> /\ Scheduler!StartFlush
  BY <1>1, <1>2, <1>3, SchedulerTypes, StartKeepsInv DEF Scheduler!TypeOK, Blocks
<1>4. CASE UNCHANGED <<flushing, call, sRace, attempts>>
  <2>1. Scheduler!TypeOK'
    BY <1>1, <1>4, SchedulerTypes DEF Scheduler!TypeOK
  <2>2. Scheduler!Serialized' /\ LatestIsLast'
    BY <1>1, <1>4 DEF SchedulerInv, Scheduler!FlushesInOrder, Scheduler!Serialized, LatestIsLast
  <2>3. ~flushing => UNCHANGED timeout
    <3>1. ~Scheduler!StartFlush \/ flushing
      BY <1>4, SchedulerTypes DEF Scheduler!StartFlush, Scheduler!TypeOK
    <3> QED
      BY <3>1 DEF SchedulerInv, TimerWaits
  <2>4. TimerWaits' /\ Scheduler!Armed'
    BY <1>1, <1>4, <2>3 DEF SchedulerInv, Scheduler!FlushesInOrder, TimerWaits, Scheduler!Armed
  <2> QED
    BY <1>2, <2>1, <2>2, <2>4 DEF SchedulerInv, Scheduler!FlushesInOrder
<1> QED
  BY <1>1, <1>3, <1>4

LEMMA ExecKeepsSchedulerInv ==
  ASSUME SchedulerInv, Scheduler!Exec
  PROVE  SchedulerInv'
<1> USE DEF Scheduler!Exec, Scheduler!queueVars, Scheduler!boundVars
<1> DEFINE block == [batch |-> pipeline, attempt |-> attempts]
<1>1. /\ wire \in Seq(Blocks) /\ block \in Blocks /\ flushing /\ attempts \in Nat
      /\ pipeline \in Seq(1 .. scheduled)
  BY SchedulerTypes DEF Scheduler!TypeOK, Blocks
<1>2. /\ wire' \in Seq(Blocks) /\ Len(wire') = Len(wire) + 1
      /\ \A i \in 1 .. Len(wire) : wire'[i] = wire[i]
      /\ wire'[Len(wire) + 1] = block
      /\ DOMAIN wire = 1 .. Len(wire) /\ DOMAIN wire' = 1 .. Len(wire) + 1
      /\ Len(wire) \in Nat
  <2>1. wire' = Append(wire, block)
    OBVIOUS
  <2>2. /\ Append(wire, block) \in Seq(Blocks) /\ Len(Append(wire, block)) = Len(wire) + 1
        /\ \A i \in 1 .. Len(wire) : Append(wire, block)[i] = wire[i]
        /\ Append(wire, block)[Len(wire) + 1] = block
    BY <1>1, AppendProperties
  <2>3. DOMAIN wire' = 1 .. Len(wire) + 1
    BY <2>1, <2>2, LenProperties
  <2> QED
    BY <1>1, <2>1, <2>2, <2>3
<1>3. block.batch = pipeline /\ block.attempt = attempts
  OBVIOUS
<1> HIDE DEF block
<1>4. PICK n \in Nat : n = Len(wire)
  BY <1>2
<1>5. \A i \in 1 .. n + 1 : i \in 1 .. n \/ i = n + 1
  OBVIOUS
<1>6. Scheduler!TypeOK'
  BY <1>2, SchedulerTypes DEF Scheduler!TypeOK, Blocks
<1>7. Scheduler!Serialized'
  <2>1. Scheduler!IsPrefix(pipeline, pipeline)
    BY <1>1, PrefixElements
  <2>2. \A i \in 1 .. n : Scheduler!IsPrefix(wire[i].batch, pipeline) /\ wire[i].attempt <= attempts
    BY <1>2, <1>4 DEF SchedulerInv, Scheduler!FlushesInOrder, Scheduler!Serialized
  <2> QED
    BY <1>1, <1>2, <1>3, <1>4, <1>5, <2>1, <2>2 DEF Scheduler!Serialized
<1>8. LatestIsLast'
  <2>1. /\ \A i, j \in 1 .. n : i < j => wire[i].attempt < wire[j].attempt
        /\ \A i \in 1 .. n : wire[i].attempt < attempts
    BY <1>2, <1>4 DEF SchedulerInv, LatestIsLast
  <2>2. ASSUME NEW i \in 1 .. n + 1, NEW j \in 1 .. n + 1, i < j
        PROVE  wire'[i].attempt < wire'[j].attempt
    <3>1. i \in 1 .. n
      BY <2>2
    <3> QED
      BY <1>2, <1>3, <1>4, <1>5, <2>1, <2>2, <3>1
  <2> QED
    BY <1>2, <1>4, <2>2 DEF LatestIsLast
<1>9. Scheduler!Armed' /\ TimerWaits'
  BY <1>1 DEF Scheduler!Armed, TimerWaits
<1>10. Ascending' /\ NoneSkipped' /\ Scheduler!InOrder'
  BY OrderKept
<1> QED
  BY <1>6, <1>7, <1>8, <1>9, <1>10 DEF SchedulerInv, Scheduler!FlushesInOrder

\* An attempt loses its race, the next one begins, or timeouts are cleared: the
\* flush goes on.
LEMMA AttemptKeepsInv ==
  ASSUME SchedulerInv, Scheduler!AttemptTimesOut \/ Scheduler!RetryFires \/ Scheduler!ClearTimeouts
  PROVE  SchedulerInv'
<1> USE DEF Scheduler!AttemptTimesOut, Scheduler!Retry, Scheduler!RetryFires,
            Scheduler!ClearTimeouts, Scheduler!queueVars, Scheduler!boundVars, Scheduler!redisVars
<1>1. /\ attempts \in Nat /\ attempts' \in Nat
      /\ attempts' = attempts \/ (attempts' = attempts + 1 /\ call' = "starting")
      /\ attempts' = attempts => call' # "starting" \/ call = "starting"
  BY SchedulerTypes DEF Scheduler!TypeOK
<1>2. Scheduler!TypeOK'
  <2>1. failures' \in 0 .. MaxFailures /\ sClears' \in 0 .. MaxSchedulerClears
    <3>1. /\ failures \in Nat /\ MaxFailures \in Nat /\ sClears \in Nat /\ MaxSchedulerClears \in Nat
      BY SchedulerTypes, SchedulerConstants DEF Scheduler!TypeOK
    <3>2. failures' = failures \/ (failures < MaxFailures /\ failures' = failures + 1)
      OBVIOUS
    <3>3. sClears' = sClears \/ (sClears < MaxSchedulerClears /\ sClears' = sClears + 1)
      OBVIOUS
    <3>4. failures <= MaxFailures /\ sClears <= MaxSchedulerClears
      BY SchedulerTypes DEF Scheduler!TypeOK
    <3> QED
      BY <3>1, <3>2, <3>3, <3>4
  <2>2. /\ call' \in {"none", "starting", "racing", "waiting", "lost"}
        /\ flushing' <=> call' # "none"
        /\ sRace' \in BOOLEAN
    <3>1. /\ call \in {"none", "starting", "racing", "waiting", "lost"}
          /\ flushing <=> call # "none"
          /\ sRace \in BOOLEAN
      BY SchedulerTypes DEF Scheduler!TypeOK
    <3>2. CASE Scheduler!AttemptTimesOut
      BY <3>1, <3>2
    <3>3. CASE Scheduler!RetryFires
      BY <3>1, <3>3
    <3>4. CASE Scheduler!ClearTimeouts
      BY <3>1, <3>4
    <3> QED
      BY <3>2, <3>3, <3>4
  <2>3. UNCHANGED <<scheduled, pipeline, sApplied, timer, timeout, flushing, wire, stopping>>
    OBVIOUS
  <2> HIDE DEF Scheduler!AttemptTimesOut, Scheduler!RetryFires, Scheduler!ClearTimeouts
  <2> QED
    BY <1>1, <2>1, <2>2, <2>3, SchedulerTypes DEF Scheduler!TypeOK
<1>3. /\ wire \in Seq(Blocks) /\ \A i \in DOMAIN wire : wire[i].attempt \in Nat
  <2>1. wire \in Seq(Blocks)
    BY SchedulerTypes DEF Scheduler!TypeOK, Blocks
  <2>2. \A i \in DOMAIN wire : wire[i] \in Blocks
    BY <2>1
  <2> QED
    BY <2>1, <2>2 DEF Blocks
<1>4. UNCHANGED <<wire, pipeline, sApplied, flushing, timer, timeout>>
  OBVIOUS
<1>5. \A i \in DOMAIN wire : wire[i].attempt <= attempts
  BY DEF SchedulerInv, Scheduler!FlushesInOrder, Scheduler!Serialized
<1>6. Scheduler!Serialized'
  <2>1. \A i \in DOMAIN wire : wire[i].attempt <= attempts'
    BY <1>1, <1>3, <1>5
  <2> QED
    BY <1>4, <2>1 DEF SchedulerInv, Scheduler!FlushesInOrder, Scheduler!Serialized
<1>7. LatestIsLast'
  <2>1. call' = "starting" => \A i \in DOMAIN wire : wire[i].attempt < attempts'
    <3>1. CASE attempts' = attempts + 1
      BY <1>1, <1>3, <1>5, <3>1
    <3>2. CASE attempts' = attempts
      BY <1>1, <3>2 DEF SchedulerInv, LatestIsLast
    <3> QED
      BY <1>1, <3>1, <3>2
  <2> QED
    BY <1>4, <2>1 DEF SchedulerInv, LatestIsLast
<1>8. Scheduler!Armed' /\ TimerWaits'
  BY <1>4 DEF SchedulerInv, Scheduler!FlushesInOrder, Scheduler!Armed, TimerWaits
<1>9. Ascending' /\ NoneSkipped' /\ Scheduler!InOrder'
  BY <1>4, OrderKept
<1> QED
  BY <1>2, <1>6, <1>7, <1>8, <1>9 DEF SchedulerInv, Scheduler!FlushesInOrder

\* The oldest block leaves the wire; it is the last one if the latest attempt
\* sent it.
LEMMA TailOfWire ==
  ASSUME SchedulerInv, wire # << >>
  PROVE  /\ flushing
         /\ Tail(wire) \in Seq(Blocks)
         /\ \A i \in DOMAIN Tail(wire) : i + 1 \in DOMAIN wire /\ Tail(wire)[i] = wire[i + 1]
         /\ Scheduler!Answers(Head(wire)) => Tail(wire) = << >>
<1>1. wire \in Seq(Blocks) /\ attempts \in Nat
  BY SchedulerTypes DEF Scheduler!TypeOK, Blocks
<1>2. PICK n \in Nat : n + 1 = Len(wire) /\ DOMAIN wire = 1 .. n + 1
  <2>1. Len(wire) \in Nat /\ Len(wire) > 0 /\ DOMAIN wire = 1 .. Len(wire)
    BY <1>1, EmptySeq
  <2>2. Len(wire) - 1 \in Nat /\ (Len(wire) - 1) + 1 = Len(wire)
    BY <2>1
  <2> QED
    BY <2>1, <2>2
<1>3. /\ Tail(wire) \in Seq(Blocks) /\ Len(Tail(wire)) = n /\ DOMAIN Tail(wire) = 1 .. n
      /\ \A i \in 1 .. n : Tail(wire)[i] = wire[i + 1]
  <2>1. /\ Tail(wire) \in Seq(Blocks) /\ Len(Tail(wire)) = Len(wire) - 1
        /\ \A i \in 1 .. Len(Tail(wire)) : Tail(wire)[i] = wire[i + 1]
    BY <1>1, HeadTailProperties
  <2>2. Len(Tail(wire)) = n
    BY <1>2, <2>1
  <2> QED
    BY <2>1, <2>2, LenProperties
<1>4. \A i \in 1 .. n : i + 1 \in 1 .. n + 1
  OBVIOUS
<1>5. ASSUME Scheduler!Answers(Head(wire)) PROVE n = 0
  <2>1. wire[1].attempt = attempts
    BY <1>1, <1>5 DEF Scheduler!Answers
  <2>2. SUFFICES ASSUME n # 0 PROVE FALSE
    OBVIOUS
  <2>3. 1 \in 1 .. n + 1 /\ n + 1 \in 1 .. n + 1 /\ 1 < n + 1
    BY <2>2
  <2>4. wire[1].attempt < wire[n + 1].attempt /\ wire[n + 1].attempt <= attempts
    BY <1>2, <2>3 DEF SchedulerInv, LatestIsLast, Scheduler!FlushesInOrder, Scheduler!Serialized
  <2>5. wire[n + 1] \in Blocks
    BY <1>1, <1>2, <2>3
  <2>6. wire[n + 1].attempt \in Nat
    BY <2>5 DEF Blocks
  <2> QED
    BY <1>1, <2>1, <2>4, <2>6
<1> QED
  BY <1>2, <1>3, <1>4, <1>5, EmptySeq DEF SchedulerInv, Scheduler!FlushesInOrder, Scheduler!Serialized

\* The flush goes on after a reply.
LEMMA AnsweredKeepsInv ==
  ASSUME SchedulerInv, wire # << >>, wire' = Tail(wire),
         UNCHANGED <<scheduled, pipeline, timer, timeout, flushing, attempts, stopping, sClears>>,
         sApplied' \in Seq(1 .. scheduled), NoneSkipped', Scheduler!InOrder',
         call' \in {call, "waiting"}, sRace' \in BOOLEAN, failures' \in 0 .. MaxFailures
  PROVE  SchedulerInv'
<1>1. /\ flushing
      /\ Tail(wire) \in Seq(Blocks)
      /\ \A i \in DOMAIN Tail(wire) : i + 1 \in DOMAIN wire /\ Tail(wire)[i] = wire[i + 1]
  BY TailOfWire
<1>2. Scheduler!TypeOK'
  <2>1. /\ call' \in {"none", "starting", "racing", "waiting", "lost"}
        /\ flushing' <=> call' # "none"
    BY <1>1, SchedulerTypes DEF Scheduler!TypeOK
  <2> QED
    BY <1>1, <2>1, SchedulerTypes DEF Scheduler!TypeOK, Blocks
<1>3. Scheduler!Serialized'
  <2>1. \A i \in DOMAIN wire : Scheduler!IsPrefix(wire[i].batch, pipeline) /\ wire[i].attempt <= attempts
    BY DEF SchedulerInv, Scheduler!FlushesInOrder, Scheduler!Serialized
  <2> QED
    BY <1>1, <2>1 DEF Scheduler!Serialized
<1>4. LatestIsLast'
  <2>1. ASSUME NEW i \in DOMAIN wire', NEW j \in DOMAIN wire', i < j
        PROVE  wire'[i].attempt < wire'[j].attempt
    <3>1. /\ i + 1 \in DOMAIN wire /\ wire'[i] = wire[i + 1]
          /\ j + 1 \in DOMAIN wire /\ wire'[j] = wire[j + 1]
      BY <1>1
    <3>2. i + 1 < j + 1
      <4>1. i \in Nat /\ j \in Nat
        BY <1>1
      <4> QED
        BY <2>1, <4>1
    <3> QED
      BY <3>1, <3>2 DEF SchedulerInv, LatestIsLast
  <2>2. call' = "starting" => \A i \in DOMAIN wire' : wire'[i].attempt < attempts
    BY <1>1 DEF SchedulerInv, LatestIsLast
  <2> QED
    BY <2>1, <2>2 DEF LatestIsLast
<1>5. Scheduler!Armed' /\ TimerWaits' /\ Ascending'
  BY <1>1 DEF SchedulerInv, Scheduler!Armed, TimerWaits, Ascending
<1> QED
  BY <1>2, <1>3, <1>4, <1>5 DEF SchedulerInv, Scheduler!FlushesInOrder

\* The flush ends with a reply.
LEMMA FinishKeepsInv ==
  ASSUME SchedulerInv, wire' = << >>, Scheduler!Finish, UNCHANGED <<scheduled, failures, sClears>>,
         sApplied' \in Seq(1 .. scheduled), NoneSkipped', Scheduler!InOrder'
  PROVE  SchedulerInv'
<1> USE DEF Scheduler!Finish
<1>1. Scheduler!TypeOK'
  <2>1. pipeline' \in Seq(1 .. scheduled) /\ wire' \in Seq([batch: Seq(1 .. scheduled), attempt: Nat])
    OBVIOUS
  <2>2. /\ timer' \in BOOLEAN /\ timeout' \in BOOLEAN /\ flushing' \in BOOLEAN /\ sRace' \in BOOLEAN
        /\ call' \in {"none", "starting", "racing", "waiting", "lost"}
        /\ flushing' <=> call' # "none"
        /\ attempts' \in Nat
    OBVIOUS
  <2>3. stopping' \in {"no", "awaiting", "done"}
    BY SchedulerTypes DEF Scheduler!TypeOK
  <2> HIDE DEF Scheduler!Finish
  <2> QED
    BY <2>1, <2>2, <2>3, SchedulerTypes DEF Scheduler!TypeOK
<1>2. Scheduler!Serialized' /\ LatestIsLast' /\ Scheduler!Armed' /\ TimerWaits' /\ Ascending'
  BY DEF Scheduler!Serialized, LatestIsLast, Scheduler!Armed, TimerWaits, Ascending
<1> QED
  BY <1>1, <1>2 DEF SchedulerInv, Scheduler!FlushesInOrder

LEMMA ReplyOkKeepsInv ==
  ASSUME SchedulerInv, Scheduler!ReplyOk
  PROVE  SchedulerInv'
<1> USE DEF Scheduler!ReplyOk
<1>1. pipeline' \in {pipeline, << >>}
  BY DEF Scheduler!Finish, Scheduler!Unsettled
<1>2. sApplied' \in Seq(1 .. scheduled) /\ Scheduler!InOrder' /\ NoneSkipped'
  BY <1>1, ExecutingKeepsOrder
<1>3. CASE Scheduler!Answers(Head(wire))
  BY <1>2, <1>3, TailOfWire, FinishKeepsInv
<1>4. CASE ~Scheduler!Answers(Head(wire))
  <2>1. Scheduler!Unsettled
    BY <1>4
  <2> HIDE DEF Scheduler!ReplyOk
  <2>2. /\ wire # << >> /\ wire' = Tail(wire)
        /\ UNCHANGED <<scheduled, pipeline, timer, timeout, flushing, attempts, stopping, sClears>>
        /\ call' \in {call, "waiting"} /\ sRace' \in BOOLEAN /\ failures' \in 0 .. MaxFailures
    BY <2>1, SchedulerTypes DEF Scheduler!ReplyOk, Scheduler!Unsettled, Scheduler!TypeOK
  <2> QED
    BY <1>2, <2>2, AnsweredKeepsInv
<1> QED
  BY <1>3, <1>4

LEMMA ReplyErrorKeepsInv ==
  ASSUME SchedulerInv, Scheduler!ReplyError
  PROVE  SchedulerInv'
<1>1. /\ wire # << >> /\ wire' = Tail(wire)
      /\ UNCHANGED <<scheduled, pipeline, timer, timeout, flushing, attempts, stopping, sClears>>
      /\ call' \in {call, "waiting"} /\ sRace' \in BOOLEAN /\ failures' \in 0 .. MaxFailures
  <2>1. failures \in Nat /\ MaxFailures \in Nat /\ sRace \in BOOLEAN /\ failures <= MaxFailures
    BY SchedulerTypes, SchedulerConstants DEF Scheduler!TypeOK
  <2>2. CASE Scheduler!Answers(Head(wire))
    <3>1. Scheduler!Retry /\ UNCHANGED <<pipeline, flushing, timer, timeout, attempts, stopping>>
      BY <2>2 DEF Scheduler!ReplyError
    <3>2. failures' \in 0 .. MaxFailures
      BY <2>1, <3>1 DEF Scheduler!Retry
    <3> QED
      BY <3>1, <3>2 DEF Scheduler!ReplyError, Scheduler!Retry
  <2>3. CASE ~Scheduler!Answers(Head(wire))
    <3>1. Scheduler!Unsettled /\ UNCHANGED failures
      BY <2>3 DEF Scheduler!ReplyError
    <3>2. failures' \in 0 .. MaxFailures
      BY <2>1, <3>1
    <3> QED
      BY <2>1, <3>1, <3>2 DEF Scheduler!ReplyError, Scheduler!Unsettled
  <2> QED
    BY <2>2, <2>3
<1>2. sApplied' \in Seq(1 .. scheduled) /\ Scheduler!InOrder' /\ NoneSkipped'
  <2>1. CASE UNCHANGED sApplied
    BY <1>1, <2>1, OrderKept, SchedulerTypes DEF Scheduler!TypeOK
  <2>2. CASE sApplied' = sApplied \o Scheduler!NotYetApplied(Head(wire).batch)
    BY <1>1, <2>2, ExecutingKeepsOrder
  <2> QED
    BY <2>1, <2>2 DEF Scheduler!ReplyError
<1> QED
  BY <1>1, <1>2, AnsweredKeepsInv

LEMMA SchedulerInvInit == Scheduler!Init => SchedulerInv
<1> SUFFICES ASSUME Scheduler!Init PROVE SchedulerInv
  OBVIOUS
<1> USE DEF Scheduler!Init
<1>1. Scheduler!TypeOK
  <2>1. 0 \in 0 .. MaxScheduled /\ 0 \in 0 .. MaxFailures /\ 0 \in 0 .. MaxSchedulerClears
    BY SchedulerConstants
  <2>2. \A S : << >> \in Seq(S)
    BY EmptySeq
  <2>3. flushing <=> call # "none"
    OBVIOUS
  <2> QED
    BY <2>1, <2>2, <2>3 DEF Scheduler!TypeOK
<1>2. Scheduler!Armed /\ Scheduler!Serialized /\ Scheduler!InOrder
  BY DEF Scheduler!Armed, Scheduler!Serialized, Scheduler!InOrder
<1>3. Ascending /\ NoneSkipped /\ LatestIsLast /\ TimerWaits
  BY DEF Ascending, NoneSkipped, LatestIsLast, TimerWaits
<1> QED
  BY <1>1, <1>2, <1>3 DEF SchedulerInv, Scheduler!FlushesInOrder

LEMMA SchedulerInvInductive == SchedulerInv /\ [Scheduler!Next]_schedulerVars => SchedulerInv'
<1> SUFFICES ASSUME SchedulerInv, [Scheduler!Next]_schedulerVars PROVE SchedulerInv'
  OBVIOUS
<1>1. CASE Scheduler!AddSet
  BY <1>1, AddSetKeepsInv
<1>2. CASE Scheduler!TimerFires \/ Scheduler!FlushNow \/ Scheduler!Shutdown
  BY <1>2, FlushKeepsInv
<1>3. CASE Scheduler!Exec
  BY <1>3, ExecKeepsSchedulerInv
<1>4. CASE Scheduler!AttemptTimesOut \/ Scheduler!RetryFires \/ Scheduler!ClearTimeouts
  BY <1>4, AttemptKeepsInv
<1>5. CASE Scheduler!ReplyOk
  BY <1>5, ReplyOkKeepsInv
<1>6. CASE Scheduler!ReplyError
  BY <1>6, ReplyErrorKeepsInv
<1>7. CASE UNCHANGED schedulerVars
  BY <1>7 DEF schedulerVars, SchedulerInv, Scheduler!FlushesInOrder, Scheduler!TypeOK,
              Scheduler!Armed, Scheduler!Serialized, Scheduler!InOrder, Ascending, NoneSkipped,
              LatestIsLast, TimerWaits
<1> QED
  BY <1>1, <1>2, <1>3, <1>4, <1>5, <1>6, <1>7 DEF Scheduler!Next

LEMMA SchedulerSteps == RedisSpec => Scheduler!Init /\ [][[Scheduler!Next]_schedulerVars]_allVars
<1>1. RedisInit => Scheduler!Init
  BY DEF RedisInit
<1>2. [RedisNext]_allVars => [[Scheduler!Next]_schedulerVars]_allVars
  BY DEF RedisNext, allVars, Retrying, Scheduling
<1> QED
  BY <1>1, <1>2, PTL DEF RedisSpec

LEMMA SchedulerInvHolds == RedisSpec => []SchedulerInv
<1>1. SchedulerInv /\ [[Scheduler!Next]_schedulerVars]_allVars => SchedulerInv'
  <2>1. UNCHANGED allVars => UNCHANGED schedulerVars
    BY DEF allVars
  <2> QED
    BY <2>1, SchedulerInvInductive
<1> QED
  BY <1>1, SchedulerInvInit, SchedulerSteps, PTL

\* For any batch size, any number of commands, failures and cleared timeouts:
\* one flush at a time sends what is queued, Redis first executes the commands
\* in the order they were scheduled in, and what is queued has something to
\* send it.
THEOREM SchedulerFlushesInOrder == RedisSpec => []FlushesInOrder
<1>1. SchedulerInv => FlushesInOrder
  BY DEF SchedulerInv, FlushesInOrder
<1> QED
  BY <1>1, SchedulerInvHolds, PTL

\* A flush ends with everything its last attempt sent executed and nothing of
\* it left on the wire, however many attempts were abandoned before.
THEOREM FlushEndsApplied == RedisSpec => SentIsApplied
<1>1. ASSUME SchedulerInv, [Scheduler!Next]_schedulerVars, flushing, ~flushing'
      PROVE  /\ Scheduler!ToSet(Head(wire).batch) \subseteq Scheduler!ToSet(sApplied')
             /\ wire' = << >>
  <2>1. Scheduler!ReplyOk /\ Scheduler!Answers(Head(wire))
    BY <1>1 DEF schedulerVars, Scheduler!Next, Scheduler!AddSet, Scheduler!TimerFires,
         Scheduler!FlushNow, Scheduler!Shutdown, Scheduler!Flush, Scheduler!StartFlush,
         Scheduler!Exec, Scheduler!AttemptTimesOut, Scheduler!RetryFires, Scheduler!ReplyOk,
         Scheduler!ReplyError, Scheduler!ClearTimeouts, Scheduler!Unsettled, Scheduler!flushVars
  <2>2. wire # << >> /\ wire' = Tail(wire) /\ pipeline' = << >>
        /\ UNCHANGED scheduled /\ sApplied' = sApplied \o Scheduler!NotYetApplied(Head(wire).batch)
    BY <2>1 DEF Scheduler!ReplyOk, Scheduler!Finish
  <2>3. wire' = << >>
    BY <1>1, <2>1, <2>2, TailOfWire
  <2>4. \A j \in DOMAIN Head(wire).batch :
          \E k \in DOMAIN sApplied' : sApplied'[k] = Head(wire).batch[j]
    BY <1>1, <2>2, ExecutingKeepsOrder
  <2> QED
    BY <2>3, <2>4 DEF Scheduler!ToSet
<1>2. SchedulerInv /\ [[Scheduler!Next]_schedulerVars]_allVars
        => [flushing /\ ~flushing'
              => Scheduler!ToSet(Head(wire).batch) \subseteq Scheduler!ToSet(sApplied')
                 /\ wire' = << >>]_(Scheduler!vars)
  <2>1. UNCHANGED allVars => UNCHANGED schedulerVars
    BY DEF allVars
  <2> QED
    BY <1>1, <2>1
<1> QED
  BY <1>2, SchedulerSteps, SchedulerInvHolds, PTL DEF SentIsApplied, Scheduler!SentIsApplied
=============================================================================
