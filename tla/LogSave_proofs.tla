--------------------------- MODULE LogSave_proofs ---------------------------
(***************************************************************************)
(* Proofs about BulkBuffer and LogSave, for every set of items, threshold  *)
(* and interval.                                                           *)
(*                                                                         *)
(* The buffer.  The inductive invariant is the type, the threshold and the *)
(* agreement of batch, handle and timeout; all it takes besides is that an *)
(* empty batch has no age.                                                 *)
(*                                                                         *)
(* The adapter.  Every step of it is one of its buffer.  No log is in two  *)
(* places: collected, in one of the flights, or indexed.                   *)
(***************************************************************************)
EXTENDS LogSave, TLAPS

EmptyHasNoAge == open /\ items = << >> => age = 0

Inv == TypeOK /\ Bounded /\ TimerOfBatch /\ EmptyHasNoAge

\* A flush of a batch that keeps the types keeps the whole invariant.
LEMMA HandOverKeepsInv ==
    ASSUME Inv, open, open' = open,
           NEW batch \in Seq(Items), NEW awaited \in BOOLEAN,
           NEW running \in SUBSET timeouts,
           handle \/ running = {},
           HandOver(batch, awaited, running)
    PROVE  Inv'
<1>1. TypeOK'
  <2>1. items' \in Seq(Items) /\ sunk' \in Seq(Items)
    BY DEF Inv, TypeOK, HandOver
  <2>2. flights' \subseteq [batch: Seq(Items), awaited: BOOLEAN]
    BY DEF Inv, TypeOK, HandOver
  <2>3. timeouts' = {} /\ handle' = FALSE /\ age' = 0
    BY DEF HandOver, ClearTimer
  <2>4. open' \in BOOLEAN
    BY DEF Inv, TypeOK
  <2> QED BY <2>1, <2>2, <2>3, <2>4 DEF TypeOK
<1>2. Bounded'
  BY BulkBufferConstants DEF HandOver, Bounded
<1>3. TimerOfBatch' /\ EmptyHasNoAge'
  BY DEF TimerOfBatch, EmptyHasNoAge, HandOver, ClearTimer
<1> QED BY <1>1, <1>2, <1>3 DEF Inv

LEMMA FlushBatchKeepsInv ==
    ASSUME Inv, open, open' = open,
           NEW awaited \in BOOLEAN, NEW running \in SUBSET timeouts,
           FlushBatch(awaited, running)
    PROVE  Inv'
<1>1. CASE items = << >>
  <2>1. timeouts = {} /\ running = {} /\ ~handle
    BY <1>1 DEF Inv, TimerOfBatch
  <2> QED
    BY <1>1, <2>1 DEF FlushBatch, Inv, TypeOK, Bounded, TimerOfBatch, EmptyHasNoAge
<1>2. CASE items # << >>
  <2>1. handle /\ items \in Seq(Items)
    BY <1>2 DEF Inv, TypeOK, TimerOfBatch
  <2> QED BY <1>2, <2>1, HandOverKeepsInv DEF FlushBatch
<1> QED BY <1>1, <1>2

LEMMA BufferKeepsInv ==
    ASSUME Inv, open, open' = open, NEW item \in Items, Buffer(item)
    PROVE  Inv'
<1> USE DEF Inv
<1>1. items' \in Seq(Items) /\ Len(items') = Len(items) + 1 /\ items' # << >>
  BY DEF TypeOK, Buffer
<1>2. Bounded'
  BY <1>1, BulkBufferConstants DEF Bounded, Buffer, Full
<1>3. timeouts' = {FlushInterval - age}
  <2>1. CASE handle
    BY <2>1 DEF TimerOfBatch, Buffer
  <2>2. CASE ~handle
    <3>1. items = << >> /\ timeouts = {}
      BY <2>2 DEF TimerOfBatch
    <3>2. age = 0
      BY <3>1 DEF EmptyHasNoAge
    <3> QED BY <2>2, <3>1, <3>2, BulkBufferConstants DEF Buffer
  <2> QED BY <2>1, <2>2
<1>4. TimerOfBatch' /\ EmptyHasNoAge'
  BY <1>1, <1>3 DEF TimerOfBatch, EmptyHasNoAge, Buffer
<1>5. timeouts' \in SUBSET Nat
  BY BulkBufferConstants DEF TypeOK, Buffer
<1>6. TypeOK'
  BY <1>1, <1>3, <1>5 DEF TypeOK, Buffer
<1> QED BY <1>2, <1>4, <1>6

LEMMA TickKeepsInv == Inv /\ Tick => Inv'
<1> SUFFICES ASSUME Inv, Tick PROVE Inv'
  OBVIOUS
<1>1. items # << >> /\ timeouts = {FlushInterval - age}
  BY DEF Inv, TimerOfBatch, Tick
<1>2. age' = age + 1 /\ timeouts' = {(FlushInterval - age) - 1}
  BY <1>1 DEF Tick
<1>3. (FlushInterval - age) - 1 \in Nat
  BY <1>1 DEF Inv, TypeOK, Tick
<1>4. (FlushInterval - age) - 1 = FlushInterval - (age + 1)
  BY BulkBufferConstants DEF Inv, TypeOK
<1>5. TypeOK'
  BY <1>2, <1>3 DEF Inv, TypeOK, Tick
<1>6. TimerOfBatch' /\ EmptyHasNoAge'
  BY <1>1, <1>2, <1>4 DEF Inv, TimerOfBatch, EmptyHasNoAge, Tick
<1> QED BY <1>5, <1>6 DEF Inv, Bounded, Tick

LEMMA StopKeepsInv ==
    ASSUME Inv, open' = FALSE, items' = << >>, flights' \subseteq flights,
           UNCHANGED <<handle, timeouts, sunk, age>>
    PROVE  Inv'
<1>1. TypeOK'
  <2>1. items' \in Seq(Items)
    OBVIOUS
  <2>2. open' \in BOOLEAN
    OBVIOUS
  <2> QED BY <2>1, <2>2 DEF Inv, TypeOK
<1>2. Bounded'
  BY BulkBufferConstants DEF Bounded
<1>3. TimerOfBatch' /\ EmptyHasNoAge'
  BY DEF TimerOfBatch, EmptyHasNoAge
<1> QED BY <1>1, <1>2, <1>3 DEF Inv

LEMMA InvInductive == Inv /\ [Next]_vars => Inv'
<1> SUFFICES ASSUME Inv, [Next]_vars PROVE Inv'
  OBVIOUS
<1>1. ASSUME NEW item \in Items, Push(item) PROVE Inv'
  <2>1. CASE Buffer(item)
    BY <1>1, <2>1, BufferKeepsInv DEF Push
  <2>2. CASE HandOver(Append(items, item), FALSE, timeouts)
    <3>1. Append(items, item) \in Seq(Items)
      BY DEF Inv, TypeOK
    <3>2. handle \/ timeouts = {}
      BY <1>1 DEF Inv, TimerOfBatch, Push
    <3> QED BY <1>1, <2>2, <3>1, <3>2, HandOverKeepsInv DEF Push
  <2> QED BY <1>1, <2>1, <2>2 DEF Push
<1>2. CASE Flush
  BY <1>2, FlushBatchKeepsInv DEF Flush
<1>3. CASE TimerFires
  BY <1>3, FlushBatchKeepsInv DEF TimerFires
<1>4. CASE Tick
  BY <1>4, TickKeepsInv
<1>5. CASE Exit
  BY <1>5, StopKeepsInv DEF Exit
<1>6. ASSUME NEW flight \in flights, Settle(flight) PROVE Inv'
  <2>1. flights' \subseteq flights
    BY <1>6 DEF Settle
  <2>2. CASE UNCHANGED <<items, open>>
    BY <1>6, <2>1, <2>2 DEF Inv, TypeOK, Bounded, TimerOfBatch, EmptyHasNoAge, Settle
  <2>3. CASE open' = FALSE /\ items' = << >>
    BY <1>6, <2>1, <2>3, StopKeepsInv DEF Settle
  <2> QED BY <1>6, <2>2, <2>3 DEF Settle
<1>7. CASE UNCHANGED vars
  BY <1>7 DEF Inv, TypeOK, Bounded, TimerOfBatch, EmptyHasNoAge, vars
<1> QED BY <1>1, <1>2, <1>3, <1>4, <1>5, <1>6, <1>7 DEF Next

LEMMA InvInit == Init => Inv
<1> SUFFICES ASSUME Init PROVE Inv
  OBVIOUS
<1>1. TypeOK
  <2>1. items \in Seq(Items) /\ sunk \in Seq(Items) /\ flights = {} /\ timeouts = {}
    BY DEF Init
  <2>2. handle \in BOOLEAN /\ open \in BOOLEAN /\ age \in Nat
    BY DEF Init
  <2> QED BY <2>1, <2>2 DEF TypeOK
<1>2. Bounded
  BY BulkBufferConstants DEF Init, Bounded
<1>3. TimerOfBatch /\ EmptyHasNoAge
  BY DEF Init, TimerOfBatch, EmptyHasNoAge
<1> QED BY <1>1, <1>2, <1>3 DEF Inv

LEMMA InvHolds == Spec => []Inv
BY InvInit, InvInductive, PTL DEF Spec

\* A batch and its timeout, whatever is pushed and flushed while they overlap.
THEOREM BatchesHaveTheirTimer == Spec => []OneTimerPerBatch
<1>1. Inv => OneTimerPerBatch
  BY DEF Inv, OneTimerPerBatch
<1> QED BY <1>1, InvHolds, PTL

----------------------------------------------------------------------------
(* BulkBuffer implements BatchSink. *)

\* The hand-over of the whole buffer is Hand; with one more item, it is
\* AcceptAndHand.
LEMMA FlushRefines ==
    ASSUME Inv, open, open' = open, NEW awaited, NEW running,
           FlushBatch(awaited, running)
    PROVE  Sink!Hand \/ UNCHANGED Sink!vars
BY DEF FlushBatch, HandOver, Sink!Hand, Sink!vars

LEMMA StepRefines == Inv /\ [Next]_vars => [Sink!Next]_(Sink!vars)
<1> SUFFICES ASSUME Inv, [Next]_vars PROVE [Sink!Next]_(Sink!vars)
  OBVIOUS
<1> USE DEF Sink!Next
<1>1. ASSUME NEW item \in Items, Push(item) PROVE Sink!Next
  <2>1. Sink!Fresh(item)
    BY <1>1 DEF Push, Sink!Fresh, ToSet, Sink!ToSet
  <2>2. CASE Buffer(item)
    <3>1. Sink!Accept(item)
      BY <1>1, <2>1, <2>2 DEF Push, Buffer, Sink!Accept
    <3> QED BY <3>1
  <2>3. CASE HandOver(Append(items, item), FALSE, timeouts)
    <3>1. Sink!AcceptAndHand(item)
      BY <1>1, <2>1, <2>3 DEF Push, HandOver, Sink!AcceptAndHand
    <3> QED BY <3>1
  <2> QED BY <1>1, <2>2, <2>3 DEF Push
<1>2. CASE Flush
  BY <1>2, FlushRefines DEF Flush
<1>3. CASE TimerFires
  BY <1>3, FlushRefines DEF TimerFires
<1>4. CASE Tick
  BY <1>4 DEF Tick, Sink!vars
<1>5. CASE Exit
  BY <1>5 DEF Exit, Sink!Stop
<1>6. ASSUME NEW flight \in flights, Settle(flight) PROVE Sink!Stop \/ UNCHANGED Sink!vars
  BY <1>6 DEF Settle, Sink!Stop, Sink!vars
<1>7. CASE UNCHANGED vars
  BY <1>7 DEF vars, Sink!vars
<1> QED BY <1>1, <1>2, <1>3, <1>4, <1>5, <1>6, <1>7 DEF Next

\* Every step of push(), flush(), the timer and the settling of onFlush is a
\* step of the sink contract: each item is handed over once and in order.
THEOREM ImplementsSink == Spec => HandsOverOnce
<1>1. Init => Sink!Init
  BY DEF Init, Sink!Init
<1> QED BY <1>1, InvHolds, StepRefines, PTL DEF Spec, HandsOverOnce

-----------------------------------------------------------------------------
(***************************************************************************)
(* Logs.  An item is in the batch being collected, in one flight or in the *)
(* index, never in two of them: what is indexed left its flight, whatever  *)
(* became of the request.  With indexInitialize a flight only writes to an *)
(* index that exists.                                                      *)
(***************************************************************************)
LogTyped ==
    /\ initialize \in BOOLEAN /\ index \in {"none", "configured", "dynamic"}
    /\ stage \in [flights -> {"head", "put", "bulk"}]
    /\ indexed \in Seq(Items)

Collecting == IsInjective(items) /\ ToSet(items) \cap ToSet(sunk) = {}

Flying ==
    \A f \in flights :
      /\ f.batch # << >> /\ IsInjective(f.batch) /\ ToSet(f.batch) \subseteq ToSet(sunk)
      /\ ToSet(indexed) \cap ToSet(f.batch) = {}
      /\ \A g \in flights \ {f} : ToSet(f.batch) \cap ToSet(g.batch) = {}

Indexing == IsInjective(indexed) /\ ToSet(indexed) \subseteq ToSet(sunk)

Configuring ==
    initialize => /\ index # "dynamic"
                  /\ \A f \in flights : stage[f] = "bulk" => index # "none"

LogInv == LogTyped /\ Collecting /\ Flying /\ Indexing /\ Configuring

\* What sequences hold when they are joined.
LEMMA JoinFacts ==
  ASSUME NEW S, NEW s \in Seq(S), NEW t \in Seq(S)
  PROVE  /\ s \o t \in Seq(S) /\ ToSet(s \o t) = ToSet(s) \cup ToSet(t)
         /\ IsInjective(s) /\ IsInjective(t) /\ ToSet(s) \cap ToSet(t) = {} => IsInjective(s \o t)
<1> DEFINE j == s \o t
<1>1. /\ j \in Seq(S) /\ Len(s) \in Nat /\ Len(t) \in Nat
      /\ DOMAIN j = 1 .. Len(s) + Len(t) /\ DOMAIN s = 1 .. Len(s) /\ DOMAIN t = 1 .. Len(t)
      /\ \A i \in 1 .. Len(s) : j[i] = s[i]
      /\ \A i \in 1 .. Len(t) : j[Len(s) + i] = t[i]
  OBVIOUS
<1> HIDE DEF j
<1>2. \A i \in DOMAIN j : \/ i \in DOMAIN s /\ j[i] = s[i]
                          \/ i - Len(s) \in DOMAIN t /\ j[i] = t[i - Len(s)] /\ i \notin DOMAIN s
  <2> SUFFICES ASSUME NEW i \in DOMAIN j, i \notin DOMAIN s
               PROVE  i - Len(s) \in DOMAIN t /\ j[i] = t[i - Len(s)]
    BY <1>1
  <2>1. i - Len(s) \in 1 .. Len(t) /\ i = Len(s) + (i - Len(s))
    BY <1>1
  <2> QED
    BY <1>1, <2>1
<1>3. ToSet(j) = ToSet(s) \cup ToSet(t)
  <2>1. ToSet(j) \subseteq ToSet(s) \cup ToSet(t)
    BY <1>2 DEF ToSet
  <2>2. \A i \in DOMAIN s : i \in DOMAIN j /\ j[i] = s[i]
    BY <1>1
  <2>3. \A i \in DOMAIN t : Len(s) + i \in DOMAIN j /\ j[Len(s) + i] = t[i]
    BY <1>1
  <2> QED
    BY <2>1, <2>2, <2>3 DEF ToSet
<1>4. ASSUME IsInjective(s), IsInjective(t), ToSet(s) \cap ToSet(t) = {}
      PROVE  IsInjective(j)
  <2> SUFFICES ASSUME NEW a \in DOMAIN j, NEW b \in DOMAIN j, j[a] = j[b]
               PROVE  a = b
    BY DEF IsInjective
  <2>1. \A x \in DOMAIN s, y \in DOMAIN t : s[x] # t[y]
    BY <1>4 DEF ToSet
  <2>2. CASE a \in DOMAIN s /\ b \in DOMAIN s
    BY <1>2, <1>4, <2>2 DEF IsInjective
  <2>3. CASE a \notin DOMAIN s /\ b \notin DOMAIN s
    <3>1. a - Len(s) = b - Len(s)
      BY <1>2, <1>4, <2>3 DEF IsInjective
    <3> QED
      BY <1>1, <3>1
  <2> QED
    BY <1>2, <2>1, <2>2, <2>3
<1> QED
  BY <1>1, <1>3, <1>4 DEF j

LEMMA AppendFacts ==
  ASSUME NEW S, NEW s \in Seq(S), NEW x \in S
  PROVE  /\ Append(s, x) \in Seq(S) /\ Append(s, x) # << >> /\ ToSet(Append(s, x)) = ToSet(s) \cup {x}
         /\ IsInjective(s) /\ x \notin ToSet(s) => IsInjective(Append(s, x))
<1> DEFINE one == <<x>>
<1>1. one \in Seq(S) /\ ToSet(one) = {x} /\ IsInjective(one)
  BY DEF ToSet, IsInjective
<1>2. Append(s, x) = s \o one /\ Append(s, x) # << >>
  OBVIOUS
<1> HIDE DEF one
<1>3. ToSet(s \o one) = ToSet(s) \cup {x} /\ s \o one \in Seq(S)
  BY <1>1, JoinFacts
<1>4. IsInjective(s) /\ x \notin ToSet(s) => IsInjective(s \o one)
  BY <1>1, JoinFacts
<1> QED
  BY <1>2, <1>3, <1>4

\* The documents a bulk request accepts are documents of the batch, once each.
LEMMA AcceptedFacts ==
  ASSUME NEW f, f.batch \in Seq(Items), IsInjective(f.batch), NEW accepted \in Accepted(f)
  PROVE  accepted \in Seq(Items) /\ ToSet(accepted) \subseteq ToSet(f.batch) /\ IsInjective(accepted)
<1>0. PICK n \in 0 .. Len(f.batch) : \E place \in [1 .. n -> DOMAIN f.batch] :
        /\ \A i, j \in DOMAIN place : i < j => place[i] < place[j]
        /\ accepted = [i \in DOMAIN place |-> f.batch[place[i]]]
  BY DEF Accepted
<1>1. PICK place \in [1 .. n -> DOMAIN f.batch] :
        /\ \A i, j \in DOMAIN place : i < j => place[i] < place[j]
        /\ accepted = [i \in DOMAIN place |-> f.batch[place[i]]]
  BY <1>0
<1>2. /\ n \in Nat /\ DOMAIN accepted = 1 .. n
      /\ \A i \in 1 .. n : accepted[i] = f.batch[place[i]] /\ place[i] \in DOMAIN f.batch
      /\ accepted = [i \in 1 .. n |-> f.batch[place[i]]]
  BY <1>1
<1>3. \A i \in DOMAIN f.batch : f.batch[i] \in Items
  OBVIOUS
<1>4. accepted \in Seq(Items)
  BY <1>2, <1>3
<1>5. ToSet(accepted) \subseteq ToSet(f.batch)
  BY <1>2 DEF ToSet
<1>6. ASSUME NEW i \in 1 .. n, NEW j \in 1 .. n, accepted[i] = accepted[j]
      PROVE  i = j
  <2>1. place[i] = place[j]
    BY <1>2, <1>6 DEF IsInjective
  <2>2. i \in DOMAIN place /\ j \in DOMAIN place /\ i \in Int /\ j \in Int
    BY <1>1, <1>2
  <2>3. ~(place[i] < place[j]) /\ ~(place[j] < place[i])
    <3>1. place[i] \in Int
      BY <1>2
    <3> QED
      BY <2>1, <3>1
  <2>4. ~(i < j) /\ ~(j < i)
    BY <1>1, <2>2, <2>3
  <2> QED
    BY <2>2, <2>4
<1> QED
  BY <1>2, <1>4, <1>5, <1>6 DEF IsInjective

-----------------------------------------------------------------------------
\* A step of the adapter is a step of its buffer.
LEMMA LogStepIsBufferStep == [LogNext]_allVars => [Next]_vars
<1> SUFFICES ASSUME [LogNext]_allVars PROVE [Next]_vars
  OBVIOUS
<1>1. ASSUME NEW f \in flights, Request(f)
      PROVE  [Next]_vars
  <2>1. Settled(f) \/ UNCHANGED vars
    BY <1>1 DEF Request, EnsureIndex, CreateIndex, Post, Continue, Report
  <2>2. CASE Settled(f)
    BY <1>1, <2>2 DEF Request, Settled, Next, Settle
  <2> QED
    BY <2>1, <2>2
<1>2. CASE \E item \in Items : Save(item)
  BY <1>2 DEF Save, Next
<1>3. CASE Timers \/ FlushOrExit \/ OtherCreates
  BY <1>3 DEF Timers, FlushOrExit, OtherCreates, Next
<1>4. CASE UNCHANGED allVars
  BY <1>4 DEF allVars
<1> QED
  BY <1>1, <1>2, <1>3, <1>4 DEF LogNext

LEMMA LogInitInv == LogInit => LogInv
<1> SUFFICES ASSUME LogInit PROVE LogInv
  OBVIOUS
<1>1. items = << >> /\ sunk = << >> /\ flights = {} /\ indexed = << >> /\ stage = << >>
  BY DEF LogInit, Init
<1>2. ToSet(<< >>) = {} /\ IsInjective(<< >>)
  BY DEF ToSet, IsInjective
<1>3. stage \in [flights -> {"head", "put", "bulk"}]
  BY <1>1
<1>4. LogTyped
  BY <1>1, <1>3 DEF LogInit, LogTyped
<1> QED
  BY <1>1, <1>2, <1>4 DEF LogInit, LogInv, Collecting, Flying, Indexing, Configuring

\* A batch that is handed over becomes a flight.
LEMMA HandOverKeepsLogs ==
  ASSUME Inv, LogInv, NEW batch \in Seq(Items), batch # << >>, IsInjective(batch),
         ToSet(batch) \cap ToSet(sunk) = {}, NEW awaited \in BOOLEAN, NEW running,
         HandOver(batch, awaited, running), Quietly
  PROVE  LogInv'
<1> USE DEF LogInv
<1> DEFINE new == [batch |-> batch, awaited |-> awaited]
<1>1. /\ sunk' = sunk \o batch /\ flights' = flights \cup {new} /\ items' = << >>
      /\ new.batch = batch
      /\ UNCHANGED <<initialize, index, indexed>>
  BY DEF HandOver, Quietly
<1>2. ToSet(sunk') = ToSet(sunk) \cup ToSet(batch)
  BY <1>1, JoinFacts DEF Inv, TypeOK
<1>3. stage' = [f \in flights' |-> IF f \in flights THEN stage[f] ELSE IF initialize THEN "head" ELSE "bulk"]
  BY DEF Quietly, BulkIndex, LogTyped
<1> HIDE DEF new
<1>4. LogTyped'
  BY <1>1, <1>3 DEF LogTyped
<1>5. Collecting'
  BY <1>1 DEF Collecting, ToSet, IsInjective
<1>6. Indexing'
  BY <1>1, <1>2 DEF Indexing
<1>7. Flying'
  <2>1. ASSUME NEW f \in flights
        PROVE  ToSet(f.batch) \cap ToSet(new.batch) = {}
    BY <1>1 DEF Flying
  <2>2. ToSet(indexed') \cap ToSet(new.batch) = {}
    BY <1>1 DEF Indexing
  <2> QED
    BY <1>1, <1>2, <2>1, <2>2 DEF Flying
<1>8. Configuring'
  BY <1>1, <1>3 DEF Configuring
<1> QED
  BY <1>4, <1>5, <1>6, <1>7, <1>8

LEMMA FlushKeepsLogs ==
  ASSUME Inv, LogInv, NEW awaited \in BOOLEAN, NEW running, FlushBatch(awaited, running), Quietly
  PROVE  LogInv'
<1>1. CASE items = << >>
  <2>1. UNCHANGED <<items, flights, sunk, initialize, index, indexed>>
    BY <1>1 DEF FlushBatch, Quietly
  <2>2. stage' = stage
    BY <2>1 DEF Quietly, BulkIndex, LogInv, LogTyped
  <2> QED
    BY <2>1, <2>2 DEF LogInv, LogTyped, Collecting, Flying, Indexing, Configuring
<1>2. CASE items # << >>
  BY <1>2, HandOverKeepsLogs DEF FlushBatch, Inv, TypeOK, LogInv, Collecting
<1> QED
  BY <1>1, <1>2

\* A flight ends, and some of its logs, or none, are now in the index.
LEMMA SettledKeepsLogs ==
  ASSUME Inv, LogInv, NEW f \in flights, Settled(f),
         indexed' \in Seq(Items), IsInjective(indexed'),
         ToSet(indexed') \subseteq ToSet(indexed) \cup ToSet(f.batch),
         index' \in {"none", "configured", "dynamic"}, index' = "none" => index = "none",
         initialize /\ index' = "dynamic" => index = "dynamic"
  PROVE  LogInv'
<1> USE DEF LogInv
<1>1. /\ flights' = flights \ {f} /\ stage' = [g \in flights' |-> stage[g]]
      /\ UNCHANGED <<items, sunk, initialize>>
  BY DEF Settled
<1>2. LogTyped'
  BY <1>1 DEF LogTyped
<1>3. Collecting'
  BY <1>1 DEF Collecting
<1>4. Flying' /\ Indexing'
  BY <1>1 DEF Flying, Indexing
<1>5. Configuring'
  BY <1>1 DEF Configuring
<1> QED
  BY <1>2, <1>3, <1>4, <1>5

\* The next request of a flight; it writes only once the index exists.
LEMMA ContinueKeepsLogs ==
  ASSUME LogInv, NEW f \in flights, NEW request \in {"head", "put", "bulk"}, Continue(f, request),
         index' \in {"configured", index}, request = "bulk" => index' # "none", indexed' = indexed
  PROVE  LogInv'
<1>1. stage' = [stage EXCEPT ![f] = request] /\ UNCHANGED <<items, flights, sunk, initialize, indexed>>
  BY DEF Continue, vars
<1>2. LogTyped'
  BY <1>1 DEF LogInv, LogTyped
<1>3. Configuring'
  BY <1>1 DEF LogInv, LogTyped, Configuring
<1> QED
  BY <1>1, <1>2, <1>3 DEF LogInv, Collecting, Flying, Indexing

LEMMA RequestKeepsLogs ==
  ASSUME Inv, LogInv, NEW f \in flights, Request(f)
  PROVE  LogInv'
<1>0. index \in {"none", "configured", "dynamic"} /\ indexed \in Seq(Items) /\ IsInjective(indexed)
  BY DEF LogInv, LogTyped, Indexing
<1>1. CASE EnsureIndex(f)
  BY <1>1, ContinueKeepsLogs DEF EnsureIndex
<1>2. CASE CreateIndex(f)
  <2>1. CASE index = "none" /\ index' = "configured" /\ Continue(f, "bulk")
    BY <1>2, <2>1, ContinueKeepsLogs DEF CreateIndex
  <2>2. CASE Settled(f) /\ index' \in {index, "configured"}
    BY <1>0, <1>2, <2>2, SettledKeepsLogs DEF CreateIndex
  <2> QED
    BY <1>2, <2>1, <2>2 DEF CreateIndex, Report
<1>3. CASE Post(f)
  <2>1. CASE Settled(f) /\ UNCHANGED <<index, indexed>>
    BY <1>0, <2>1, SettledKeepsLogs
  <2>2. f.batch \in Seq(Items) /\ IsInjective(f.batch)
    BY DEF Inv, TypeOK, LogInv, Flying
  <2>3. ASSUME NEW accepted \in Accepted(f) \cup {f.batch}, Write(f, accepted), Settled(f)
        PROVE  LogInv'
    <3>1. /\ accepted \in Seq(Items) /\ IsInjective(accepted)
          /\ ToSet(accepted) \subseteq ToSet(f.batch)
      BY <2>2, <2>3, AcceptedFacts
    <3>2. ToSet(indexed) \cap ToSet(accepted) = {}
      BY <3>1 DEF LogInv, Flying
    <3>3. indexed' = indexed \o accepted
      BY <2>3 DEF Write
    <3>4. /\ indexed' \in Seq(Items) /\ IsInjective(indexed')
          /\ ToSet(indexed') \subseteq ToSet(indexed) \cup ToSet(f.batch)
      BY <1>0, <3>1, <3>2, <3>3, JoinFacts
    <3>5. /\ index' \in {"configured", "dynamic"}
          /\ initialize /\ index' = "dynamic" => index = "dynamic"
      BY <1>0, <1>3, <2>3 DEF Write, Post, LogInv, Configuring
    <3> QED
      BY <2>3, <3>4, <3>5, SettledKeepsLogs
  <2> QED
    BY <1>3, <2>1, <2>3 DEF Post, Report
<1> QED
  BY <1>1, <1>2, <1>3 DEF Request

LEMMA LogInvInductive == Inv /\ LogInv /\ [LogNext]_allVars => LogInv'
<1> SUFFICES ASSUME Inv, LogInv, [LogNext]_allVars PROVE LogInv'
  OBVIOUS
<1>0. items \in Seq(Items) /\ sunk \in Seq(Items)
  BY DEF Inv, TypeOK
<1>1. ASSUME NEW item \in Items, Save(item) PROVE LogInv'
  <2> DEFINE longer == Append(items, item)
  <2>1. /\ longer \in Seq(Items) /\ longer # << >> /\ IsInjective(longer)
        /\ ToSet(longer) \cap ToSet(sunk) = {}
    <3>1. item \notin ToSet(items) /\ item \notin ToSet(sunk)
      BY <1>1 DEF Save, Push
    <3> QED
      BY <1>0, <3>1, AppendFacts DEF LogInv, Collecting
  <2>2. CASE Buffer(item)
    <3>1. items' = longer /\ UNCHANGED <<flights, sunk, initialize, index, indexed>>
      BY <1>1, <2>2 DEF Buffer, Save, Quietly
    <3>2. stage' = stage
      BY <1>1, <3>1 DEF Save, Quietly, BulkIndex, LogInv, LogTyped
    <3> HIDE DEF longer
    <3> QED
      BY <2>1, <3>1, <3>2 DEF LogInv, LogTyped, Collecting, Flying, Indexing, Configuring
  <2>3. CASE HandOver(longer, FALSE, timeouts)
    BY <1>1, <2>1, <2>3, HandOverKeepsLogs DEF Save
  <2> QED
    BY <1>1, <2>2, <2>3 DEF Save, Push
<1>2. CASE Tick /\ Quietly
  <2>1. UNCHANGED <<items, flights, sunk, initialize, index, indexed>>
    BY <1>2 DEF Tick, Quietly
  <2>2. stage' = stage
    BY <1>2, <2>1 DEF Quietly, BulkIndex, LogInv, LogTyped
  <2> QED
    BY <2>1, <2>2 DEF LogInv, LogTyped, Collecting, Flying, Indexing, Configuring
<1>3. CASE (TimerFires \/ Flush) /\ Quietly
  BY <1>3, FlushKeepsLogs DEF TimerFires, Flush
<1>4. CASE Exit /\ Quietly
  <2>1. items' = << >> /\ UNCHANGED <<flights, sunk, initialize, index, indexed>>
    BY <1>4 DEF Exit, Quietly
  <2>2. stage' = stage
    BY <1>4, <2>1 DEF Quietly, BulkIndex, LogInv, LogTyped
  <2>3. Collecting'
    BY <2>1 DEF Collecting, ToSet, IsInjective
  <2> QED
    BY <2>1, <2>2, <2>3 DEF LogInv, LogTyped, Flying, Indexing, Configuring
<1>5. CASE OtherCreates
  BY <1>5 DEF OtherCreates, vars, LogInv, LogTyped, Collecting, Flying, Indexing, Configuring
<1>6. ASSUME NEW f \in flights, Request(f) PROVE LogInv'
  BY <1>6, RequestKeepsLogs
<1>7. CASE UNCHANGED allVars
  BY <1>7 DEF allVars, vars, searchVars, LogInv, LogTyped, Collecting, Flying, Indexing, Configuring
<1> QED
  BY <1>1, <1>2, <1>3, <1>4, <1>5, <1>6, <1>7 DEF LogNext, Timers, FlushOrExit

\* However flushes overlap, requests fail before or after they were carried
\* out and processes share the index: with indexInitialize no log creates it
\* with inferred settings, and no log is indexed twice.
THEOREM LogsAreIndexedRight == LogSpec => []IndexedRight
<1>1. LogInit => Inv /\ LogInv
  BY LogInitInv, InvInit DEF LogInit
<1>2. Inv /\ LogInv /\ [LogNext]_allVars => Inv' /\ LogInv'
  BY LogInvInductive, LogStepIsBufferStep, InvInductive
<1>3. Inv /\ LogInv => IndexedRight
  BY DEF LogInv, Indexing, Configuring, IndexedRight, ConfiguredFirst, IndexedOnce, IsInjective
<1> QED
  BY <1>1, <1>2, <1>3, PTL DEF LogSpec
=============================================================================
