----------------------------- MODULE BulkBuffer -----------------------------
(***************************************************************************)
(* BulkBuffer (observability/bulk-buffer.ts): items are buffered in memory *)
(* and flushed at a size or a time threshold, whichever comes first.  One  *)
(* event loop runs push(), flush() and the timer's callback, each to its   *)
(* first await, so these are the atomic steps; a flush is in flight until  *)
(* the promise of onFlush settles, and any number of them may be.          *)
(***************************************************************************)
EXTENDS Integers, Sequences, SequencesExt

CONSTANTS
    Items,           \* what is pushed; each push is an item of its own
    MaxSize,         \* options.maxSize
    FlushInterval    \* options.flushIntervalMs, in clock units

ASSUME BulkBufferConstants == MaxSize \in Nat \ {0} /\ FlushInterval \in Nat

VARIABLES
    items,       \* #items: the batch being collected
    handle,      \* #timer # null
    timeouts,    \* the event loop: time left of each timeout that is not cleared
    flights,     \* the onFlush calls that have not settled
    open,        \* the process runs
    sunk,        \* ghost: every item handed to onFlush, in order
    age          \* ghost: time since the first item of the batch was pushed

vars == <<items, handle, timeouts, flights, open, sunk, age>>

Init ==
    /\ items = << >> /\ handle = FALSE /\ timeouts = {} /\ flights = {}
    /\ open = TRUE /\ sunk = << >> /\ age = 0

\* Mutant of ClearTimer.
ForgetsTimer(running) == handle' = FALSE /\ timeouts' = running

\* `if (this.#timer)': clearTimeout, and forget the handle.
ClearTimer(running) ==
    /\ handle' = FALSE
    /\ timeouts' = IF handle THEN {} ELSE running

\* Mutant of HandOver.
LateReset(batch, awaited, running) ==
    /\ sunk' = sunk \o batch
    /\ flights' = flights \cup {[batch |-> batch, awaited |-> awaited]}
    /\ items' = batch
    /\ age' = age
    /\ ClearTimer(running)

\* flush() of a batch that is not empty: swapped out before onFlush is awaited.
HandOver(batch, awaited, running) ==
    /\ sunk' = sunk \o batch
    /\ flights' = flights \cup {[batch |-> batch, awaited |-> awaited]}
    /\ items' = << >>
    /\ age' = 0
    /\ ClearTimer(running)

Full(queued) == Len(queued) >= MaxSize

\* push() that does not complete a batch: the first item arms the timer.
Buffer(item) ==
    /\ ~Full(Append(items, item))
    /\ items' = Append(items, item)
    /\ handle' = TRUE
    /\ timeouts' = IF handle THEN timeouts ELSE timeouts \cup {FlushInterval}
    /\ UNCHANGED <<flights, sunk, age>>

Push(item) ==
    /\ open
    /\ item \notin ToSet(items) \cup ToSet(sunk)
    /\ \/ Buffer(item)
       \/ /\ Full(Append(items, item))
          /\ HandOver(Append(items, item), FALSE, timeouts)
    /\ UNCHANGED open

\* flush().  Empty, it returns early, before it clears the timer: had the batch
\* of a timeout been flushed meanwhile, its callback would leave a dead handle
\* behind that keeps every later item from arming a timer.
FlushBatch(awaited, running) ==
    IF items = << >>
    THEN timeouts' = running /\ UNCHANGED <<items, handle, flights, sunk, age>>
    ELSE HandOver(items, awaited, running)

\* flush() called by the application, which awaits it.
Flush == open /\ FlushBatch(TRUE, timeouts) /\ UNCHANGED open

\* The timeout callback.
TimerFires ==
    /\ open /\ 0 \in timeouts
    /\ FlushBatch(FALSE, timeouts \ {0})
    /\ UNCHANGED open

\* Time passes while timeouts run; a timeout that is due fires first.
Tick ==
    /\ open /\ timeouts # {} /\ 0 \notin timeouts
    /\ timeouts' = {left - 1 : left \in timeouts}
    /\ age' = IF items = << >> THEN 0 ELSE age + 1
    /\ UNCHANGED <<items, handle, flights, open, sunk>>

\* onFlush settles, in whatever order.  A rejection nobody awaits is an
\* unhandled one, and ends the process.
Settle(flight) ==
    /\ open /\ flight \in flights
    /\ flights' = flights \ {flight}
    /\ UNCHANGED <<handle, timeouts, sunk, age>>
    /\ \/ UNCHANGED <<items, open>>
       \/ ~flight.awaited /\ open' = FALSE /\ items' = << >>

\* The process exits, abruptly: the buffer is lost.
Exit ==
    /\ open /\ open' = FALSE /\ items' = << >>
    /\ UNCHANGED <<handle, timeouts, flights, sunk, age>>

Next ==
    \/ \E item \in Items : Push(item)
    \/ Flush \/ TimerFires \/ Tick \/ Exit
    \/ \E flight \in flights : Settle(flight)

Spec == Init /\ [][Next]_vars

----------------------------------------------------------------------------
(* Properties. *)

\* The variables keep their types, and at most one timeout is ever running.
TypeOK ==
    /\ items \in Seq(Items) /\ sunk \in Seq(Items)
    /\ handle \in BOOLEAN /\ open \in BOOLEAN /\ age \in Nat
    /\ flights \subseteq [batch: Seq(Items), awaited: BOOLEAN]
    /\ timeouts \in SUBSET Nat /\ \A s, t \in timeouts : s = t

\* Between two steps the batch is below the size threshold, whatever mix of
\* pushes, timers and explicit flushes led there.
Bounded == Len(items) < MaxSize

\* While the process runs, a batch that is not empty has exactly one timeout,
\* armed by its own first item: no item is stranded, none waits longer than
\* flushIntervalMs, and no timeout of an earlier batch cuts a later one short.
TimerOfBatch ==
    open => /\ handle <=> items # << >>
            /\ timeouts = IF items = << >> THEN {} ELSE {FlushInterval - age}

\* The buffer implements the sink contract: every pushed item is handed to
\* onFlush once, in the order of the pushes, although flushes overlap.
Sink == INSTANCE BatchSink WITH queue <- items
HandsOverOnce == Sink!Init /\ [][Sink!Next]_(Sink!vars)

\* The buffer of a running process is never full, and its items never wait
\* without the one timeout that their first item armed.
OneTimerPerBatch == TypeOK /\ Bounded /\ TimerOfBatch
=============================================================================
