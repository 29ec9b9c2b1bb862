----------------------------- MODULE BatchSink -----------------------------
(***************************************************************************)
(* What a batching buffer promises the code that feeds it: every accepted  *)
(* item reaches the sink exactly once and in the order it was accepted,    *)
(* until the process stops, which loses what has not been handed over.     *)
(*                                                                         *)
(* It is the contract of BulkBuffer (observability/bulk-buffer.ts), stated *)
(* without batches, timers, thresholds or calls in flight.                 *)
(***************************************************************************)
EXTENDS Naturals, Sequences, SequencesExt

CONSTANT Items

VARIABLES
    queue,   \* accepted, not yet handed to the sink
    sunk,    \* everything handed to the sink, in order
    open     \* the process runs

vars == <<queue, sunk, open>>

Init == queue = << >> /\ sunk = << >> /\ open = TRUE

Fresh(item) == item \notin ToSet(queue) \cup ToSet(sunk)

Accept(item) ==
    /\ open /\ Fresh(item)
    /\ queue' = Append(queue, item)
    /\ UNCHANGED <<sunk, open>>

\* A batch: everything in the queue, and nothing else.
Hand ==
    /\ open /\ queue # << >>
    /\ sunk' = sunk \o queue
    /\ queue' = << >>
    /\ UNCHANGED open

\* An item that completes a batch goes to the sink with it.
AcceptAndHand(item) ==
    /\ open /\ Fresh(item)
    /\ sunk' = sunk \o Append(queue, item)
    /\ queue' = << >>
    /\ UNCHANGED open

Stop ==
    /\ open /\ open' = FALSE
    /\ queue' = << >>
    /\ UNCHANGED sunk

Next ==
    \/ Hand \/ Stop
    \/ \E item \in Items : Accept(item) \/ AcceptAndHand(item)

Spec == Init /\ [][Next]_vars /\ WF_vars(Hand)
=============================================================================
