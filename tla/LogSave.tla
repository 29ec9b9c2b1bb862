------------------------------- MODULE LogSave -------------------------------
(***************************************************************************)
(* elasticsearchLogSave (observability/log-adapter.ts): logs are pushed to *)
(* a BulkBuffer whose onFlush sends a batch to Elasticsearch, inline or in *)
(* a worker (worker-flush.ts), through bulkIndex and, if indexInitialize   *)
(* is set, ensureIndex (connector.ts).  onFlush never rejects: a failure   *)
(* is reported with 'noSave', so that no report becomes a log.             *)
(*                                                                         *)
(* One static index is modelled, shared with what other processes write.   *)
(***************************************************************************)
EXTENDS BulkBuffer

VARIABLES
    initialize, \* options.indexInitialize
    stage,      \* stage[f]: the request of the flight f that is under way
    index,      \* the index: "none", "configured" by ensureIndex, "dynamic"
    indexed,    \* the logs in the index, in the order they arrived
    rejected,   \* ghost: the logs the index refused, one by one
    reported    \* ghost: the logs of the flushes reported as failed

searchVars == <<initialize, stage, index, indexed, rejected, reported>>
allVars == <<vars, searchVars>>

LogInit ==
    /\ Init
    /\ initialize \in BOOLEAN /\ stage = << >>
    /\ index \in {"none", "configured"}
    /\ indexed = << >> /\ rejected = {} /\ reported = {}

\* bulkIndex() starts with each batch that is handed over.
BulkIndex ==
    stage' = [f \in flights' |-> IF f \in DOMAIN stage THEN stage[f]
                                 ELSE IF initialize THEN "head" ELSE "bulk"]

Quietly == BulkIndex /\ UNCHANGED <<initialize, index, indexed, rejected, reported>>

\* save(), save.flush(), the timer and the end of the process.
Save(item) == Push(item) /\ Quietly
Timers == (TimerFires \/ Tick) /\ Quietly
FlushOrExit == (Flush \/ Exit) /\ Quietly

\* A flight settles: onFlush resolves, whatever became of its batch.
Settled(f) ==
    /\ flights' = flights \ {f}
    /\ stage' = [g \in flights' |-> stage[g]]
    /\ UNCHANGED <<items, handle, timeouts, open, sunk, age, initialize>>

Continue(f, request) == stage' = [stage EXCEPT ![f] = request] /\ UNCHANGED <<vars, initialize>>

\* reportFlushFailure().
Report(f) ==
    /\ Settled(f)
    /\ reported' = reported \cup ToSet(f.batch)
    /\ UNCHANGED rejected

\* Mutant of EnsureIndex.
DoesNotWait(f) ==
    /\ stage[f] = "head" /\ Continue(f, IF index = "none" THEN "bulk" ELSE "put")
    /\ UNCHANGED <<index, indexed, rejected, reported>>

\* ensureIndex(): the HEAD finds the index, or fails for whatever reason and is
\* followed by a PUT.
EnsureIndex(f) ==
    /\ stage[f] = "head"
    /\ Continue(f, "put") \/ (index # "none" /\ Continue(f, "bulk"))
    /\ UNCHANGED <<index, indexed, rejected, reported>>

\* The PUT creates the index; there is one already, or the request fails, and
\* so does the flush.
CreateIndex(f) ==
    /\ stage[f] = "put" /\ UNCHANGED indexed
    /\ \/ index = "none" /\ index' = "configured" /\ Continue(f, "bulk") /\ UNCHANGED <<rejected, reported>>
       \/ Report(f) /\ UNCHANGED index
       \/ index = "none" /\ index' = "configured" /\ Report(f)

\* What a bulk request does: an index that does not exist is created on the
\* way, and each document is accepted or refused on its own.
Write(f, accepted) ==
    /\ index' = IF index = "none" THEN "dynamic" ELSE index
    /\ indexed' = indexed \o accepted
    /\ rejected' = rejected \cup (ToSet(f.batch) \ ToSet(accepted))

\* Any documents of the batch, in its order.
Accepted(f) ==
    {[i \in DOMAIN place |-> f.batch[place[i]]] :
       place \in {p \in UNION {[1 .. n -> DOMAIN f.batch] : n \in 0 .. Len(f.batch)} :
                  \A i, j \in DOMAIN p : i < j => p[i] < p[j]}}

\* Mutant of Post.
Unreported(f) ==
    /\ stage[f] = "bulk" /\ Settled(f) /\ UNCHANGED reported
    /\ \/ \E accepted \in Accepted(f) : Write(f, accepted)
       \/ UNCHANGED <<index, indexed, rejected>>

\* POST _bulk.  It resolves although some documents were refused, and nobody
\* looks at the failedCount it resolves with; it fails before or after it was
\* carried out.
Post(f) ==
    /\ stage[f] = "bulk"
    /\ \/ \E accepted \in Accepted(f) : Write(f, accepted) /\ Settled(f) /\ UNCHANGED reported
       \/ Report(f) /\ UNCHANGED <<index, indexed>>
       \/ Report(f) /\ Write(f, f.batch)

\* Another process uses ensureIndex() on the same index.
OtherCreates ==
    /\ index = "none" /\ index' = "configured"
    /\ UNCHANGED <<vars, initialize, stage, indexed, rejected, reported>>

Request(f) == open /\ (EnsureIndex(f) \/ CreateIndex(f) \/ Post(f))

LogNext ==
    \/ \E item \in Items : Save(item)
    \/ Timers \/ FlushOrExit \/ OtherCreates
    \/ \E f \in flights : Request(f)

LogSpec == LogInit /\ [][LogNext]_allVars

\* The event loop runs its timers; requests are answered or fail.
FairLogSpec ==
    /\ LogSpec /\ WF_allVars(Timers)
    /\ WF_allVars(\E f \in flights : Request(f))

----------------------------------------------------------------------------
(* Properties. *)

\* With indexInitialize no log ever creates the index with inferred settings,
\* however flushes overlap and whoever else creates it.
ConfiguredFirst == initialize => index # "dynamic"

\* No log is indexed twice, although flushes overlap and answers are lost.
IndexedOnce == \A i, j \in DOMAIN indexed : indexed[i] = indexed[j] => i = j

\* What is in the index is as it should be: the settings, and each log once.
IndexedRight == ConfiguredFirst /\ IndexedOnce

\* A log is lost in silence only if the index refused it: every other log that
\* was buffered is indexed, or its flush is reported, unless the process ends.
IndexedOrReported ==
    \A item \in Items :
      item \in ToSet(items) \cup ToSet(sunk)
        ~> item \in ToSet(indexed) \cup rejected \cup reported \/ ~open
=============================================================================
