----------------------- MODULE RedisPipelineScheduler -----------------------
(***************************************************************************)
(* RedisPipelineScheduler (cache/providers/redis/connector/scheduler.ts),  *)
(* as ZanixRedisConnector builds it: scheduled set() commands are queued   *)
(* in a MULTI and sent together.  flush() runs MULTI/EXEC through          *)
(* execWithRetry (retries.ts).                                             *)
(*                                                                         *)
(* The connector hands execWithRetry over unbound, so it runs with the     *)
(* scheduler as `this': connected, isReady, commandTimeout,                *)
(* maxCommandRetries and commandRetryInterval are all undefined there.     *)
(* Hence every attempt races with a timeout of zero, an attempt that loses *)
(* or fails is followed by another at once, and the number of attempts has *)
(* no limit (`attempt >= NaN' is false).                                   *)
(*                                                                         *)
(* Commands are numbered in the order in which they are scheduled.         *)
(***************************************************************************)
EXTENDS Naturals, Sequences, SequencesExt

CONSTANTS
    MaxBatch,       \* schedulerOptions.maxBatch
    MaxCommands,    \* bound: the commands that are scheduled
    MaxFailures,    \* bound: the attempts that fail or lose their race
    MaxClears       \* bound: the times a connection clears the timeouts

VARIABLES
    scheduled,  \* how many commands addSet() has been given
    pipeline,   \* the commands queued in the current MULTI
    timer,      \* the handle: this.timer # null
    timeout,    \* that timeout has not fired and is not cleared
    flushing,   \* this.flushing
    call,       \* execWithRetry: where the attempt in progress stands
    race,       \* the timeout the attempt races with is running
    attempts,   \* the attempts the flush has made
    wire,       \* MULTI/EXEC blocks sent and not answered, oldest first
    applied,    \* ghost: the commands Redis has executed, by first execution
    failures,   \* how much of MaxFailures has been spent
    clears,     \* how much of MaxClears has been spent
    stopping    \* shutdown(): "no", "awaiting" its flush, or "done"

vars == <<scheduled, pipeline, timer, timeout, flushing, call, race, attempts,
          wire, applied, failures, clears, stopping>>

queueVars == <<scheduled, pipeline, timer, timeout>>
flushVars == <<flushing, call, race, attempts>>
redisVars == <<wire, applied>>
boundVars == <<failures, clears>>

Init ==
    /\ scheduled = 0 /\ pipeline = << >>
    /\ timer = FALSE /\ timeout = FALSE /\ flushing = FALSE
    /\ call = "none" /\ race = FALSE /\ attempts = 0
    /\ wire = << >> /\ applied = << >> /\ failures = 0 /\ clears = 0 /\ stopping = "no"

\* Mutant of MayFlush.
NotSerialized(queued) == queued # << >>

\* flush() returns early while a flush runs, or when nothing is queued.
MayFlush(queued) == ~flushing /\ queued # << >>

\* flush() up to its await.  The MULTI is sent in a later microtask.
StartFlush ==
    /\ flushing' = TRUE /\ call' = "starting" /\ race' = TRUE /\ attempts' = 1

\* flush(), whoever calls it.
Flush(queued) ==
    IF MayFlush(queued)
    THEN StartFlush
    ELSE UNCHANGED flushVars

\* addSet(): queue the command; flush at the size threshold, else arm the timer.
AddSet ==
    /\ scheduled < MaxCommands /\ stopping = "no"
    /\ scheduled' = scheduled + 1
    /\ pipeline' = Append(pipeline, scheduled')
    /\ IF Len(pipeline') >= MaxBatch
       THEN Flush(pipeline') /\ UNCHANGED <<timer, timeout>>
       ELSE /\ timer' = TRUE
            /\ timeout' = (timeout \/ ~timer)
            /\ UNCHANGED flushVars
    /\ UNCHANGED <<redisVars, boundVars, stopping>>

\* The callback of the timer.  The handle stays set until a flush ends.
TimerFires ==
    /\ timeout /\ timeout' = FALSE
    /\ Flush(pipeline)
    /\ UNCHANGED <<scheduled, pipeline, timer, redisVars, boundVars, stopping>>

\* flush() called by the application.
FlushNow ==
    /\ MayFlush(pipeline)
    /\ StartFlush
    /\ UNCHANGED <<queueVars, redisVars, boundVars, stopping>>

\* shutdown(): awaits flush(), which may return early.
Shutdown ==
    /\ stopping = "no"
    /\ Flush(pipeline)
    /\ stopping' = IF MayFlush(pipeline) THEN "awaiting" ELSE "done"
    /\ UNCHANGED <<queueVars, redisVars, boundVars>>

----------------------------------------------------------------------------
(* execWithRetry, running with the scheduler as `this'. *)

\* pipeline.exec(): everything queued by now goes out in one block.
Exec ==
    /\ call = "starting" /\ call' = "racing"
    /\ wire' = Append(wire, [batch |-> pipeline, attempt |-> attempts])
    /\ UNCHANGED <<queueVars, flushing, race, attempts, applied, boundVars, stopping>>

\* The catch block: never the last attempt; the next one waits for a timeout.
Retry ==
    /\ failures < MaxFailures /\ failures' = failures + 1
    /\ call' = "waiting" /\ race' = FALSE

\* The attempt loses the race with its timeout.
AttemptTimesOut ==
    /\ call = "racing" /\ race
    /\ Retry
    /\ UNCHANGED <<queueVars, flushing, attempts, redisVars, clears, stopping>>

\* Its timeout over, the next attempt starts, with a race of its own.
RetryFires ==
    /\ call = "waiting"
    /\ call' = "starting" /\ race' = TRUE /\ attempts' = attempts + 1
    /\ UNCHANGED <<queueVars, flushing, redisVars, boundVars, stopping>>

\* `finally': whatever is queued by now is discarded with the MULTI.
Finish ==
    /\ pipeline' = << >> /\ flushing' = FALSE
    /\ timer' = FALSE /\ timeout' = FALSE
    /\ call' = "none" /\ race' = FALSE /\ attempts' = 0
    /\ stopping' = IF stopping = "awaiting" THEN "done" ELSE stopping

Unsettled == UNCHANGED <<pipeline, flushing, timer, timeout, call, race, attempts, stopping>>

\* Mutant of Answers.
AnyReplyAnswers(block) == call # "none"

\* The reply the flush is waiting for is that of its latest attempt.
Answers(block) == call = "racing" /\ block.attempt = attempts

\* What a block executes for the first time: all that follows the part an earlier
\* attempt executed.
NotYetApplied(batch) ==
    LET new == {i \in DOMAIN batch : batch[i] \notin ToSet(applied)}
    IN  IF new = {} THEN << >> ELSE SubSeq(batch, Min(new), Len(batch))

\* Redis executes the oldest block and answers.
ReplyOk ==
    /\ wire # << >>
    /\ wire' = Tail(wire)
    /\ applied' = applied \o NotYetApplied(Head(wire).batch)
    /\ IF Answers(Head(wire)) THEN Finish ELSE Unsettled
    /\ UNCHANGED <<scheduled, failures, clears>>

\* The oldest block fails, or its answer is lost with the connection.
ReplyError ==
    /\ wire # << >>
    /\ wire' = Tail(wire)
    /\ \/ UNCHANGED applied
       \/ applied' = applied \o NotYetApplied(Head(wire).batch)
    /\ IF Answers(Head(wire))
       THEN Retry /\ UNCHANGED <<pipeline, flushing, timer, timeout, attempts, stopping>>
       ELSE Unsettled /\ UNCHANGED failures
    /\ UNCHANGED <<scheduled, clears>>

\* A connection becomes ready or is closed: clearTimeouts().  The list of
\* timeouts is the module's, so it may be any Redis connection of the process.
ClearTimeouts ==
    /\ clears < MaxClears /\ clears' = clears + 1
    /\ race' = FALSE
    /\ call' = IF call = "waiting" THEN "lost" ELSE call
    /\ UNCHANGED <<queueVars, flushing, attempts, redisVars, failures, stopping>>

Next ==
    \/ AddSet \/ TimerFires \/ FlushNow \/ Shutdown
    \/ Exec \/ AttemptTimesOut \/ RetryFires \/ ReplyOk \/ ReplyError
    \/ ClearTimeouts

Spec == Init /\ [][Next]_vars

\* Timeouts fire, microtasks run, and Redis answers.
FairSpec ==
    /\ Spec
    /\ WF_vars(TimerFires) /\ WF_vars(Exec) /\ WF_vars(RetryFires)
    /\ WF_vars(ReplyOk)

----------------------------------------------------------------------------
(* Properties. *)

\* The variables keep their types, and a flush is in progress exactly when
\* execWithRetry has been called for it and has not returned.
TypeOK ==
    /\ scheduled \in 0 .. MaxCommands
    /\ pipeline \in Seq(1 .. scheduled) /\ applied \in Seq(1 .. scheduled)
    /\ timer \in BOOLEAN /\ timeout \in BOOLEAN /\ flushing \in BOOLEAN /\ race \in BOOLEAN
    /\ call \in {"none", "starting", "racing", "waiting", "lost"}
    /\ flushing <=> call # "none"
    /\ attempts \in Nat /\ failures \in 0 .. MaxFailures /\ clears \in 0 .. MaxClears
    /\ wire \in Seq([batch: Seq(1 .. scheduled), attempt: Nat])
    /\ stopping \in {"no", "awaiting", "done"}

\* A queued command is never without something that will send it: a flush in
\* progress or a live timeout.
Armed == pipeline # << >> => flushing \/ (timer /\ timeout)

\* Flushes are serialized, as flush() says: each block on the wire is an
\* attempt of the flush in progress, at what was queued when it was made, and
\* none is left when the flush is over.
Serialized ==
    /\ wire # << >> => flushing
    /\ \A i \in DOMAIN wire :
         /\ IsPrefix(wire[i].batch, pipeline)
         /\ wire[i].attempt <= attempts

\* Redis first executes the commands in the order they were scheduled in,
\* although whole pipelines are sent again and again.
InOrder == \A i, j \in DOMAIN applied : i < j => applied[i] < applied[j]

\* Together: whatever is retried, answered late or cleared, one flush at a time
\* sends what is queued, in order, and what is queued has something to send it.
FlushesInOrder == TypeOK /\ Armed /\ Serialized /\ InOrder

\* A flush ends with everything that its last attempt sent executed: only
\* commands queued after that attempt can be discarded with the pipeline.
SentIsApplied ==
    [][flushing /\ ~flushing'
       => ToSet(Head(wire).batch) \subseteq ToSet(applied')
          /\ wire' = << >>]_vars

\* Every command scheduled is queued or executed: what the documentation of
\* command scheduling says, "the scheduler flushes automatically".
NothingDropped == 1 .. scheduled \subseteq ToSet(pipeline) \cup ToSet(applied)

\* A queued command leaves the pipeline in the end, unless the timeout that
\* would have started the next attempt of its flush was cleared.
SendsOrLost == pipeline # << >> ~> pipeline = << >> \/ call = "lost"
=============================================================================
