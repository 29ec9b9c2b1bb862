------------------------------ MODULE MCRedis ------------------------------
(* Instances for TLC of the two parts of the Redis connector: RedisRetry   *)
(* and RedisPipelineScheduler.  A behaviour is one of either; the other    *)
(* stays in its initial state.                                             *)
EXTENDS RedisRetry, Sequences

CONSTANTS MaxBatch, MaxScheduled, MaxFailures, MaxSchedulerClears

VARIABLES
    part,       \* "retry" or "scheduler"
    scheduled, pipeline, timer, timeout, flushing, call, sRace, attempts, wire,
    sApplied, failures, sClears, stopping

Scheduler == INSTANCE RedisPipelineScheduler
    WITH MaxCommands <- MaxScheduled, MaxClears <- MaxSchedulerClears,
         race <- sRace, applied <- sApplied, clears <- sClears

ASSUME SchedulerConstants ==
    MaxBatch \in Nat \ {0} /\ {MaxScheduled, MaxFailures, MaxSchedulerClears} \subseteq Nat

schedulerVars == <<scheduled, pipeline, timer, timeout, flushing, call, sRace, attempts,
                   wire, sApplied, failures, sClears, stopping>>

allVars == <<vars, schedulerVars, part>>

Retrying == part = "retry" /\ UNCHANGED <<part, schedulerVars>>

Scheduling == part = "scheduler" /\ UNCHANGED <<part, vars>>

RedisInit == part \in {"retry", "scheduler"} /\ Init /\ Scheduler!Init

RedisNext == (Retrying /\ Next) \/ (Scheduling /\ Scheduler!Next)

\* The fairness of the two parts.
RedisSpec ==
    /\ RedisInit /\ [][RedisNext]_allVars
    /\ WF_allVars(Retrying /\ Ready)
    /\ \A c \in Commands :
         /\ WF_allVars(Retrying /\ RaceTimeout(c)) /\ WF_allVars(Retrying /\ RetryFires(c))
         /\ WF_allVars(Retrying /\ (ReplyOk(c) \/ ReplyError(c)))
    /\ WF_allVars(Scheduling /\ Scheduler!TimerFires) /\ WF_allVars(Scheduling /\ Scheduler!Exec)
    /\ WF_allVars(Scheduling /\ Scheduler!RetryFires) /\ WF_allVars(Scheduling /\ Scheduler!ReplyOk)

\* The properties of the scheduler, which hold in its initial state as well.
FlushesInOrder == Scheduler!FlushesInOrder
SentIsApplied == Scheduler!SentIsApplied
NothingDropped == Scheduler!NothingDropped

\* Every command is settled, and every queued write leaves the pipeline, unless
\* the timeout it waits for has been cleared.
CommandsEnd == SettlesOrLost /\ Scheduler!SendsOrLost
=============================================================================
