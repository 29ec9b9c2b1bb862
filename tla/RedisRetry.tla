----------------------------- MODULE RedisRetry -----------------------------
(***************************************************************************)
(* The commands of ZanixRedisConnector (cache/providers/redis/connector):  *)
(* execWithRetry (retries.ts) and the connection events it depends on      *)
(* (mod.ts).  A connected client runs a command as it is.  Otherwise the   *)
(* command is handed to the client, whose offline queue keeps it until the *)
(* connection is back, and races with commandTimeout; an attempt that      *)
(* loses is abandoned, not withdrawn, and the next one follows after       *)
(* commandRetryInterval.  The timeouts of all commands of all connectors   *)
(* are in one list, which every connection event clears.                   *)
(*                                                                         *)
(* That the first connection is given up (isReady rejects, and the command *)
(* closes and reopens the client) is not modelled.                         *)
(***************************************************************************)
EXTENDS Naturals

CONSTANTS
    Commands,           \* calls of set(), get(), ... on one connector
    MaxCommandRetries,  \* options.maxCommandRetries
    MaxFaults,          \* bound: dropped connections and failing calls
    MaxClears           \* bound: events of other connectors of the process

ASSUME RedisRetryConstants ==
    MaxCommandRetries \in Nat \ {0} /\ {MaxFaults, MaxClears} \subseteq Nat

VARIABLES
    connected,  \* the flag
    isReady,    \* the promise isReady has resolved
    closed,     \* close() has destroyed the client
    pc,         \* pc[c]: where execWithRetry stands
    attempt,    \* attempt[c]
    race,       \* race[c]: the commandTimeout of the attempt is running
    ensuring,   \* ensuring[c]: calls of ensureReadyFn that await isReady
    queued,     \* queued[c]: calls of fn the client has not settled
    applied,    \* ghost: how many times Redis has executed c
    faults, clears  \* how much of the bounds has been spent

vars == <<connected, isReady, closed, pc, attempt, race, ensuring, queued,
          applied, faults, clears>>
connectionVars == <<connected, isReady, closed>>
boundVars == <<faults, clears>>

Init ==
    /\ connected = FALSE /\ isReady = FALSE /\ closed = FALSE
    /\ pc = [c \in Commands |-> "new"]
    /\ attempt = [c \in Commands |-> 0]
    /\ race = [c \in Commands |-> FALSE]
    /\ ensuring = [c \in Commands |-> 0]
    /\ queued = [c \in Commands |-> 0]
    /\ applied = [c \in Commands |-> 0]
    /\ faults = 0 /\ clears = 0

\* Mutant of EnsureReady.
SendsTwice(c) ==
    IF isReady
    THEN queued' = [queued EXCEPT ![c] = @ + 2] /\ UNCHANGED ensuring
    ELSE ensuring' = [ensuring EXCEPT ![c] = @ + 1] /\ UNCHANGED queued

\* ensureReadyFn(): fn is called once isReady has resolved.
EnsureReady(c) ==
    IF isReady
    THEN queued' = [queued EXCEPT ![c] = @ + 1] /\ UNCHANGED ensuring
    ELSE ensuring' = [ensuring EXCEPT ![c] = @ + 1] /\ UNCHANGED queued

\* execWithRetry(fn, n).
Exec(c, n) ==
    /\ attempt' = [attempt EXCEPT ![c] = n]
    /\ pc' = [pc EXCEPT ![c] = IF connected THEN "direct" ELSE "racing"]
    /\ race' = [race EXCEPT ![c] = ~connected]
    /\ EnsureReady(c)

Issue(c) ==
    /\ pc[c] = "new"
    /\ Exec(c, 0)
    /\ UNCHANGED <<connectionVars, applied, boundVars>>

LastAttempt(c) == attempt[c] >= MaxCommandRetries - 1

\* Mutants of AttemptFails.
Swallows(c) ==
    /\ pc' = [pc EXCEPT ![c] = IF LastAttempt(c) THEN "ok" ELSE "waiting"]
    /\ race' = [race EXCEPT ![c] = FALSE]

NeverRetries(c) ==
    /\ pc' = [pc EXCEPT ![c] = IF LastAttempt(c) THEN "failed" ELSE "racing"]
    /\ race' = [race EXCEPT ![c] = FALSE]

\* The catch block, for the attempt in progress.
AttemptFails(c) ==
    /\ pc' = [pc EXCEPT ![c] = IF LastAttempt(c) THEN "failed" ELSE "waiting"]
    /\ race' = [race EXCEPT ![c] = FALSE]

\* commandTimeout has passed.
RaceTimeout(c) ==
    /\ pc[c] = "racing" /\ race[c]
    /\ AttemptFails(c)
    /\ UNCHANGED <<connectionVars, attempt, ensuring, queued, applied, boundVars>>

\* commandRetryInterval has passed.
RetryFires(c) ==
    /\ pc[c] = "waiting"
    /\ Exec(c, attempt[c] + 1)
    /\ UNCHANGED <<connectionVars, applied, boundVars>>

\* The caller awaits the latest call, and the client settles calls in order.
Awaited(c) == queued[c] = 1

\* The client settles its oldest call of c: Redis executed it.
ReplyOk(c) ==
    /\ connected /\ queued[c] > 0
    /\ queued' = [queued EXCEPT ![c] = @ - 1]
    /\ applied' = [applied EXCEPT ![c] = @ + 1]
    /\ IF Awaited(c) /\ pc[c] \in {"direct", "racing"}
       THEN /\ pc' = [pc EXCEPT ![c] = "ok"]
            /\ race' = [race EXCEPT ![c] = FALSE]
       ELSE UNCHANGED <<pc, race>>
    /\ UNCHANGED <<connectionVars, attempt, ensuring, boundVars>>

\* The call fails: an error of Redis, or the connection breaks before the
\* answer arrives.  Only a command that was not sent directly is retried.
ReplyError(c) ==
    /\ queued[c] > 0
    /\ closed \/ faults < MaxFaults
    /\ faults' = IF closed THEN faults ELSE faults + 1
    /\ queued' = [queued EXCEPT ![c] = @ - 1]
    /\ \/ UNCHANGED applied
       \/ connected /\ applied' = [applied EXCEPT ![c] = @ + 1]
    /\ \/ Awaited(c) /\ pc[c] = "racing" /\ AttemptFails(c)
       \/ Awaited(c) /\ pc[c] = "direct"
          /\ pc' = [pc EXCEPT ![c] = "failed"] /\ UNCHANGED race
       \/ ~(Awaited(c) /\ pc[c] \in {"racing", "direct"}) /\ UNCHANGED <<pc, race>>
    /\ UNCHANGED <<connectionVars, attempt, ensuring, clears>>

\* clearTimeouts(): a command between two attempts is left with nothing that
\* would ever settle it.
ClearTimeouts ==
    /\ race' = [c \in Commands |-> FALSE]
    /\ pc' = [c \in Commands |-> IF pc[c] = "waiting" THEN "lost" ELSE pc[c]]

\* The `ready' event.
Ready ==
    /\ ~connected /\ ~closed
    /\ connected' = TRUE /\ isReady' = TRUE
    /\ ClearTimeouts
    /\ queued' = [c \in Commands |-> queued[c] + ensuring[c]]
    /\ ensuring' = [c \in Commands |-> 0]
    /\ UNCHANGED <<closed, attempt, applied, boundVars>>

\* The connection breaks: the `reconnecting' event.
Reconnecting ==
    /\ connected /\ faults < MaxFaults
    /\ faults' = faults + 1
    /\ connected' = FALSE
    /\ UNCHANGED <<isReady, closed, pc, attempt, race, ensuring, queued, applied, clears>>

\* close(), and the `end' event that follows.
Close ==
    /\ isReady /\ ~closed
    /\ closed' = TRUE /\ connected' = FALSE
    /\ ClearTimeouts
    /\ UNCHANGED <<isReady, attempt, ensuring, queued, applied, boundVars>>

\* Another connector of the process becomes ready, or is closed.
OtherConnection ==
    /\ clears < MaxClears /\ clears' = clears + 1
    /\ ClearTimeouts
    /\ UNCHANGED <<connectionVars, attempt, ensuring, queued, applied, faults>>

Step(c) ==
    \/ Issue(c) \/ RaceTimeout(c) \/ RetryFires(c) \/ ReplyOk(c) \/ ReplyError(c)

Next ==
    \/ \E c \in Commands : Step(c)
    \/ Ready \/ Reconnecting \/ Close \/ OtherConnection

Spec == Init /\ [][Next]_vars

\* Timeouts fire, Redis comes back, and calls are answered or fail.
FairSpec ==
    /\ Spec /\ WF_vars(Ready)
    /\ \A c \in Commands :
         /\ WF_vars(RaceTimeout(c)) /\ WF_vars(RetryFires(c))
         /\ WF_vars(ReplyOk(c) \/ ReplyError(c))

----------------------------------------------------------------------------
(* Properties. *)

Unsettled == {"direct", "racing", "waiting"}

\* The variables keep their types, and no command has more attempts than
\* maxCommandRetries.
TypeOK ==
    /\ connected \in BOOLEAN /\ isReady \in BOOLEAN /\ closed \in BOOLEAN
    /\ pc \in [Commands -> Unsettled \cup {"new", "lost", "ok", "failed"}]
    /\ attempt \in [Commands -> 0 .. MaxCommandRetries - 1]
    /\ race \in [Commands -> BOOLEAN]
    /\ ensuring \in [Commands -> Nat] /\ queued \in [Commands -> Nat]
    /\ applied \in [Commands -> Nat]
    /\ faults \in 0 .. MaxFaults /\ clears \in 0 .. MaxClears

\* A command is handed to the client once per attempt: an abandoned attempt is
\* never sent again, although each retry wraps the one before it.
OncePerAttempt ==
    \A c \in Commands :
      pc[c] # "new" => applied[c] + queued[c] + ensuring[c] <= attempt[c] + 1

\* A command that is still being attempted has a call of its own in the
\* client, which will settle it, or a timeout that will.
HasASettler ==
    \A c \in Commands :
      pc[c] \in {"direct", "racing"} => queued[c] + ensuring[c] > 0

\* An answer is never that of nothing: a command that succeeded was executed.
OkWasApplied == \A c \in Commands : pc[c] = "ok" => applied[c] > 0

\* A command settles in the end, unless its timeouts were cleared between two
\* of its attempts.
SettlesOrLost ==
    \A c \in Commands : pc[c] \in Unsettled ~> pc[c] \in {"ok", "failed", "lost"}

\* commandTimeout is the timeout of each command: every command settles, at
\* least while its connector is not closed.
Settles ==
    \A c \in Commands : pc[c] \in Unsettled ~> pc[c] \in {"ok", "failed"} \/ closed
=============================================================================
