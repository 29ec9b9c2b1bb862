---------------------------- MODULE CacheProvider ----------------------------
(***************************************************************************)
(* ZanixCacheCoreProvider (cache/providers/mod.ts) over the local cache of *)
(* its process and Redis, which other processes write too.  All calls are  *)
(* for one key, with the same expiry and either always through             *)
(* getCachedOrFetch or always through getCachedOrRevalidate, which stores  *)
(* its values with a timestamp.  What is stored is represented by the      *)
(* instant it was fetched at.                                              *)
(***************************************************************************)
EXTENDS QLRU

CONSTANTS
    Calls,      \* calls of getCachedOrFetch or getCachedOrRevalidate
    Key,        \* the key they are for
    TTL,        \* options.exp
    SoftTTL,    \* options.softTtl
    Delay,      \* bound: how long a request to Redis takes
    MaxSaves    \* bound: what other processes save

\* A value without an expiry would be kept as it is for ever.
ASSUME ProviderConstants ==
    /\ Key \in Keys /\ TTL \in Nat \ {0} /\ {SoftTTL, Delay, MaxSaves} \subseteq Nat

VARIABLES
    mode,       \* which of the two methods is used for Key, if any
    remote,     \* Redis: the value of Key and the instant it is deleted at
    call,       \* call[c]: where the call stands
    refresh,    \* refresh[c]: where the background refresh it started stands
    saves       \* how much of MaxSaves has been spent

providerVars == <<mode, remote, call, refresh, saves>>
vars == <<cacheVars, providerVars>>

NoTask == [pc |-> "idle", fetcher |-> FALSE, local |-> Nothing, got |-> Nothing, sent |-> 0]

\* Bounds: when there are calls the application makes no sets of its own, which
\* only push Key out of the local cache, as its removal does; when there are
\* none, two units of time are enough for entries to expire.
Init ==
    /\ mode \in {"fetch", "revalidate", "unused"}
    /\ IF mode = "unused" THEN CacheInit(MaxTime - 2, 0) ELSE CacheInit(0, MaxSets)
    /\ remote = [value |-> Nothing, exp |-> 0]
    /\ call = [c \in Calls |-> NoTask]
    /\ refresh = [c \in Calls |-> NoTask]
    /\ saves = 0

Fresh(v) == mode = "fetch" \/ now - v < SoftTTL

\* A call begins: a fresh local value ends it, anything else is asked of Redis.
Start(c) ==
    /\ call[c].pc = "idle" /\ mode # "unused"
    /\ \E f \in BOOLEAN :
         call' = [call EXCEPT ![c] =
           [pc |-> IF LocalValue(Key) # Nothing /\ Fresh(LocalValue(Key)) THEN "done" ELSE "reading",
            fetcher |-> f, local |-> LocalValue(Key), got |-> LocalValue(Key), sent |-> now]]
    /\ LocalGet(Key)
    /\ UNCHANGED <<now, timeouts, sets, mode, remote, refresh, saves>>

\* Redis evaluates the GET; its answer is under way.
RedisGet(c) ==
    /\ call[c].pc = "reading"
    /\ call' = [call EXCEPT ![c].pc = "answered",
                            ![c].got = IF now < remote.exp THEN remote.value ELSE Nothing]
    /\ UNCHANGED <<cacheVars, mode, remote, refresh, saves>>

\* Mutants of Answered.
NoRefresh(c) ==
    /\ call[c].pc = "answered"
    /\ LET got == call[c].got IN
       /\ call' = [call EXCEPT ![c].pc =
                     IF got = Nothing /\ call[c].fetcher THEN "fetching" ELSE "done"]
       /\ IF mode = "revalidate" /\ got = Nothing
          THEN UNCHANGED <<cache, promised>>
          ELSE LocalSet(Key, got, TTL)
    /\ UNCHANGED <<now, timeouts, sets, mode, remote, refresh, saves>>

\* The answer: what Redis holds is copied to the local cache (getCachedOrFetch
\* copies an absent value too).  A stale value is returned as well, and
\* refreshed in the background.
Answered(c) ==
    /\ call[c].pc = "answered"
    /\ LET got == call[c].got IN
       /\ call' = [call EXCEPT ![c].pc =
                     IF got = Nothing /\ call[c].fetcher THEN "fetching" ELSE "done"]
       /\ refresh' = IF got # Nothing /\ ~Fresh(got) /\ call[c].fetcher
                     THEN [refresh EXCEPT ![c].pc = "fetching"]
                     ELSE refresh
       /\ IF mode = "revalidate" /\ got = Nothing
          THEN UNCHANGED <<cache, promised>>
          ELSE LocalSet(Key, got, TTL)
    /\ UNCHANGED <<now, timeouts, sets, mode, remote, saves>>

\* The read fails: the fetcher is tried, or the call fails with it.
ReadFails(c) ==
    /\ call[c].pc \in {"reading", "answered"}
    /\ call' = [call EXCEPT ![c].pc = IF call[c].fetcher THEN "fetching" ELSE "failed"]
    /\ UNCHANGED <<cacheVars, mode, remote, refresh, saves>>

\* saveToCaches(): the local cache at once, then Redis.
SaveToCaches(task) ==
    [task EXCEPT !.pc = "saving", !.got = now, !.sent = now]

\* The fetcher of a call, or of the refresh it started, returns.
Fetched(c) ==
    /\ \/ call[c].pc = "fetching" /\ UNCHANGED refresh
          /\ call' = [call EXCEPT ![c] = SaveToCaches(@)]
       \/ refresh[c].pc = "fetching" /\ UNCHANGED call
          /\ refresh' = [refresh EXCEPT ![c] = SaveToCaches(@)]
    /\ LocalSet(Key, now, TTL)
    /\ UNCHANGED <<now, timeouts, sets, mode, remote, saves>>

\* It throws: the call fails, a refresh only logs.
FetchFails(c) ==
    /\ \/ call[c].pc = "fetching" /\ UNCHANGED refresh
          /\ call' = [call EXCEPT ![c].pc = "failed"]
       \/ refresh[c].pc = "fetching" /\ UNCHANGED call
          /\ refresh' = [refresh EXCEPT ![c].pc = "failed"]
    /\ UNCHANGED <<cacheVars, mode, remote, saves>>

\* Redis applies the SET, or the SET is lost; its error is only logged.
RedisSet(c) ==
    /\ \/ /\ call[c].pc = "saving" /\ UNCHANGED refresh
          /\ call' = [call EXCEPT ![c].pc = "done"]
          /\ remote' \in {[value |-> call[c].got, exp |-> now + TTL], remote}
       \/ /\ refresh[c].pc = "saving" /\ UNCHANGED call
          /\ refresh' = [refresh EXCEPT ![c].pc = "done"]
          /\ remote' \in {[value |-> refresh[c].got, exp |-> now + TTL], remote}
    /\ UNCHANGED <<cacheVars, mode, saves>>

\* Another process saves what it fetched, up to Delay ago.
OtherSaves ==
    /\ saves < MaxSaves /\ saves' = saves + 1 /\ mode # "unused"
    /\ \E v \in {t \in 0 .. now : now - t <= Delay} :
         remote' = [value |-> v, exp |-> now + TTL]
    /\ UNCHANGED <<cacheVars, mode, call, refresh>>

InTime(task) ==
    task.pc \in {"reading", "answered", "saving"} => now - task.sent < Delay

LetTimePass == Tick /\ (\A c \in Calls : InTime(call[c]) /\ InTime(refresh[c])) /\ UNCHANGED providerVars

\* The application uses the local cache itself, and may remove Key from it.
Application ==
    /\ \/ \E k \in Keys : Get(k) \/ Has(k) \/ Delete(k)
       \/ \E k \in Keys, ttl \in TTLs : Set(k, ttl) \/ Schedule(k, ttl)
       \/ ScheduledSet \/ Clear \/ Evict
    /\ UNCHANGED providerVars

Step(c) ==
    Start(c) \/ RedisGet(c) \/ Answered(c) \/ ReadFails(c) \/ Fetched(c) \/ FetchFails(c) \/ RedisSet(c)

\* The two methods: what differs between them is what they store and whether a
\* value can be stale.
GetCachedOrFetch(c) == mode = "fetch" /\ Step(c)
GetCachedOrRevalidate(c) == mode = "revalidate" /\ Step(c)

Next == Application \/ LetTimePass \/ OtherSaves \/ \E c \in Calls : GetCachedOrFetch(c) \/ GetCachedOrRevalidate(c)

Spec == Init /\ [][Next]_vars

----------------------------------------------------------------------------
(* Properties. *)

Task == [pc: {"idle", "reading", "answered", "fetching", "saving", "done", "failed"},
         fetcher: BOOLEAN, local: -1 .. MaxTime, got: -1 .. MaxTime, sent: 0 .. MaxTime]

\* The variables keep their types and the local cache its capacity.
TypeOK ==
    /\ CacheTypeOK
    /\ call \in [Calls -> Task] /\ refresh \in [Calls -> Task]
    /\ remote.value \in -1 .. now /\ saves \in 0 .. MaxSaves

\* The local cache holds no more than its capacity, and it forgets early only
\* what has been unused for longest, under the calls and under the application.
CacheIsLRU == TypeOK /\ ForgetsOnlyTheLeastUsed

\* The expiry of a value holds twice: a copy made at the last moment lives in
\* the local cache for another TTL, so what a call returns was fetched less than
\* two TTLs (and the time two requests take) ago, whatever is late or lost.
AtMostTwoTTLsOld ==
    mode # "unused" /\ Hit(Key) => LET v == EntryOf(Key).value IN v # Nothing => now - v < 2 * TTL + 2 * Delay

\* Stale-while-revalidate: a call that returns a value older than softTtl and
\* has a fetcher leaves a refresh running.
StaleIsRefreshed ==
    [][\A c \in Calls :
         /\ call[c].pc # "done" /\ call'[c].pc = "done"
         /\ mode = "revalidate" /\ call[c].fetcher
         /\ call'[c].got # Nothing /\ now - call'[c].got >= SoftTTL
         => call[c].pc = "saving" \/ refresh'[c].pc = "fetching"]_vars

=============================================================================
