------------------------------ MODULE KVStore ------------------------------
(***************************************************************************)
(* Keys of ZanixKVStoreConnector (database/providers/sqlite/connector.ts): *)
(* a table of SQLite, whose file outlives the processes that use it, and a *)
(* lock per key in the memory of each connector.  get() and set() do not   *)
(* wait; what a caller runs with withLock() may wait between them.         *)
(***************************************************************************)
EXTENDS Integers

CONSTANTS
    Workers,    \* callers, each of a connector
    Connectors,
    TTLs,       \* the numbers of seconds given to set()
    MaxNow,     \* bound: the clock
    MaxSets,    \* bound: calls of set()
    Absent      \* null and undefined: no row, no value

VARIABLES
    row,        \* the row of the key: [value, expirationTime, ttl], or Absent
    now,        \* Date.now()
    worker,     \* worker[w]: its connector, and what it is doing with its lock
    promised,   \* the end of the TTL that was last given, 0 without one
    locked,     \* what was last set under a lock
    lost,       \* a set() under a lock followed another since its get()
    sets

kvVars == <<row, now, worker, promised, locked, lost, sets>>

KVInit ==
    /\ row = Absent /\ now = 1 /\ promised = 0 /\ sets = 0
    /\ locked = 0 /\ lost = FALSE
    /\ worker \in [Workers -> [of : Connectors, pc : {"out"}, read : {0}]]

Expired == row.ttl > 0 /\ now > row.expirationTime

Value == IF row = Absent \/ Expired THEN Absent ELSE row.value

-----------------------------------------------------------------------------
\* Mutant of Kept: the old TTL begins again.
RenewsTTL == [expirationTime |-> IF row = Absent \/ row.ttl = 0 THEN 0 ELSE now + row.ttl,
              ttl |-> IF row = Absent THEN 0 ELSE row.ttl]

\* KEEPTTL takes both columns of the old row, expired or not.
Kept == IF row = Absent THEN [expirationTime |-> 0, ttl |-> 0]
        ELSE [expirationTime |-> row.expirationTime, ttl |-> row.ttl]

\* A TTL of zero, or less, is none.
Given(ttl) == [expirationTime |-> IF ttl > 0 THEN now + ttl ELSE 0, ttl |-> ttl]

\* Every set() has a value of its own: its number.
Write(columns) ==
    /\ sets < MaxSets /\ sets' = sets + 1
    /\ row' = [value |-> sets + 1, expirationTime |-> columns.expirationTime, ttl |-> columns.ttl]

SetKeepTTL ==
    /\ Write(Kept)
    /\ promised' = IF row = Absent THEN 0 ELSE promised
    /\ UNCHANGED <<now, worker, locked, lost>>

SetTTL ==
    /\ \E ttl \in TTLs : Write(Given(ttl)) /\ promised' = IF ttl > 0 THEN now + ttl ELSE 0
    /\ UNCHANGED <<now, worker, locked, lost>>

DeleteKey ==
    /\ row # Absent /\ row' = Absent /\ promised' = 0
    /\ UNCHANGED <<now, worker, locked, lost, sets>>

Tick ==
    /\ now < MaxNow /\ now' = now + 1
    /\ UNCHANGED <<row, worker, promised, locked, lost, sets>>

-----------------------------------------------------------------------------
\* withLock(): get(), something that waits, and set() of what came of it.

Free(w) == \A o \in Workers : worker[o].of = worker[w].of => worker[o].pc = "out"

LockAndGet(w) ==
    /\ worker[w].pc = "out" /\ Free(w)
    /\ worker' = [worker EXCEPT ![w].pc = "in", ![w].read = locked]
    /\ UNCHANGED <<row, now, promised, locked, lost, sets>>

SetAndUnlock(w) ==
    /\ worker[w].pc = "in"
    /\ Write(Given(0)) /\ promised' = 0
    /\ worker' = [worker EXCEPT ![w].pc = "out", ![w].read = 0]
    /\ locked' = sets + 1
    /\ lost' = (lost \/ locked # worker[w].read)
    /\ UNCHANGED now

KVNext ==
    \/ SetKeepTTL \/ SetTTL \/ DeleteKey \/ Tick
    \/ \E w \in Workers : LockAndGet(w) \/ SetAndUnlock(w)

-----------------------------------------------------------------------------
\* A value is read until the end of the TTL it was last given, and not after;
\* KEEPTTL neither extends it nor ends it early, but a value set with KEEPTTL
\* after that end is never read.
LivesItsTTL == row # Absent => (Value = Absent <=> promised # 0 /\ now > promised)

\* The lock serializes get and set of the callers of one connector; only those
\* of several connectors lose each other's updates.
LocksSerialize == lost => \E v, w \in Workers : worker[v].of # worker[w].of

\* What a key promises: the end of its value, and its lock.
KeyKeepsItsPromises == LivesItsTTL /\ LocksSerialize
=============================================================================
