-------------------------------- MODULE QLRU --------------------------------
(***************************************************************************)
(* ZanixQLRUConnector (cache/providers/qlru/connector.ts): the local cache *)
(* of a process.  A Map keeps its keys in order of insertion, and get()    *)
(* and set() insert a key anew, so the Map is a sequence with the least    *)
(* recently used entry first.  A value is the instant it was obtained at.  *)
(***************************************************************************)
EXTENDS Integers, Sequences, FiniteSets, SequencesExt

CONSTANTS
    Keys,
    Capacity,   \* options.capacity
    DefaultTTL, \* options.ttl, 0 for none
    MaxTime,    \* bound: the clock stops here
    MaxSets     \* bound: the sets of the application

ASSUME CacheConstants ==
    /\ Capacity \in Nat \ {0} /\ {DefaultTTL, MaxSets} \subseteq Nat
    /\ MaxTime \in Nat \ {0, 1}

VARIABLES
    now,
    cache,      \* #cache: [key, value, exp], exp = 0 when it does not expire
    timeouts,   \* the scheduled sets whose setTimeout has not fired
    promised,   \* ghost: the entry each key was last set to, and the keys used
                \* since it was last used itself
    sets        \* how much of MaxSets has been spent

cacheVars == <<now, cache, timeouts, promised, sets>>

KEEPTTL == -1
Nothing == -1   \* undefined

Expired(e) == e.exp > 0 /\ now > e.exp
Holds(k) == \E i \in DOMAIN cache : cache[i].key = k
PlaceOf(k) == CHOOSE i \in DOMAIN cache : cache[i].key = k
EntryOf(k) == cache[PlaceOf(k)]
Others(k) == IF Holds(k) THEN RemoveAt(cache, PlaceOf(k)) ELSE cache
Hit(k) == Holds(k) /\ ~Expired(EntryOf(k))

Expire(ttl) == IF ttl > 0 THEN now + ttl ELSE 0

\* set(): KEEPTTL keeps the expiration of the entry that is there, even if it
\* is over.
Expiration(k, ttl) ==
    IF ttl # KEEPTTL THEN Expire(ttl)
    ELSE IF Holds(k) THEN EntryOf(k).exp ELSE Expire(DefaultTTL)

CacheInit(start, spent) ==
    /\ now = start /\ cache = << >> /\ timeouts = << >> /\ sets = spent
    /\ promised = [k \in Keys |-> [value |-> Nothing, exp |-> 0, since |-> {}]]

\* The ghost: k is used, with this entry.
Use(k, e) ==
    promised' = [j \in Keys |->
        IF j = k THEN [value |-> e.value, exp |-> e.exp, since |-> {}]
                 ELSE [promised[j] EXCEPT !.since = @ \cup {k}]]

\* Mutants of LocalGet.
KeepsItsPlace(k) ==
    IF Hit(k) THEN Use(k, EntryOf(k)) /\ UNCHANGED cache
              ELSE cache' = Others(k) /\ UNCHANGED promised

RenewsOnHit(k) ==
    IF Hit(k)
    THEN cache' = Append(Others(k), [EntryOf(k) EXCEPT !.exp = Expiration(k, DefaultTTL)]) /\ Use(k, EntryOf(k))
    ELSE cache' = Others(k) /\ UNCHANGED promised

\* get(): a hit becomes the most recently used entry, an expired one goes.
LocalGet(k) ==
    IF Hit(k)
    THEN cache' = Append(Others(k), EntryOf(k)) /\ Use(k, EntryOf(k))
    ELSE cache' = Others(k) /\ UNCHANGED promised

LocalValue(k) == IF Hit(k) THEN EntryOf(k).value ELSE Nothing

\* The first key of the Map goes when there is one entry too many.
Evicted(entries) == IF Len(entries) > Capacity THEN Tail(entries) ELSE entries

LocalSet(k, v, ttl) ==
    LET e == [key |-> k, value |-> v, exp |-> Expiration(k, ttl)]
    IN  cache' = Evicted(Append(Others(k), e)) /\ Use(k, e)

LocalDelete(k) ==
    /\ cache' = Others(k)
    /\ promised' = [promised EXCEPT ![k].value = Nothing]

----------------------------------------------------------------------------
(* The application uses the cache directly. *)

TTLs == {DefaultTTL, 1, KEEPTTL}
SetBound == sets < MaxSets /\ sets' = sets + 1

Get(k) == LocalGet(k) /\ UNCHANGED <<now, timeouts, sets>>

\* has() removes an expired entry and is no use of a live one.
Has(k) ==
    /\ ~Hit(k) /\ cache' = Others(k)
    /\ UNCHANGED <<now, timeouts, promised, sets>>

Set(k, ttl) == SetBound /\ LocalSet(k, now, ttl) /\ UNCHANGED <<now, timeouts>>

\* set() with schedule: the value is taken now, the entry is made later.
Schedule(k, ttl) ==
    /\ SetBound
    /\ timeouts' = Append(timeouts, [key |-> k, value |-> now, ttl |-> ttl])
    /\ UNCHANGED <<now, cache, promised>>

ScheduledSet ==
    /\ timeouts # << >> /\ timeouts' = Tail(timeouts)
    /\ LocalSet(Head(timeouts).key, Head(timeouts).value, Head(timeouts).ttl)
    /\ UNCHANGED <<now, sets>>

Delete(k) == Holds(k) /\ LocalDelete(k) /\ UNCHANGED <<now, timeouts, sets>>

Clear ==
    /\ cache # << >> /\ cache' = << >>
    /\ promised' = [k \in Keys |-> [promised[k] EXCEPT !.value = Nothing]]
    /\ UNCHANGED <<now, timeouts, sets>>

\* The places of the entries that have not expired, in their order.
Ascending(f) == \A i, j \in DOMAIN f : i < j => f[i] < f[j]
Live == {i \in DOMAIN cache : ~Expired(cache[i])}
LivePlaces ==
    {place \in [1 .. Cardinality(Live) -> Live] : Ascending(place) /\ ToSet(place) = Live}

\* size(), keys() and values() start with evict(): every expired entry goes.
Evict ==
    /\ \E place \in LivePlaces : cache' = [i \in DOMAIN place |-> cache[place[i]]]
    /\ UNCHANGED <<now, timeouts, promised, sets>>

Tick == now < MaxTime /\ now' = now + 1 /\ UNCHANGED <<cache, timeouts, promised, sets>>

----------------------------------------------------------------------------
(* Properties. *)

CacheTypeOK ==
    /\ now \in 0 .. MaxTime /\ sets \in 0 .. MaxSets
    /\ \A e \in ToSet(cache) : e.key \in Keys /\ e.value \in -1 .. now /\ e.exp \in Nat
    /\ Len(cache) <= Capacity
    /\ \A i, j \in DOMAIN cache : cache[i].key = cache[j].key => i = j

\* The cache only forgets what has not been used for long: a key that is gone
\* before it expires was pushed out by as many other keys as the cache holds,
\* each used after it, whatever expired, overwritten or scheduled entries are
\* in between.
ForgetsOnlyTheLeastUsed ==
    \A k \in Keys :
      LET p == promised[k]
      IN  p.value # Nothing /\ ~Expired(p) /\ ~Holds(k) => Cardinality(p.since) >= Capacity
=============================================================================
