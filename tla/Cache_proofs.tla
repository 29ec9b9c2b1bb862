---------------------------- MODULE Cache_proofs ----------------------------
(***************************************************************************)
(* Proofs about QLRU and CacheProvider, for every set of keys and calls,   *)
(* every capacity, expiry and delay.                                       *)
(*                                                                         *)
(* The local cache.  What the invariant adds to the property is the order: *)
(* an entry is as its key was last set, and the key of every entry behind  *)
(* it has been used since.  An entry that is pushed out has Capacity such  *)
(* entries behind it.                                                      *)
(***************************************************************************)
EXTENDS CacheProvider, TLAPS, FiniteSetTheorems, SequenceTheorems

Entry == [key : Keys, value : Int, exp : Nat]
Promise == [value : Int, exp : Nat, since : SUBSET Keys]

Distinct(s) == \A i, j \in DOMAIN s : s[i].key = s[j].key => i = j

\* An entry is as its key was last set, and what is behind it was used since.
InOrder(s, p) ==
    \A i \in DOMAIN s :
      /\ p[s[i].key].value = s[i].value /\ p[s[i].key].exp = s[i].exp
      /\ \A j \in DOMAIN s : i < j => s[j].key \in p[s[i].key].since

Entries ==
    /\ now \in 0 .. MaxTime
    /\ cache \in Seq(Entry) /\ Len(cache) <= Capacity
    /\ \A i \in DOMAIN cache : cache[i].value \in -1 .. now
    /\ promised \in [Keys -> Promise]
    /\ \A k \in Keys : IsFiniteSet(promised[k].since)

CacheInv == Entries /\ Distinct(cache) /\ InOrder(cache, promised) /\ ForgetsOnlyTheLeastUsed

-----------------------------------------------------------------------------
\* What is left of a sequence: some of its elements, in their order.
Left(q, s) ==
    \E place \in [DOMAIN q -> DOMAIN s] :
      /\ \A i, j \in DOMAIN q : i < j => place[i] < place[j]
      /\ \A i \in DOMAIN q : q[i] = s[place[i]]

LEMMA LeftKeeps ==
  ASSUME NEW s \in Seq(Entry), NEW q \in Seq(Entry), Left(q, s), NEW p, Distinct(s), InOrder(s, p)
  PROVE  /\ Distinct(q) /\ InOrder(q, p)
         /\ \A i \in DOMAIN q : \E j \in DOMAIN s : q[i] = s[j]
<1>1. PICK place \in [DOMAIN q -> DOMAIN s] :
        /\ \A i, j \in DOMAIN q : i < j => place[i] < place[j]
        /\ \A i \in DOMAIN q : q[i] = s[place[i]]
  BY DEF Left
<1>2. DOMAIN q \subseteq Int /\ DOMAIN s \subseteq Int
  OBVIOUS
<1>3. Distinct(q)
  <2> SUFFICES ASSUME NEW i \in DOMAIN q, NEW j \in DOMAIN q, q[i].key = q[j].key
               PROVE  i = j
    BY DEF Distinct
  <2>1. place[i] = place[j]
    BY <1>1 DEF Distinct
  <2>2. ~(i < j) /\ ~(j < i)
    BY <1>1, <1>2, <2>1
  <2> QED
    BY <1>2, <2>2
<1>4. InOrder(q, p)
  BY <1>1 DEF InOrder
<1> QED
  BY <1>1, <1>3, <1>4

\* The place of a key, and the entries of the others.
LEMMA PlaceFacts ==
  ASSUME NEW k, Holds(k)
  PROVE  PlaceOf(k) \in DOMAIN cache /\ cache[PlaceOf(k)].key = k /\ EntryOf(k) = cache[PlaceOf(k)]
BY DEF Holds, PlaceOf, EntryOf

LEMMA RemoveFacts ==
  ASSUME NEW S, NEW s \in Seq(S), NEW n \in DOMAIN s
  PROVE  /\ RemoveAt(s, n) \in Seq(S) /\ Len(RemoveAt(s, n)) = Len(s) - 1
         /\ DOMAIN RemoveAt(s, n) = 1 .. Len(s) - 1 /\ DOMAIN s = 1 .. Len(s) /\ Len(s) \in Nat
         /\ \A i \in DOMAIN RemoveAt(s, n) : RemoveAt(s, n)[i] = IF i < n THEN s[i] ELSE s[i + 1]
<1> DEFINE a == SubSeq(s, 1, n - 1)
           b == SubSeq(s, n + 1, Len(s))
           o == RemoveAt(s, n)
<1>1. n \in Nat \ {0} /\ n <= Len(s) /\ Len(s) \in Nat /\ DOMAIN s = 1 .. Len(s)
  OBVIOUS
<1>2. /\ a \in Seq(S) /\ Len(a) = n - 1
      /\ \A i \in 1 .. n - 1 : a[i] = s[i]
  BY <1>1, SubSeqProperties
<1>3. /\ b \in Seq(S) /\ Len(b) = Len(s) - n
      /\ \A i \in 1 .. Len(s) - n : b[i] = s[n + i]
  <2>1. \A i \in n + 1 .. Len(s) : s[i] \in S
    BY <1>1
  <2>2. /\ b \in Seq(S) /\ Len(b) = IF n + 1 <= Len(s) THEN Len(s) - (n + 1) + 1 ELSE 0
        /\ \A i \in 1 .. Len(s) - (n + 1) + 1 : b[i] = s[n + 1 + i - 1]
    BY <1>1, <2>1, SubSeqProperties
  <2>3. Len(s) - (n + 1) + 1 = Len(s) - n
    BY <1>1
  <2> QED
    BY <1>1, <2>2, <2>3
<1>4. o = a \o b
  BY DEF RemoveAt
<1> HIDE DEF a, b, o
<1>5. /\ o \in Seq(S) /\ Len(o) = Len(s) - 1
      /\ \A i \in 1 .. Len(s) - 1 : o[i] = IF i <= n - 1 THEN a[i] ELSE b[i - (n - 1)]
  <2>1. Len(a) + Len(b) = Len(s) - 1
    BY <1>1, <1>2, <1>3
  <2>2. /\ a \o b \in Seq(S) /\ Len(a \o b) = Len(a) + Len(b)
        /\ \A i \in 1 .. Len(a) + Len(b) : (a \o b)[i] = IF i <= Len(a) THEN a[i] ELSE b[i - Len(a)]
    BY <1>2, <1>3, ConcatProperties
  <2> QED
    BY <1>2, <1>4, <2>1, <2>2
<1>6. DOMAIN o = 1 .. Len(s) - 1
  BY <1>5
<1>7. ASSUME NEW i \in DOMAIN o, ~(i < n)
      PROVE  o[i] = s[i + 1]
  <2>1. i - (n - 1) \in 1 .. Len(s) - n /\ n + (i - (n - 1)) = i + 1 /\ ~(i <= n - 1)
    BY <1>1, <1>6, <1>7
  <2> QED
    BY <1>3, <1>5, <1>6, <2>1
<1>8. ASSUME NEW i \in DOMAIN o, i < n
      PROVE  o[i] = s[i]
  <2>1. i \in 1 .. n - 1 /\ i <= n - 1
    BY <1>1, <1>6, <1>8
  <2> QED
    BY <1>2, <1>5, <1>6, <2>1
<1> QED
  BY <1>1, <1>5, <1>6, <1>7, <1>8 DEF o

LEMMA OthersFacts ==
  ASSUME cache \in Seq(Entry), Distinct(cache), NEW k
  PROVE  /\ Others(k) \in Seq(Entry) /\ Left(Others(k), cache)
         /\ Len(Others(k)) = IF Holds(k) THEN Len(cache) - 1 ELSE Len(cache)
         /\ \A i \in DOMAIN Others(k) : Others(k)[i].key # k
         /\ \A j \in DOMAIN cache : cache[j].key # k => \E i \in DOMAIN Others(k) : Others(k)[i] = cache[j]
<1>1. CASE ~Holds(k)
  <2>1. Others(k) = cache
    BY <1>1 DEF Others
  <2>2. Left(cache, cache)
    <3> DEFINE place == [i \in DOMAIN cache |-> i]
    <3>1. /\ place \in [DOMAIN cache -> DOMAIN cache]
          /\ \A i, j \in DOMAIN cache : i < j => place[i] < place[j]
          /\ \A i \in DOMAIN cache : cache[i] = cache[place[i]]
      OBVIOUS
    <3> HIDE DEF place
    <3> QED
      BY <3>1 DEF Left
  <2> QED
    BY <1>1, <2>1, <2>2 DEF Holds
<1>2. CASE Holds(k)
  <2> DEFINE n == PlaceOf(k)
             o == RemoveAt(cache, n)
             place == [i \in DOMAIN o |-> IF i < n THEN i ELSE i + 1]
  <2>1. n \in DOMAIN cache /\ cache[n].key = k /\ Others(k) = o
    BY <1>2, PlaceFacts DEF Others
  <2> HIDE DEF n
  <2>2. /\ o \in Seq(Entry) /\ Len(o) = Len(cache) - 1
        /\ DOMAIN o = 1 .. Len(cache) - 1 /\ DOMAIN cache = 1 .. Len(cache) /\ Len(cache) \in Nat
        /\ \A i \in DOMAIN o : o[i] = IF i < n THEN cache[i] ELSE cache[i + 1]
    BY <2>1, RemoveFacts
  <2> HIDE DEF o
  <2>3. /\ place \in [DOMAIN o -> DOMAIN cache]
        /\ \A i, j \in DOMAIN o : i < j => place[i] < place[j]
        /\ \A i \in DOMAIN o : o[i] = cache[place[i]] /\ place[i] # n
    BY SMTT(30), <2>1, <2>2
  <2>4. ASSUME NEW j \in DOMAIN cache, cache[j].key # k
        PROVE  \E i \in DOMAIN o : o[i] = cache[j]
    <3>1. CASE j < n
      BY <2>1, <2>2, <3>1
    <3>2. CASE j > n
      <4>1. j - 1 \in DOMAIN o /\ ~(j - 1 < n) /\ (j - 1) + 1 = j
        BY <2>1, <2>2, <3>2
      <4> QED
        BY <2>2, <4>1
    <3> QED
      BY <2>1, <2>2, <2>4, <3>1, <3>2
  <2> HIDE DEF place
  <2>5. Left(o, cache)
    BY <2>3 DEF Left
  <2>6. \A i \in DOMAIN o : o[i].key # k
    BY <2>1, <2>3 DEF Distinct
  <2> QED
    BY <1>2, <2>1, <2>2, <2>4, <2>5, <2>6
<1> QED
  BY <1>1, <1>2

-----------------------------------------------------------------------------
\* A key that is not in the cache, and is neither used nor set, stays forgotten
\* for a reason.
LEMMA StillForgotten ==
  ASSUME Entries, ForgetsOnlyTheLeastUsed, NEW k \in Keys, ~Holds(k), now' \in Int, now' >= now,
         promised'[k].value = promised[k].value, promised'[k].exp = promised[k].exp,
         promised[k].since \subseteq promised'[k].since, IsFiniteSet(promised'[k].since),
         promised'[k].value # Nothing, ~Expired(promised[k])'
  PROVE  Cardinality(promised'[k].since) >= Capacity
<1>1. ~Expired(promised[k]) /\ promised[k].value # Nothing
  BY DEF Expired, Entries, Promise
<1>2. Cardinality(promised[k].since) >= Capacity
  BY <1>1 DEF ForgetsOnlyTheLeastUsed
<1>3. /\ Cardinality(promised[k].since) <= Cardinality(promised'[k].since)
      /\ Cardinality(promised'[k].since) \in Nat /\ Cardinality(promised[k].since) \in Nat
  BY FS_Subset, FS_CardinalityType DEF Entries
<1> QED
  BY <1>2, <1>3, CacheConstants

\* Entries that are over, or whose key is deleted, go.
LEMMA DropKeepsInv ==
  ASSUME CacheInv, UNCHANGED now,
         cache' \in Seq(Entry), Left(cache', cache), Len(cache') <= Capacity,
         promised' \in [Keys -> Promise],
         \A k \in Keys : promised'[k].exp = promised[k].exp /\ promised'[k].since = promised[k].since,
         \A k \in Keys : promised'[k].value \in {promised[k].value, Nothing},
         \A i \in DOMAIN cache' : promised'[cache'[i].key].value = promised[cache'[i].key].value,
         \A j \in DOMAIN cache : \/ \E i \in DOMAIN cache' : cache'[i].key = cache[j].key
                                 \/ Expired(cache[j])
                                 \/ promised'[cache[j].key].value = Nothing
  PROVE  CacheInv' /\ \A i \in DOMAIN cache' : \E j \in DOMAIN cache : cache'[i] = cache[j]
<1> USE DEF CacheInv
<1>1. /\ Distinct(cache') /\ InOrder(cache', promised)
      /\ \A i \in DOMAIN cache' : \E j \in DOMAIN cache : cache'[i] = cache[j]
  BY LeftKeeps DEF Entries
<1>2. InOrder(cache', promised')
  <2>1. \A i \in DOMAIN cache' : cache'[i].key \in Keys
    <3>1. \A i \in DOMAIN cache' : cache'[i] \in Entry
      OBVIOUS
    <3> QED
      BY <3>1 DEF Entry
  <2> QED
    BY <1>1, <2>1 DEF InOrder
<1>3. Entries'
  BY <1>1 DEF Entries
<1>4. ForgetsOnlyTheLeastUsed'
  <2> SUFFICES ASSUME NEW k \in Keys, promised'[k].value # Nothing, ~Expired(promised[k])', ~Holds(k)'
               PROVE  Cardinality(promised'[k].since) >= Capacity
    BY DEF ForgetsOnlyTheLeastUsed, Expired
  <2>1. ASSUME Holds(k) PROVE FALSE
    <3>1. PICK j \in DOMAIN cache : cache[j].key = k
      BY <2>1 DEF Holds
    <3>2. Expired(cache[j])
      BY <3>1 DEF Holds
    <3>3. Expired(promised[k])'
      BY <3>1, <3>2 DEF Expired, InOrder
    <3> QED
      BY <3>3
  <2>2. now' \in Int /\ now' >= now /\ IsFiniteSet(promised'[k].since)
    BY DEF Entries
  <2> QED
    BY <2>1, <2>2, StillForgotten
<1> QED
  BY <1>1, <1>2, <1>3, <1>4

-----------------------------------------------------------------------------
\* A key is used: its entry goes to the end, and the first one goes if there is
\* one too many.  It leaves Capacity entries behind.
LEMMA UseKeepsInv ==
  ASSUME CacheInv, UNCHANGED now, NEW k \in Keys, NEW e \in Entry, e.key = k, e.value \in -1 .. now,
         Use(k, e), cache' = Evicted(Append(Others(k), e))
  PROVE  /\ CacheInv'
         /\ \A i \in DOMAIN cache' : cache'[i] = e \/ \E j \in DOMAIN cache : cache'[i] = cache[j]
<1> USE DEF CacheInv
<1> DEFINE q == Others(k)
           a == Append(q, e)
<1>1. /\ q \in Seq(Entry) /\ Left(q, cache) /\ Len(q) <= Len(cache)
      /\ \A i \in DOMAIN q : q[i].key # k
      /\ \A j \in DOMAIN cache : cache[j].key # k => \E i \in DOMAIN q : q[i] = cache[j]
      /\ Len(cache) \in Nat /\ Len(cache) <= Capacity
  <2>1. cache \in Seq(Entry) /\ Distinct(cache) /\ Len(cache) \in Nat /\ Len(cache) <= Capacity
    BY DEF Entries
  <2> QED
    BY <2>1, OthersFacts
<1>2. /\ Distinct(q) /\ InOrder(q, promised)
      /\ \A i \in DOMAIN q : \E j \in DOMAIN cache : q[i] = cache[j]
  BY <1>1, LeftKeeps DEF Entries
<1>3. \A i \in DOMAIN q : q[i].value \in -1 .. now /\ q[i].key \in Keys
  <2>1. \A i \in DOMAIN q : q[i] \in Entry
    BY <1>1
  <2> QED
    BY <1>2, <2>1 DEF Entries, Entry
<1> HIDE DEF q
<1>4. PICK n \in Nat : n = Len(q) /\ n <= Capacity /\ DOMAIN q = 1 .. n
  BY <1>1, CacheConstants
<1>5. /\ a \in Seq(Entry) /\ Len(a) = n + 1 /\ DOMAIN a = 1 .. n + 1
      /\ a[n + 1] = e /\ \A i \in 1 .. n : a[i] = q[i]
  BY <1>1, <1>4, AppendProperties
<1> HIDE DEF a
<1>6. /\ promised' \in [Keys -> Promise]
      /\ promised'[k].value = e.value /\ promised'[k].exp = e.exp /\ promised'[k].since = {}
      /\ \A o \in Keys \ {k} :
           /\ promised'[o].value = promised[o].value /\ promised'[o].exp = promised[o].exp
           /\ promised'[o].since = promised[o].since \cup {k}
  <2>1. e.value \in Int /\ e.exp \in Nat
    BY DEF Entry
  <2>2. ASSUME NEW o \in Keys
        PROVE  /\ [promised[o] EXCEPT !.since = @ \cup {k}] \in Promise
               /\ [promised[o] EXCEPT !.since = @ \cup {k}].value = promised[o].value
               /\ [promised[o] EXCEPT !.since = @ \cup {k}].exp = promised[o].exp
               /\ [promised[o] EXCEPT !.since = @ \cup {k}].since = promised[o].since \cup {k}
    <3> DEFINE old == promised[o]
    <3>1. old \in Promise
      BY DEF Entries
    <3> HIDE DEF old
    <3>2. /\ [old EXCEPT !.since = @ \cup {k}] \in Promise
          /\ [old EXCEPT !.since = @ \cup {k}].value = old.value
          /\ [old EXCEPT !.since = @ \cup {k}].exp = old.exp
          /\ [old EXCEPT !.since = @ \cup {k}].since = old.since \cup {k}
      BY <3>1 DEF Promise
    <3> QED
      BY <3>2 DEF old
  <2>3. [value |-> e.value, exp |-> e.exp, since |-> {}] \in Promise
    BY <2>1 DEF Promise
  <2> QED
    BY <2>2, <2>3 DEF Use
<1>7. Distinct(a)
  <2> SUFFICES ASSUME NEW i \in 1 .. n + 1, NEW j \in 1 .. n + 1, a[i].key = a[j].key
               PROVE  i = j
    BY <1>5 DEF Distinct
  <2>1. \A x \in 1 .. n : a[x].key # k /\ a[x] = q[x]
    BY <1>1, <1>4, <1>5
  <2>2. a[n + 1].key = k
    BY <1>5
  <2>3. (i \in 1 .. n \/ i = n + 1) /\ (j \in 1 .. n \/ j = n + 1)
    OBVIOUS
  <2>4. CASE i \in 1 .. n /\ j \in 1 .. n
    BY <1>2, <1>4, <2>1, <2>4 DEF Distinct
  <2> QED
    BY <2>1, <2>2, <2>3, <2>4
<1>8. InOrder(a, promised')
  <2> SUFFICES ASSUME NEW i \in 1 .. n + 1
               PROVE  /\ promised'[a[i].key].value = a[i].value /\ promised'[a[i].key].exp = a[i].exp
                      /\ \A j \in 1 .. n + 1 : i < j => a[j].key \in promised'[a[i].key].since
    BY <1>5 DEF InOrder
  <2>1. CASE i = n + 1
    BY <1>5, <1>6, <2>1
  <2>2. CASE i \in 1 .. n
    <3>1. a[i] = q[i] /\ q[i].key \in Keys \ {k}
      BY <1>1, <1>3, <1>4, <1>5, <2>2
    <3>2. promised'[a[i].key].value = a[i].value /\ promised'[a[i].key].exp = a[i].exp
      BY <1>2, <1>4, <1>6, <2>2, <3>1 DEF InOrder
    <3>3. ASSUME NEW j \in 1 .. n + 1, i < j
          PROVE  a[j].key \in promised'[a[i].key].since
      <4>1. CASE j = n + 1
        BY <1>5, <1>6, <3>1, <4>1
      <4>2. CASE j \in 1 .. n
        BY <1>2, <1>4, <1>5, <1>6, <2>2, <3>1, <3>3, <4>2 DEF InOrder
      <4> QED
        BY <4>1, <4>2
    <3> QED
      BY <3>2, <3>3
  <2> QED
    BY <2>1, <2>2
<1>9. \A i \in 1 .. n + 1 : a[i].value \in -1 .. now
  BY <1>3, <1>4, <1>5
<1>10. \A o \in Keys : IsFiniteSet(promised'[o].since)
  <2> SUFFICES ASSUME NEW o \in Keys
               PROVE  IsFiniteSet(promised'[o].since)
    OBVIOUS
  <2>1. CASE o = k
    BY <1>6, <2>1, FS_EmptySet
  <2>2. CASE o # k
    <3>1. IsFiniteSet(promised[o].since)
      BY DEF Entries
    <3>2. IsFiniteSet(promised[o].since \cup {k})
      BY <3>1, FS_AddElement
    <3> QED
      BY <1>6, <2>2, <3>2
  <2> QED
    BY <2>1, <2>2
<1>11. \A i \in 1 .. n + 1 : a[i] = e \/ \E j \in DOMAIN cache : a[i] = cache[j]
  BY <1>2, <1>4, <1>5
<1>12. ASSUME NEW o \in Keys, o # k, promised'[o].value # Nothing, ~Expired(promised[o])',
              \A i \in 1 .. n : q[i].key # o
       PROVE  Cardinality(promised'[o].since) >= Capacity
  <2>1. ~Holds(o)
    <3> SUFFICES ASSUME NEW j \in DOMAIN cache, cache[j].key = o
                 PROVE  FALSE
      BY DEF Holds
    <3>1. PICK i \in DOMAIN q : q[i] = cache[j]
      BY <1>1, <1>12
    <3> QED
      BY <1>4, <1>12, <3>1
  <2>2. now' \in Int /\ now' >= now
    BY DEF Entries
  <2> QED
    BY <1>6, <1>10, <1>12, <2>1, <2>2, StillForgotten
<1>13. Entries' /\ Distinct(cache') /\ InOrder(cache', promised')
         /\ \A i \in DOMAIN cache' : cache'[i] = e \/ \E j \in DOMAIN cache : cache'[i] = cache[j]
  <2>1. CASE ~(n + 1 > Capacity)
    <3>1. cache' = a
      BY <1>5, <2>1 DEF Evicted, a, q
    <3>2. Len(cache') <= Capacity
      BY <1>5, <2>1, <3>1, CacheConstants
    <3>3. Entries'
      BY <1>5, <1>6, <1>9, <1>10, <3>1, <3>2 DEF Entries
    <3> QED
      BY <1>5, <1>7, <1>8, <1>11, <3>1, <3>3
  <2>2. CASE n + 1 > Capacity
    <3>1. cache' = Tail(a) /\ n = Capacity
      BY <1>4, <1>5, <2>2, CacheConstants DEF Evicted, a, q
    <3>2. /\ cache' \in Seq(Entry) /\ Len(cache') = n /\ DOMAIN cache' = 1 .. n
          /\ \A i \in 1 .. n : cache'[i] = a[i + 1]
      BY <1>5, <3>1, HeadTailProperties
    <3>5. \A i \in 1 .. n : i \in Int /\ i + 1 \in DOMAIN a
      BY <1>5
    <3>3. Distinct(cache')
      <4> SUFFICES ASSUME NEW i \in 1 .. n, NEW j \in 1 .. n, cache'[i].key = cache'[j].key
                   PROVE  i = j
        BY <3>2 DEF Distinct
      <4>1. i + 1 = j + 1
        BY <1>7, <3>2, <3>5 DEF Distinct
      <4> QED
        BY <4>1
    <3>4. InOrder(cache', promised')
      <4> SUFFICES ASSUME NEW i \in 1 .. n
                   PROVE  /\ promised'[cache'[i].key].value = cache'[i].value
                          /\ promised'[cache'[i].key].exp = cache'[i].exp
                          /\ \A j \in 1 .. n : i < j => cache'[j].key \in promised'[cache'[i].key].since
        BY <3>2 DEF InOrder
      <4>1. \A j \in 1 .. n : i < j => i + 1 < j + 1
        OBVIOUS
      <4> QED
        BY SMTT(30), <1>8, <3>2, <3>5, <4>1 DEF InOrder
    <3>6. Entries'
      BY <1>5, <1>6, <1>9, <1>10, <3>1, <3>2, <3>5 DEF Entries
    <3> QED
      BY <1>11, <3>2, <3>3, <3>4, <3>5, <3>6
  <2> QED
    BY <2>1, <2>2
<1>14. ForgetsOnlyTheLeastUsed'
  <2> SUFFICES ASSUME NEW o \in Keys, promised'[o].value # Nothing, ~Expired(promised[o])', ~Holds(o)'
               PROVE  Cardinality(promised'[o].since) >= Capacity
    BY DEF ForgetsOnlyTheLeastUsed, Expired
  <2>1. CASE ~(n + 1 > Capacity)
    <3>1. cache' = a
      BY <1>5, <2>1 DEF Evicted, a, q
    <3>2. o # k /\ \A i \in 1 .. n : q[i].key # o
      BY <1>5, <3>1 DEF Holds
    <3> QED
      BY <1>12, <3>2
  <2>2. CASE n + 1 > Capacity
    <3>1. cache' = Tail(a) /\ n = Capacity
      BY <1>4, <1>5, <2>2, CacheConstants DEF Evicted, a, q
    <3>2. /\ DOMAIN cache' = 1 .. n /\ \A i \in 1 .. n : cache'[i] = a[i + 1]
      BY <1>5, <3>1, HeadTailProperties
    <3>3. n \in 1 .. n /\ o # k
      <4>1. n \in 1 .. n
        BY <3>1, CacheConstants
      <4>2. cache'[n].key = k
        BY <1>5, <3>2, <4>1
      <4> QED
        BY <3>2, <4>1, <4>2 DEF Holds
    <3>4. CASE \A i \in 1 .. n : q[i].key # o
      BY <1>12, <3>3, <3>4
    <3>5. CASE \E i \in 1 .. n : q[i].key = o
      <4>1. PICK i \in 1 .. n : q[i].key = o
        BY <3>5
      <4>2. i = 1
        <5>1. i # 1 => i - 1 \in 1 .. n /\ (i - 1) + 1 = i
          OBVIOUS
        <5>2. i # 1 => cache'[i - 1].key = o
          BY <1>5, <3>2, <4>1, <5>1
        <5> QED
          BY <3>2, <5>1, <5>2 DEF Holds
      <4>3. a[1].key = o /\ 1 \in DOMAIN a
        BY <1>5, <4>1, <4>2
      <4> DEFINE f == [j \in 1 .. n |-> a[j + 1].key]
      <4>4. \A j \in 1 .. n : j + 1 \in DOMAIN a /\ 1 < j + 1
        BY <1>5
      <4>5. f \in [1 .. n -> promised'[o].since]
        BY <1>8, <4>3, <4>4 DEF InOrder
      <4>6. \A x, y \in 1 .. n : f[x] = f[y] => x = y
        BY <1>7, <4>4 DEF Distinct
      <4> HIDE DEF f
      <4>7. f \in Injection(1 .. n, promised'[o].since)
        BY <4>5, <4>6 DEF Injection, IsInjective
      <4>8. Cardinality(1 .. n) <= Cardinality(promised'[o].since)
        BY <1>10, <4>7, FS_Injection
      <4>9. Cardinality(1 .. n) = n
        BY <3>3, FS_Interval
      <4> QED
        BY <1>10, <3>1, <4>8, <4>9, FS_CardinalityType
    <3> QED
      BY <3>4, <3>5
  <2> QED
    BY <2>1, <2>2
<1> QED
  BY <1>13, <1>14

-----------------------------------------------------------------------------
\* The operations of the cache.
SameCache == UNCHANGED <<now, cache, promised>>

LEMMA SameCacheKeepsInv == CacheInv /\ SameCache => CacheInv'
BY DEF SameCache, CacheInv, Entries, Distinct, InOrder, ForgetsOnlyTheLeastUsed, Expired, Holds

LEMMA HitFacts ==
  ASSUME CacheInv, NEW k \in Keys, Holds(k)
  PROVE  /\ EntryOf(k) \in Entry /\ EntryOf(k).key = k /\ EntryOf(k).value \in -1 .. now
         /\ EntryOf(k).exp \in Nat
         /\ \E j \in DOMAIN cache : EntryOf(k) = cache[j]
         /\ \A j \in DOMAIN cache : cache[j].key = k => cache[j] = EntryOf(k)
<1>1. PlaceOf(k) \in DOMAIN cache /\ cache[PlaceOf(k)].key = k /\ EntryOf(k) = cache[PlaceOf(k)]
  BY PlaceFacts
<1>2. EntryOf(k) \in Entry
  BY <1>1 DEF CacheInv, Entries
<1>3. EntryOf(k).exp \in Nat
  BY <1>2 DEF Entry
<1> QED
  BY <1>1, <1>2, <1>3 DEF CacheInv, Entries, Distinct

\* The entry of a key goes because it is over, or because the key is deleted.
LEMMA RemovalKeepsInv ==
  ASSUME CacheInv, NEW k \in Keys, UNCHANGED now, cache' = Others(k),
         \/ ~Hit(k) /\ UNCHANGED promised
         \/ promised' = [promised EXCEPT ![k].value = Nothing]
  PROVE  CacheInv' /\ \A i \in DOMAIN cache' : \E j \in DOMAIN cache : cache'[i] = cache[j]
<1> USE DEF CacheInv
<1>1. cache \in Seq(Entry) /\ Distinct(cache) /\ Len(cache) \in Nat /\ Len(cache) <= Capacity
  BY DEF Entries
<1>2. /\ cache' \in Seq(Entry) /\ Left(cache', cache) /\ Len(cache') <= Capacity
      /\ \A i \in DOMAIN cache' : cache'[i].key # k
      /\ \A j \in DOMAIN cache : cache[j].key # k => \E i \in DOMAIN cache' : cache'[i] = cache[j]
  BY <1>1, OthersFacts, CacheConstants
<1>3. /\ promised' \in [Keys -> Promise]
      /\ \A o \in Keys : /\ promised'[o].exp = promised[o].exp /\ promised'[o].since = promised[o].since
                         /\ promised'[o].value \in {promised[o].value, Nothing}
      /\ \A o \in Keys \ {k} : promised'[o] = promised[o]
  <2>1. promised[k] \in Promise /\ Nothing \in Int /\ promised \in [Keys -> Promise]
    BY DEF Entries, Nothing
  <2> DEFINE old == promised[k]
  <2>2. promised' \in {promised, [promised EXCEPT ![k] = [old EXCEPT !.value = Nothing]]}
    OBVIOUS
  <2>3. old \in Promise
    BY <2>1
  <2> HIDE DEF old
  <2>4. /\ [old EXCEPT !.value = Nothing] \in Promise
        /\ [old EXCEPT !.value = Nothing].value = Nothing
        /\ [old EXCEPT !.value = Nothing].exp = old.exp
        /\ [old EXCEPT !.value = Nothing].since = old.since
    BY <2>1, <2>3 DEF Promise
  <2> QED
    BY <2>1, <2>2, <2>4 DEF old
<1>4. \A i \in DOMAIN cache' : promised'[cache'[i].key].value = promised[cache'[i].key].value
  <2>1. \A i \in DOMAIN cache' : cache'[i].key \in Keys
    <3>1. \A i \in DOMAIN cache' : cache'[i] \in Entry
      BY <1>2
    <3> QED
      BY <3>1 DEF Entry
  <2> QED
    BY <1>2, <1>3, <2>1
<1>5. ASSUME NEW j \in DOMAIN cache
      PROVE  \/ \E i \in DOMAIN cache' : cache'[i].key = cache[j].key
             \/ Expired(cache[j])
             \/ promised'[cache[j].key].value = Nothing
  <2>1. CASE cache[j].key # k
    BY <1>2, <2>1
  <2>2. CASE cache[j].key = k /\ ~Hit(k)
    <3>1. Holds(k)
      BY <2>2 DEF Holds
    <3> QED
      BY <2>2, <3>1, HitFacts DEF Hit
  <2>3. CASE cache[j].key = k /\ promised' = [promised EXCEPT ![k].value = Nothing]
    BY <1>3, <2>3 DEF Entries, Promise
  <2> QED
    BY <2>1, <2>2, <2>3
<1> QED
  BY <1>2, <1>3, <1>4, <1>5, DropKeepsInv

LEMMA LocalGetKeepsInv ==
  ASSUME CacheInv, NEW k \in Keys, LocalGet(k), UNCHANGED now
  PROVE  CacheInv' /\ \A i \in DOMAIN cache' : \E j \in DOMAIN cache : cache'[i] = cache[j]
<1>1. CASE Hit(k)
  <2> DEFINE e == EntryOf(k)
  <2>1. Holds(k) /\ cache' = Append(Others(k), e) /\ Use(k, e)
    BY <1>1 DEF LocalGet, Hit
  <2>2. e \in Entry /\ e.key = k /\ e.value \in -1 .. now /\ \E j \in DOMAIN cache : e = cache[j]
    BY <2>1, HitFacts
  <2>3. Others(k) \in Seq(Entry) /\ Len(Others(k)) = Len(cache) - 1 /\ Len(cache) \in Nat /\ Len(cache) <= Capacity
    BY <2>1, OthersFacts DEF CacheInv, Entries
  <2> HIDE DEF e
  <2>4. ~(Len(Append(Others(k), e)) > Capacity)
    BY <2>2, <2>3, AppendProperties, CacheConstants
  <2>5. cache' = Evicted(Append(Others(k), e))
    BY <2>1, <2>4 DEF Evicted
  <2> QED
    BY <2>1, <2>2, <2>5, UseKeepsInv
<1>2. CASE ~Hit(k)
  BY <1>2, RemovalKeepsInv DEF LocalGet
<1> QED
  BY <1>1, <1>2

LEMMA LocalSetKeepsInv ==
  ASSUME CacheInv, NEW k \in Keys, NEW v \in -1 .. now, NEW ttl \in Int, LocalSet(k, v, ttl), UNCHANGED now
  PROVE  /\ CacheInv'
         /\ \A i \in DOMAIN cache' : \/ cache'[i] = [key |-> k, value |-> v, exp |-> Expiration(k, ttl)]
                                     \/ \E j \in DOMAIN cache : cache'[i] = cache[j]
<1> DEFINE e == [key |-> k, value |-> v, exp |-> Expiration(k, ttl)]
<1>1. Expiration(k, ttl) \in Nat
  <2>1. now \in Nat
    BY CacheConstants DEF CacheInv, Entries
  <2>2. Holds(k) => EntryOf(k).exp \in Nat
    BY HitFacts
  <2>3. \A t \in Int : Expire(t) \in Nat
    BY <2>1 DEF Expire
  <2> QED
    BY <2>2, <2>3, CacheConstants DEF Expiration
<1>2. e \in Entry /\ e.key = k /\ e.value = v
  BY <1>1 DEF Entry
<1>3. cache' = Evicted(Append(Others(k), e)) /\ Use(k, e)
  BY DEF LocalSet
<1> HIDE DEF e
<1>4. /\ CacheInv'
      /\ \A i \in DOMAIN cache' : cache'[i] = e \/ \E j \in DOMAIN cache : cache'[i] = cache[j]
  BY <1>2, <1>3, UseKeepsInv
<1> QED
  BY <1>4 DEF e

LEMMA LocalDeleteKeepsInv ==
  ASSUME CacheInv, NEW k \in Keys, LocalDelete(k), UNCHANGED now
  PROVE  CacheInv' /\ \A i \in DOMAIN cache' : \E j \in DOMAIN cache : cache'[i] = cache[j]
BY RemovalKeepsInv DEF LocalDelete

LEMMA ClearKeepsInv == CacheInv /\ Clear => CacheInv' /\ cache' = << >>
<1> SUFFICES ASSUME CacheInv, Clear PROVE CacheInv' /\ cache' = << >>
  OBVIOUS
<1>1. cache' = << >> /\ UNCHANGED now /\ promised' = [k \in Keys |-> [promised[k] EXCEPT !.value = Nothing]]
  BY DEF Clear
<1>2. ASSUME NEW k \in Keys
      PROVE  /\ promised'[k] \in Promise /\ promised'[k].value = Nothing
             /\ promised'[k].exp = promised[k].exp /\ promised'[k].since = promised[k].since
  <2> DEFINE old == promised[k]
  <2>1. old \in Promise /\ Nothing \in Int /\ promised'[k] = [old EXCEPT !.value = Nothing]
    BY <1>1 DEF CacheInv, Entries, Nothing
  <2> HIDE DEF old
  <2>2. /\ promised'[k] \in Promise /\ promised'[k].value = Nothing
        /\ promised'[k].exp = old.exp /\ promised'[k].since = old.since
    BY <2>1 DEF Promise
  <2> QED
    BY <2>2 DEF old
<1>3. /\ cache' \in Seq(Entry) /\ Len(cache') = 0 /\ DOMAIN cache' = {} /\ Left(cache', cache)
  <2> DEFINE none == << >>
  <2>1. /\ none \in [DOMAIN none -> DOMAIN cache] /\ DOMAIN none = {}
        /\ none \in Seq(Entry) /\ Len(none) = 0 /\ cache' = none
    BY <1>1
  <2> HIDE DEF none
  <2>2. Left(none, cache)
    BY <2>1 DEF Left
  <2> QED
    BY <2>1, <2>2
<1>4. promised' \in [Keys -> Promise]
  BY <1>1, <1>2
<1>5. \A j \in DOMAIN cache : cache[j].key \in Keys
  <2>1. \A j \in DOMAIN cache : cache[j] \in Entry
    BY DEF CacheInv, Entries
  <2> QED
    BY <2>1 DEF Entry
<1>6. Len(cache') <= Capacity
  BY <1>3, CacheConstants
<1>7. CacheInv'
  BY <1>1, <1>2, <1>3, <1>4, <1>5, <1>6, DropKeepsInv
<1> QED
  BY <1>1, <1>7

LEMMA EvictKeepsInv ==
  ASSUME CacheInv, Evict
  PROVE  CacheInv' /\ \A i \in DOMAIN cache' : \E j \in DOMAIN cache : cache'[i] = cache[j]
<1> USE DEF CacheInv
<1>1. PICK place \in LivePlaces : cache' = [i \in DOMAIN place |-> cache[place[i]]]
  BY DEF Evict
<1>2. cache \in Seq(Entry) /\ DOMAIN cache = 1 .. Len(cache) /\ Len(cache) \in Nat /\ Len(cache) <= Capacity
  BY DEF Entries
<1>3. Live \subseteq DOMAIN cache /\ Cardinality(Live) \in Nat /\ Cardinality(Live) <= Len(cache)
  <2>1. Live \subseteq DOMAIN cache
    BY DEF Live
  <2>2. IsFiniteSet(1 .. Len(cache)) /\ Cardinality(1 .. Len(cache)) = Len(cache)
    BY SMTT(30), <1>2, FS_Interval
  <2> QED
    BY <1>2, <2>1, <2>2, FS_Subset, FS_CardinalityType
<1> DEFINE n == Cardinality(Live)
<1>4. /\ place \in [1 .. n -> Live] /\ \A i, j \in 1 .. n : i < j => place[i] < place[j]
      /\ \A l \in Live : \E i \in 1 .. n : place[i] = l
      /\ DOMAIN place = 1 .. n
  BY <1>1 DEF LivePlaces, Ascending, ToSet
<1>5. n \in Nat /\ n <= Len(cache)
  BY <1>3
<1> HIDE DEF n
<1>6. /\ DOMAIN cache' = 1 .. n /\ \A i \in 1 .. n : cache'[i] = cache[place[i]] /\ place[i] \in DOMAIN cache
      /\ cache' = [i \in 1 .. n |-> cache[place[i]]]
  BY <1>1, <1>3, <1>4
<1>7. cache' \in Seq(Entry) /\ Len(cache') = n
  <2>1. \A i \in 1 .. n : cache[place[i]] \in Entry
    BY <1>2, <1>6
  <2> QED
    BY <1>5, <1>6, <2>1, LenProperties
<1>8. Left(cache', cache)
  <2>1. place \in [DOMAIN cache' -> DOMAIN cache]
    BY <1>3, <1>4, <1>6
  <2> QED
    BY <1>4, <1>6, <2>1 DEF Left
<1>9. ASSUME NEW j \in DOMAIN cache, ~Expired(cache[j])
      PROVE  \E i \in DOMAIN cache' : cache'[i].key = cache[j].key
  <2>1. j \in Live
    BY <1>9 DEF Live
  <2> QED
    BY <1>4, <1>6, <2>1
<1>10. Len(cache') <= Capacity /\ UNCHANGED <<now, promised>> /\ promised \in [Keys -> Promise]
  BY <1>2, <1>5, <1>7, CacheConstants DEF Evict, Entries
<1> QED
  BY <1>7, <1>8, <1>9, <1>10, DropKeepsInv

LEMMA TickKeepsInv == CacheInv /\ Tick => CacheInv'
<1> SUFFICES ASSUME CacheInv, Tick PROVE CacheInv'
  OBVIOUS
<1> USE DEF CacheInv
<1>1. now \in Nat /\ now' = now + 1 /\ now' \in 0 .. MaxTime /\ UNCHANGED <<cache, promised>>
  BY CacheConstants DEF Tick, Entries
<1>2. Entries'
  BY <1>1 DEF Entries
<1>3. Distinct(cache') /\ InOrder(cache', promised')
  BY <1>1
<1>4. ForgetsOnlyTheLeastUsed'
  <2> SUFFICES ASSUME NEW o \in Keys, promised'[o].value # Nothing, ~Expired(promised[o])', ~Holds(o)'
               PROVE  Cardinality(promised'[o].since) >= Capacity
    BY DEF ForgetsOnlyTheLeastUsed, Expired
  <2>1. ~Holds(o) /\ IsFiniteSet(promised'[o].since) /\ now' >= now /\ now' \in Int
    BY <1>1, <1>2 DEF Holds, Entries
  <2> QED
    BY <1>1, <2>1, StillForgotten
<1> QED
  BY <1>2, <1>3, <1>4

-----------------------------------------------------------------------------
(***************************************************************************)
(* The provider.  What is in the local cache, in Redis, or on its way, is  *)
(* young: the bound of each is what the time of a request, or an expiry,   *)
(* adds to the one before it.                                              *)
(***************************************************************************)
Scheduled ==
    \A i \in DOMAIN timeouts :
      timeouts[i].key \in Keys /\ timeouts[i].value \in 0 .. now /\ timeouts[i].ttl \in Int

Stored == [value : Int, exp : Nat]

ProviderTyped ==
    /\ mode \in {"fetch", "revalidate", "unused"}
    /\ sets \in 0 .. MaxSets /\ saves \in 0 .. MaxSaves
    /\ timeouts \in Seq([key : Keys, value : Nat, ttl : Int]) /\ Scheduled
    /\ remote \in Stored /\ remote.value \in -1 .. now
    /\ call \in [Calls -> Task] /\ refresh \in [Calls -> Task]
    /\ \A c \in Calls : call[c].got <= now /\ refresh[c].got <= now

YoungEntry(e) == e.value # Nothing => e.exp > 0 /\ e.exp < e.value + 2 * TTL + 2 * Delay

YoungTask(t) ==
    /\ t.pc \in {"reading", "answered", "saving"} => t.sent <= now /\ now - t.sent <= Delay
    /\ t.pc = "answered" /\ t.got # Nothing => t.sent < t.got + TTL + Delay
    /\ t.pc = "saving" => t.got = t.sent

Young ==
    mode # "unused" =>
      /\ sets = MaxSets /\ timeouts = << >>
      /\ \A i \in DOMAIN cache : YoungEntry(cache[i])
      /\ remote.value # Nothing => remote.exp <= remote.value + TTL + Delay
      /\ \A c \in Calls : YoungTask(call[c]) /\ YoungTask(refresh[c])

ProviderInv == CacheInv /\ ProviderTyped /\ Young

LEMMA InitInv == Init => ProviderInv
<1> SUFFICES ASSUME Init PROVE ProviderInv
  OBVIOUS
<1>1. /\ now \in 0 .. MaxTime /\ cache = << >> /\ timeouts = << >> /\ sets \in 0 .. MaxSets
      /\ mode # "unused" => sets = MaxSets
      /\ promised = [k \in Keys |-> [value |-> Nothing, exp |-> 0, since |-> {}]]
  BY CacheConstants DEF Init, CacheInit
<1>2. cache \in Seq(Entry) /\ Len(cache) = 0 /\ DOMAIN cache = {} /\ DOMAIN timeouts = {}
  BY <1>1
<1>3. Entries
  <2>1. [value |-> Nothing, exp |-> 0, since |-> {}] \in Promise
    BY DEF Nothing, Promise
  <2>2. promised \in [Keys -> Promise] /\ \A k \in Keys : promised[k].since = {}
    BY <1>1, <2>1
  <2>3. Len(cache) <= Capacity
    BY <1>2, CacheConstants
  <2>4. \A k \in Keys : IsFiniteSet(promised[k].since)
    BY <2>2, FS_EmptySet
  <2> QED
    BY <1>1, <1>2, <2>2, <2>3, <2>4 DEF Entries
<1>4. CacheInv
  BY <1>1, <1>2, <1>3 DEF CacheInv, Distinct, InOrder, ForgetsOnlyTheLeastUsed
<1>5. NoTask \in Task /\ NoTask.pc = "idle" /\ NoTask.got = -1
  BY CacheConstants DEF NoTask, Task, Nothing
<1>6. \A c \in Calls : call[c] = NoTask /\ refresh[c] = NoTask
  BY DEF Init
<1>7. call \in [Calls -> Task] /\ refresh \in [Calls -> Task]
  BY <1>5 DEF Init
<1>8. remote \in Stored /\ remote.value = -1
  BY DEF Init, Stored, Nothing
<1>9. ProviderTyped
  <2>1. timeouts \in Seq([key : Keys, value : Nat, ttl : Int])
    BY <1>1
  <2>2. saves \in 0 .. MaxSaves /\ mode \in {"fetch", "revalidate", "unused"}
    BY ProviderConstants DEF Init
  <2>3. now \in Nat
    BY <1>1, CacheConstants
  <2> QED
    BY <1>1, <1>2, <1>5, <1>6, <1>7, <1>8, <2>1, <2>2, <2>3 DEF ProviderTyped, Scheduled
<1>10. Young
  BY <1>1, <1>2, <1>5, <1>6, <1>8 DEF Young, YoungTask, Nothing
<1> QED
  BY <1>4, <1>9, <1>10 DEF ProviderInv

\* The fields of a task that changes.
LEMMA TaskPc ==
  ASSUME NEW t \in Task, NEW pc \in {"idle", "reading", "answered", "fetching", "saving", "done", "failed"}
  PROVE  /\ [t EXCEPT !.pc = pc] \in Task
         /\ [t EXCEPT !.pc = pc].pc = pc /\ [t EXCEPT !.pc = pc].got = t.got
         /\ [t EXCEPT !.pc = pc].sent = t.sent /\ [t EXCEPT !.pc = pc].fetcher = t.fetcher
BY DEF Task

-----------------------------------------------------------------------------
\* What the provider puts in the local cache.
LEMMA ProviderSets ==
  ASSUME ProviderInv, NEW v \in -1 .. now, v # Nothing => now < v + TTL + 2 * Delay,
         LocalSet(Key, v, TTL), UNCHANGED now
  PROVE  /\ CacheInv'
         /\ (\A i \in DOMAIN cache : YoungEntry(cache[i])) => \A i \in DOMAIN cache' : YoungEntry(cache'[i])
<1> DEFINE e == [key |-> Key, value |-> v, exp |-> Expiration(Key, TTL)]
<1>1. /\ CacheInv'
      /\ \A i \in DOMAIN cache' : cache'[i] = e \/ \E j \in DOMAIN cache : cache'[i] = cache[j]
  BY ProviderConstants, LocalSetKeepsInv DEF ProviderInv
<1>2. e.value = v /\ e.exp = now + TTL
  BY ProviderConstants DEF Expiration, Expire, KEEPTTL
<1>3. YoungEntry(e)
  <2>1. now \in Nat
    BY CacheConstants DEF ProviderInv, CacheInv, Entries
  <2> HIDE DEF e
  <2> QED
    BY <1>2, <2>1, ProviderConstants DEF YoungEntry
<1> HIDE DEF e
<1> QED
  BY <1>1, <1>3

LEMMA NowFacts ==
  ASSUME ProviderInv
  PROVE  /\ now \in Nat /\ now <= MaxTime
         /\ Key \in Keys /\ TTL \in Nat \ {0} /\ Delay \in Nat /\ MaxTime \in Nat
         /\ \A c \in Calls : /\ call[c] \in Task /\ call[c].got \in -1 .. now /\ call[c].sent \in Nat
                             /\ refresh[c] \in Task /\ refresh[c].got \in -1 .. now /\ refresh[c].sent \in Nat
         /\ remote.value \in -1 .. now /\ remote.exp \in Nat
<1>1. \A c \in Calls : /\ call[c] \in Task /\ call[c].got <= now
                       /\ refresh[c] \in Task /\ refresh[c].got <= now
  BY DEF ProviderInv, ProviderTyped
<1>2. \A t \in Task : t.got \in -1 .. MaxTime /\ t.sent \in Nat
  BY CacheConstants DEF Task
<1>3. now \in Nat /\ now <= MaxTime
  BY CacheConstants DEF ProviderInv, CacheInv, Entries
<1>4. \A c \in Calls : call[c].got \in -1 .. now /\ refresh[c].got \in -1 .. now
  BY <1>1, <1>2, <1>3, CacheConstants
<1> QED
  BY <1>1, <1>2, <1>3, <1>4, CacheConstants, ProviderConstants DEF ProviderInv, ProviderTyped, Stored

\* A step of the call c or of its refresh: the local cache and Redis are as the
\* invariant wants them, and so are the two tasks.
LEMMA StepKeepsInv ==
  ASSUME ProviderInv, CacheInv', UNCHANGED <<now, timeouts, sets, mode, saves>>,
         (\A i \in DOMAIN cache : YoungEntry(cache[i])) => \A i \in DOMAIN cache' : YoungEntry(cache'[i]),
         remote' \in Stored, remote'.value \in -1 .. now,
         mode # "unused" /\ remote'.value # Nothing => remote'.exp <= remote'.value + TTL + Delay,
         NEW c \in Calls, NEW t \in Task, NEW b \in Task,
         call' = [call EXCEPT ![c] = t], refresh' = [refresh EXCEPT ![c] = b],
         t.got <= now, b.got <= now,
         mode # "unused" => YoungTask(t) /\ YoungTask(b)
  PROVE  ProviderInv'
<1> USE DEF ProviderInv
<1>1. now \in Int /\ call \in [Calls -> Task] /\ refresh \in [Calls -> Task]
      /\ \A o \in Calls : call[o].got <= now /\ refresh[o].got <= now
  BY NowFacts DEF ProviderTyped
<1>2. /\ call' \in [Calls -> Task] /\ \A o \in Calls : call'[o].got <= now
      /\ mode # "unused" => \A o \in Calls : YoungTask(call'[o])
  <2>1. call' \in [Calls -> Task] /\ \A o \in Calls : call'[o] = t \/ call'[o] = call[o]
    BY <1>1
  <2>2. mode # "unused" => \A o \in Calls : YoungTask(call[o])
    BY DEF Young
  <2> QED
    BY <1>1, <2>1, <2>2
<1>3. /\ refresh' \in [Calls -> Task] /\ \A o \in Calls : refresh'[o].got <= now
      /\ mode # "unused" => \A o \in Calls : YoungTask(refresh'[o])
  <2>1. refresh' \in [Calls -> Task] /\ \A o \in Calls : refresh'[o] = b \/ refresh'[o] = refresh[o]
    BY <1>1
  <2>2. mode # "unused" => \A o \in Calls : YoungTask(refresh[o])
    BY DEF Young
  <2> QED
    BY <1>1, <2>1, <2>2
<1>4. ProviderTyped'
  BY <1>2, <1>3 DEF ProviderTyped, Scheduled
<1>5. Young'
  <2> SUFFICES ASSUME mode # "unused"
               PROVE  /\ sets' = MaxSets /\ timeouts' = << >>
                      /\ \A i \in DOMAIN cache' : YoungEntry(cache'[i])
                      /\ remote'.value # Nothing => remote'.exp <= remote'.value + TTL + Delay
                      /\ \A o \in Calls : YoungTask(call'[o]) /\ YoungTask(refresh'[o])
    BY DEF Young, YoungEntry, YoungTask
  <2> QED
    BY <1>2, <1>3 DEF Young
<1> QED
  BY <1>4, <1>5

LEMMA SameTask ==
  ASSUME ProviderInv, NEW c \in Calls
  PROVE  /\ call = [call EXCEPT ![c] = call[c]] /\ refresh = [refresh EXCEPT ![c] = refresh[c]]
         /\ call[c] \in Task /\ refresh[c] \in Task /\ call[c].got <= now /\ refresh[c].got <= now
         /\ mode # "unused" => YoungTask(call[c]) /\ YoungTask(refresh[c])
         /\ remote \in Stored /\ remote.value \in -1 .. now
         /\ mode # "unused" /\ remote.value # Nothing => remote.exp <= remote.value + TTL + Delay
BY DEF ProviderInv, ProviderTyped, Young

\* A task only moves on.
LEMMA PcStep ==
  ASSUME ProviderInv, NEW t \in Task, NEW pc \in {"fetching", "done", "failed"}, t.got <= now
  PROVE  /\ [t EXCEPT !.pc = pc] \in Task /\ [t EXCEPT !.pc = pc].got <= now
         /\ YoungTask([t EXCEPT !.pc = pc])
<1> DEFINE n == [t EXCEPT !.pc = pc]
<1>0. pc \in {"idle", "reading", "answered", "fetching", "saving", "done", "failed"}
  OBVIOUS
<1>1. n \in Task /\ n.pc = pc /\ n.got = t.got
  BY <1>0, TaskPc
<1> HIDE DEF n
<1>2. YoungTask(n)
  BY <1>1 DEF YoungTask
<1> QED
  BY <1>1, <1>2 DEF n

LEMMA StartKeepsInv == \A c \in Calls : ProviderInv /\ Start(c) => ProviderInv'
<1> SUFFICES ASSUME NEW c \in Calls, ProviderInv, Start(c)
             PROVE  ProviderInv'
  OBVIOUS
<1> DEFINE value == LocalValue(Key)
           pc == IF value # Nothing /\ Fresh(value) THEN "done" ELSE "reading"
<1>1. PICK f \in BOOLEAN :
        call' = [call EXCEPT ![c] = [pc |-> pc, fetcher |-> f, local |-> value, got |-> value, sent |-> now]]
  BY DEF Start
<1> DEFINE t == [pc |-> pc, fetcher |-> f, local |-> value, got |-> value, sent |-> now]
<1>2. value \in -1 .. now
  <2>1. Hit(Key) => EntryOf(Key).value \in -1 .. now
    BY HitFacts, ProviderConstants DEF Hit, ProviderInv
  <2> QED
    BY <2>1, NowFacts DEF LocalValue, Nothing
<1>3. pc \in {"done", "reading"}
  OBVIOUS
<1> HIDE DEF value, pc
<1>4. t \in Task /\ t.pc = pc /\ t.got = value /\ t.sent = now
  BY <1>2, <1>3, NowFacts DEF Task
<1> HIDE DEF t
<1>5. CacheInv' /\ \A i \in DOMAIN cache' : \E j \in DOMAIN cache : cache'[i] = cache[j]
  BY LocalGetKeepsInv, ProviderConstants DEF Start, ProviderInv
<1>6. YoungTask(t)
  BY <1>3, <1>4, NowFacts DEF YoungTask
<1>7. UNCHANGED <<now, timeouts, sets, mode, saves, remote, refresh>>
  BY DEF Start
<1>8. t.got <= now
  BY <1>2, <1>4, NowFacts
<1>9. call' = [call EXCEPT ![c] = t]
  BY <1>1 DEF t
<1>10. (\A i \in DOMAIN cache : YoungEntry(cache[i])) => \A i \in DOMAIN cache' : YoungEntry(cache'[i])
  BY <1>5
<1> QED
  BY <1>4, <1>5, <1>6, <1>7, <1>8, <1>9, <1>10, SameTask, StepKeepsInv

LEMMA RedisGetKeepsInv == \A c \in Calls : ProviderInv /\ RedisGet(c) => ProviderInv'
<1> SUFFICES ASSUME NEW c \in Calls, ProviderInv, RedisGet(c)
             PROVE  ProviderInv'
  OBVIOUS
<1> DEFINE old == call[c]
           got == IF now < remote.exp THEN remote.value ELSE Nothing
           t == [old EXCEPT !.pc = "answered", !.got = got]
<1>1. call' = [call EXCEPT ![c] = t] /\ old.pc = "reading" /\ old \in Task
      /\ UNCHANGED <<cacheVars, mode, remote, refresh, saves>>
  BY SameTask DEF RedisGet
<1>2. got \in -1 .. now /\ got \in -1 .. MaxTime
  BY NowFacts DEF Nothing
<1>3. got # Nothing => got = remote.value /\ now < remote.exp
  OBVIOUS
<1>4. mode # "unused" => old.sent <= now /\ now - old.sent <= Delay
  BY <1>1, SameTask DEF YoungTask
<1>5. old.sent \in Nat
  BY NowFacts
<1> HIDE DEF old, got
<1>6. t \in Task /\ t.pc = "answered" /\ t.got = got /\ t.sent = old.sent
  BY <1>1, <1>2 DEF Task
<1> HIDE DEF t
<1>7. mode # "unused" => YoungTask(t)
  BY <1>2, <1>3, <1>4, <1>5, <1>6, NowFacts, SameTask DEF YoungTask, Nothing
<1>8. CacheInv' /\ UNCHANGED <<now, timeouts, sets, mode, saves, cache>>
  BY <1>1, SameCacheKeepsInv DEF cacheVars, SameCache, ProviderInv
<1>9. t.got <= now
  BY <1>2, <1>6, NowFacts
<1> QED
  BY <1>1, <1>6, <1>7, <1>8, <1>9, SameTask, StepKeepsInv

LEMMA AnsweredKeepsInv == \A c \in Calls : ProviderInv /\ mode # "unused" /\ Answered(c) => ProviderInv'
<1> SUFFICES ASSUME NEW c \in Calls, ProviderInv, mode # "unused", Answered(c)
             PROVE  ProviderInv'
  OBVIOUS
<1> DEFINE old == call[c]
           pc == IF old.got = Nothing /\ old.fetcher THEN "fetching" ELSE "done"
           t == [old EXCEPT !.pc = pc]
           b == IF old.got # Nothing /\ ~Fresh(old.got) /\ old.fetcher
                THEN [refresh[c] EXCEPT !.pc = "fetching"] ELSE refresh[c]
<1>1. /\ call' = [call EXCEPT ![c] = t] /\ old.pc = "answered"
      /\ UNCHANGED <<now, timeouts, sets, mode, remote, saves>>
  BY DEF Answered
<1>2. refresh' = [refresh EXCEPT ![c] = b]
  BY SameTask DEF Answered
<1>3. \/ UNCHANGED <<cache, promised>>
      \/ LocalSet(Key, old.got, TTL)
  BY DEF Answered
<1>4. pc \in {"fetching", "done", "failed"}
  OBVIOUS
<1>5. old \in Task /\ old.got <= now /\ YoungTask(old) /\ old.got \in -1 .. now /\ old.sent \in Nat
  BY SameTask, NowFacts
<1>6. b \in Task /\ b.got <= now /\ YoungTask(b)
  BY SameTask, PcStep
<1> HIDE DEF pc, b, old
<1>7. t \in Task /\ t.got <= now /\ YoungTask(t)
  BY <1>4, <1>5, PcStep
<1> HIDE DEF t
<1>8. /\ CacheInv'
      /\ (\A i \in DOMAIN cache : YoungEntry(cache[i])) => \A i \in DOMAIN cache' : YoungEntry(cache'[i])
  <2>1. CASE UNCHANGED <<cache, promised>>
    BY <1>1, <2>1, SameCacheKeepsInv DEF SameCache, ProviderInv
  <2>2. CASE LocalSet(Key, old.got, TTL)
    <3>1. old.got # Nothing => now < old.got + TTL + 2 * Delay
      BY <1>1, <1>5, NowFacts DEF YoungTask
    <3> QED
      BY <1>1, <1>5, <2>2, <3>1, ProviderSets
  <2> QED
    BY <1>3, <2>1, <2>2
<1> QED
  BY <1>1, <1>2, <1>6, <1>7, <1>8, SameTask, StepKeepsInv

LEMMA ReadFailsKeepsInv == \A c \in Calls : ProviderInv /\ ReadFails(c) => ProviderInv'
<1> SUFFICES ASSUME NEW c \in Calls, ProviderInv, ReadFails(c)
             PROVE  ProviderInv'
  OBVIOUS
<1> DEFINE old == call[c]
           pc == IF old.fetcher THEN "fetching" ELSE "failed"
           t == [old EXCEPT !.pc = pc]
<1>1. call' = [call EXCEPT ![c] = t] /\ UNCHANGED <<cacheVars, mode, remote, refresh, saves>>
  BY DEF ReadFails
<1>2. pc \in {"fetching", "done", "failed"} /\ old \in Task /\ old.got <= now
  BY SameTask
<1> HIDE DEF pc, old
<1>3. t \in Task /\ t.got <= now /\ YoungTask(t)
  BY <1>2, PcStep
<1> HIDE DEF t
<1>4. CacheInv' /\ UNCHANGED <<now, timeouts, sets, mode, saves, cache>>
  BY <1>1, SameCacheKeepsInv DEF cacheVars, SameCache, ProviderInv
<1> QED
  BY <1>1, <1>3, <1>4, SameTask, StepKeepsInv

LEMMA FetchFailsKeepsInv == \A c \in Calls : ProviderInv /\ FetchFails(c) => ProviderInv'
<1> SUFFICES ASSUME NEW c \in Calls, ProviderInv, FetchFails(c)
             PROVE  ProviderInv'
  OBVIOUS
<1>1. CacheInv' /\ UNCHANGED <<now, timeouts, sets, mode, saves, cache, remote>>
  BY SameCacheKeepsInv DEF FetchFails, cacheVars, SameCache, ProviderInv
<1>2. CASE UNCHANGED refresh /\ call' = [call EXCEPT ![c].pc = "failed"]
  <2> DEFINE t == [call[c] EXCEPT !.pc = "failed"]
  <2>1. call' = [call EXCEPT ![c] = t]
    BY <1>2
  <2>2. t \in Task /\ t.got <= now /\ YoungTask(t)
    BY SameTask, PcStep
  <2> HIDE DEF t
  <2> QED
    BY <1>1, <1>2, <2>1, <2>2, SameTask, StepKeepsInv
<1>3. CASE UNCHANGED call /\ refresh' = [refresh EXCEPT ![c].pc = "failed"]
  <2> DEFINE t == [refresh[c] EXCEPT !.pc = "failed"]
  <2>1. refresh' = [refresh EXCEPT ![c] = t]
    BY <1>3
  <2>2. t \in Task /\ t.got <= now /\ YoungTask(t)
    BY SameTask, PcStep
  <2> HIDE DEF t
  <2> QED
    BY <1>1, <1>3, <2>1, <2>2, SameTask, StepKeepsInv
<1> QED
  BY <1>2, <1>3 DEF FetchFails

LEMMA SavingTask ==
  ASSUME ProviderInv, NEW t \in Task
  PROVE  SaveToCaches(t) \in Task /\ SaveToCaches(t).got <= now /\ YoungTask(SaveToCaches(t))
<1>1. now \in 0 .. MaxTime /\ now \in -1 .. MaxTime /\ now \in Int
  BY NowFacts
<1> DEFINE n == SaveToCaches(t)
<1>2. n \in Task /\ n.pc = "saving" /\ n.got = now /\ n.sent = now
  BY <1>1 DEF SaveToCaches, Task
<1> HIDE DEF n
<1>3. YoungTask(n)
  BY <1>1, <1>2, NowFacts DEF YoungTask
<1> QED
  BY <1>1, <1>2, <1>3 DEF n

LEMMA FetchedKeepsInv == \A c \in Calls : ProviderInv /\ Fetched(c) => ProviderInv'
<1> SUFFICES ASSUME NEW c \in Calls, ProviderInv, Fetched(c)
             PROVE  ProviderInv'
  OBVIOUS
<1>1. UNCHANGED <<now, timeouts, sets, mode, saves, remote>> /\ LocalSet(Key, now, TTL)
  BY DEF Fetched
<1>2. /\ CacheInv'
      /\ (\A i \in DOMAIN cache : YoungEntry(cache[i])) => \A i \in DOMAIN cache' : YoungEntry(cache'[i])
  <2>1. now \in -1 .. now /\ now < now + TTL + 2 * Delay
    BY NowFacts
  <2> QED
    BY <1>1, <2>1, ProviderSets
<1>3. CASE UNCHANGED refresh /\ call' = [call EXCEPT ![c] = SaveToCaches(@)]
  <2> DEFINE t == SaveToCaches(call[c])
  <2>1. call' = [call EXCEPT ![c] = t]
    BY <1>3
  <2>2. t \in Task /\ t.got <= now /\ YoungTask(t)
    BY SameTask, SavingTask
  <2> HIDE DEF t
  <2> QED
    BY <1>1, <1>2, <1>3, <2>1, <2>2, SameTask, StepKeepsInv
<1>4. CASE UNCHANGED call /\ refresh' = [refresh EXCEPT ![c] = SaveToCaches(@)]
  <2> DEFINE t == SaveToCaches(refresh[c])
  <2>1. refresh' = [refresh EXCEPT ![c] = t]
    BY <1>4
  <2>2. t \in Task /\ t.got <= now /\ YoungTask(t)
    BY SameTask, SavingTask
  <2> HIDE DEF t
  <2> QED
    BY <1>1, <1>2, <1>4, <2>1, <2>2, SameTask, StepKeepsInv
<1> QED
  BY <1>3, <1>4 DEF Fetched

\* What a SET stores was fetched when the task began to save it.
LEMMA SavedIsYoung ==
  ASSUME ProviderInv, NEW t \in Task, t.pc = "saving", t.got \in -1 .. now, mode # "unused" => YoungTask(t),
         remote' \in {[value |-> t.got, exp |-> now + TTL], remote}
  PROVE  /\ remote' \in Stored /\ remote'.value \in -1 .. now
         /\ mode # "unused" /\ remote'.value # Nothing => remote'.exp <= remote'.value + TTL + Delay
<1>1. CASE remote' = remote
  BY <1>1, NowFacts DEF ProviderInv, ProviderTyped, Young
<1>2. CASE remote' = [value |-> t.got, exp |-> now + TTL]
  <2>1. remote'.value = t.got /\ remote'.exp = now + TTL
    BY <1>2
  <2>2. now + TTL \in Nat /\ t.got \in Int
    BY NowFacts
  <2>3. remote' \in Stored
    BY <1>2, <2>2 DEF Stored
  <2>4. mode # "unused" => now - t.got <= Delay
    BY DEF YoungTask
  <2>5. mode # "unused" => now + TTL <= t.got + TTL + Delay
    BY <2>2, <2>4, NowFacts
  <2> QED
    BY <2>1, <2>3, <2>5
<1> QED
  BY <1>1, <1>2

LEMMA RedisSetKeepsInv == \A c \in Calls : ProviderInv /\ RedisSet(c) => ProviderInv'
<1> SUFFICES ASSUME NEW c \in Calls, ProviderInv, RedisSet(c)
             PROVE  ProviderInv'
  OBVIOUS
<1>1. CacheInv' /\ UNCHANGED <<now, timeouts, sets, mode, saves, cache>>
  BY SameCacheKeepsInv DEF RedisSet, cacheVars, SameCache, ProviderInv
<1>2. CASE /\ call[c].pc = "saving" /\ UNCHANGED refresh
           /\ call' = [call EXCEPT ![c].pc = "done"]
           /\ remote' \in {[value |-> call[c].got, exp |-> now + TTL], remote}
  <2> DEFINE t == [call[c] EXCEPT !.pc = "done"]
  <2>1. call' = [call EXCEPT ![c] = t]
    BY <1>2
  <2>2. t \in Task /\ t.got <= now /\ YoungTask(t)
    BY SameTask, PcStep
  <2> HIDE DEF t
  <2>3. /\ remote' \in Stored /\ remote'.value \in -1 .. now
        /\ mode # "unused" /\ remote'.value # Nothing => remote'.exp <= remote'.value + TTL + Delay
    BY <1>2, SameTask, NowFacts, SavedIsYoung
  <2> QED
    BY <1>1, <1>2, <2>1, <2>2, <2>3, SameTask, StepKeepsInv
<1>3. CASE /\ refresh[c].pc = "saving" /\ UNCHANGED call
           /\ refresh' = [refresh EXCEPT ![c].pc = "done"]
           /\ remote' \in {[value |-> refresh[c].got, exp |-> now + TTL], remote}
  <2> DEFINE t == [refresh[c] EXCEPT !.pc = "done"]
  <2>1. refresh' = [refresh EXCEPT ![c] = t]
    BY <1>3
  <2>2. t \in Task /\ t.got <= now /\ YoungTask(t)
    BY SameTask, PcStep
  <2> HIDE DEF t
  <2>3. /\ remote' \in Stored /\ remote'.value \in -1 .. now
        /\ mode # "unused" /\ remote'.value # Nothing => remote'.exp <= remote'.value + TTL + Delay
    BY <1>3, SameTask, NowFacts, SavedIsYoung
  <2> QED
    BY <1>1, <1>3, <2>1, <2>2, <2>3, SameTask, StepKeepsInv
<1> QED
  BY <1>2, <1>3 DEF RedisSet

LEMMA OtherSavesKeepsInv == ProviderInv /\ OtherSaves => ProviderInv'
<1> SUFFICES ASSUME ProviderInv, OtherSaves PROVE ProviderInv'
  OBVIOUS
<1>1. PICK v \in {t \in 0 .. now : now - t <= Delay} : remote' = [value |-> v, exp |-> now + TTL]
  BY DEF OtherSaves
<1>2. /\ saves < MaxSaves /\ saves' = saves + 1 /\ mode # "unused"
      /\ UNCHANGED <<now, cache, timeouts, promised, sets, mode, call, refresh>>
  BY DEF OtherSaves, cacheVars
<1>3. remote'.value = v /\ remote'.exp = now + TTL /\ v \in -1 .. now /\ v \in Int /\ now + TTL \in Nat
  BY <1>1, NowFacts
<1>4. remote' \in Stored /\ remote'.exp <= remote'.value + TTL + Delay
  BY <1>1, <1>3, NowFacts DEF Stored
<1>5. saves' \in 0 .. MaxSaves
  BY <1>2, ProviderConstants DEF ProviderInv, ProviderTyped
<1>6. CacheInv'
  BY <1>2, SameCacheKeepsInv DEF SameCache, ProviderInv
<1>7. ProviderTyped'
  BY <1>2, <1>3, <1>4, <1>5 DEF ProviderInv, ProviderTyped, Scheduled
<1>8. Young'
  BY <1>2, <1>4 DEF ProviderInv, Young, YoungEntry, YoungTask
<1> QED
  BY <1>6, <1>7, <1>8 DEF ProviderInv

LEMMA LetTimePassKeepsInv == ProviderInv /\ LetTimePass => ProviderInv'
<1> SUFFICES ASSUME ProviderInv, LetTimePass PROVE ProviderInv'
  OBVIOUS
<1>1. /\ now' = now + 1 /\ UNCHANGED <<cache, timeouts, sets, mode, remote, call, refresh, saves>>
      /\ Tick /\ \A c \in Calls : InTime(call[c]) /\ InTime(refresh[c])
  BY DEF LetTimePass, Tick, providerVars
<1>2. CacheInv'
  BY <1>1, TickKeepsInv DEF ProviderInv
<1>3. ProviderTyped'
  <2>1. Scheduled'
    <3> SUFFICES ASSUME NEW i \in DOMAIN timeouts
                 PROVE  timeouts[i].key \in Keys /\ timeouts[i].value \in 0 .. now + 1 /\ timeouts[i].ttl \in Int
      BY <1>1 DEF Scheduled
    <3>1. timeouts[i].key \in Keys /\ timeouts[i].value \in 0 .. now /\ timeouts[i].ttl \in Int
      BY DEF ProviderInv, ProviderTyped, Scheduled
    <3>2. 0 .. now \subseteq 0 .. now + 1
      BY NowFacts
    <3> QED
      BY <3>1, <3>2
  <2>2. remote'.value \in -1 .. now'
    BY <1>1, NowFacts
  <2>3. \A c \in Calls : call'[c].got <= now' /\ refresh'[c].got <= now'
    BY <1>1, NowFacts
  <2> QED
    BY <1>1, <2>1, <2>2, <2>3 DEF ProviderInv, ProviderTyped
<1>4. ASSUME NEW t \in Task, mode # "unused", t.sent \in Nat, YoungTask(t), InTime(t)
      PROVE  YoungTask(t)'
  BY <1>1, <1>4, NowFacts DEF YoungTask, InTime
<1>5. Young'
  <2> SUFFICES ASSUME mode' # "unused"
               PROVE  /\ sets' = MaxSets /\ timeouts' = << >>
                      /\ \A i \in DOMAIN cache' : YoungEntry(cache'[i])
                      /\ remote'.value # Nothing => remote'.exp <= remote'.value + TTL + Delay
                      /\ \A c \in Calls : YoungTask(call[c])' /\ YoungTask(refresh[c])'
    BY DEF Young, YoungEntry
  <2>1. mode # "unused"
    BY <1>1
  <2>2. \A c \in Calls : YoungTask(call[c])' /\ YoungTask(refresh[c])'
    BY <1>1, <1>4, <2>1, SameTask, NowFacts
  <2> QED
    BY <1>1, <2>1, <2>2 DEF ProviderInv, Young, YoungEntry
<1> QED
  BY <1>2, <1>3, <1>5 DEF ProviderInv

\* What the application does to the local cache while calls are made: it sets
\* nothing.
LEMMA LocalStepKeepsInv ==
  ASSUME ProviderInv, CacheInv', UNCHANGED <<now, providerVars>>,
         sets' \in 0 .. MaxSets,
         timeouts' \in Seq([key : Keys, value : Nat, ttl : Int]), Scheduled',
         mode # "unused" => /\ sets' = sets /\ timeouts' = timeouts
                            /\ \A i \in DOMAIN cache' : \E j \in DOMAIN cache : cache'[i] = cache[j]
  PROVE  ProviderInv'
<1>1. UNCHANGED <<mode, remote, call, refresh, saves>>
  BY DEF providerVars
<1>2. ProviderTyped'
  BY <1>1 DEF ProviderInv, ProviderTyped
<1>3. Young'
  <2> SUFFICES ASSUME mode # "unused"
               PROVE  /\ sets' = MaxSets /\ timeouts' = << >>
                      /\ \A i \in DOMAIN cache' : YoungEntry(cache'[i])
                      /\ remote'.value # Nothing => remote'.exp <= remote'.value + TTL + Delay
                      /\ \A c \in Calls : YoungTask(call[c])' /\ YoungTask(refresh[c])'
    BY <1>1 DEF Young, YoungEntry
  <2> QED
    BY <1>1 DEF ProviderInv, Young, YoungTask
<1> QED
  BY <1>2, <1>3 DEF ProviderInv

LEMMA ApplicationKeepsInv == ProviderInv /\ Application => ProviderInv'
<1> SUFFICES ASSUME ProviderInv, Application PROVE ProviderInv'
  OBVIOUS
<1> DEFINE Timeout == [key : Keys, value : Nat, ttl : Int]
<1>1. UNCHANGED providerVars
  BY DEF Application
<1>2. /\ sets \in 0 .. MaxSets /\ timeouts \in Seq(Timeout) /\ Scheduled /\ CacheInv
      /\ mode # "unused" => sets = MaxSets /\ timeouts = << >>
  BY DEF ProviderInv, ProviderTyped, Young
<1>3. TTLs \subseteq Int /\ MaxSets \in Nat
  BY CacheConstants DEF TTLs, KEEPTTL
<1>4. ASSUME UNCHANGED <<now, timeouts, sets>>, CacheInv',
             \A i \in DOMAIN cache' : \E j \in DOMAIN cache : cache'[i] = cache[j]
      PROVE  ProviderInv'
  <2>1. Scheduled'
    BY <1>2, <1>4 DEF Scheduled
  <2> QED
    BY <1>1, <1>2, <1>4, <2>1, LocalStepKeepsInv
<1>5. ASSUME NEW k \in Keys, Get(k) \/ Has(k) \/ Delete(k)
      PROVE  ProviderInv'
  <2>1. CASE Get(k)
    BY <1>2, <1>4, <2>1, LocalGetKeepsInv DEF Get
  <2>2. CASE Has(k)
    BY <1>2, <1>4, <2>2, RemovalKeepsInv DEF Has
  <2>3. CASE Delete(k)
    BY <1>2, <1>4, <2>3, LocalDeleteKeepsInv DEF Delete
  <2> QED
    BY <1>5, <2>1, <2>2, <2>3
<1>6. ASSUME NEW k \in Keys, NEW ttl \in TTLs, Set(k, ttl)
      PROVE  ProviderInv'
  <2>1. /\ sets < MaxSets /\ sets' = sets + 1 /\ UNCHANGED <<now, timeouts>>
        /\ LocalSet(k, now, ttl)
    BY <1>6 DEF Set, SetBound
  <2>2. CacheInv'
    BY <1>2, <1>3, <2>1, NowFacts, LocalSetKeepsInv
  <2>3. sets' \in 0 .. MaxSets /\ mode = "unused"
    BY <1>2, <1>3, <2>1
  <2>4. Scheduled'
    BY <1>2, <2>1 DEF Scheduled
  <2> QED
    BY <1>1, <1>2, <2>1, <2>2, <2>3, <2>4, LocalStepKeepsInv
<1>7. ASSUME NEW k \in Keys, NEW ttl \in TTLs, Schedule(k, ttl)
      PROVE  ProviderInv'
  <2> DEFINE e == [key |-> k, value |-> now, ttl |-> ttl]
  <2>1. /\ sets < MaxSets /\ sets' = sets + 1 /\ UNCHANGED <<now, cache, promised>>
        /\ timeouts' = Append(timeouts, e)
    BY <1>7 DEF Schedule, SetBound
  <2>2. CacheInv'
    BY <1>2, <2>1, SameCacheKeepsInv DEF SameCache
  <2>3. sets' \in 0 .. MaxSets /\ mode = "unused"
    BY <1>2, <1>3, <2>1
  <2>4. e \in Timeout /\ e.key \in Keys /\ e.value \in 0 .. now /\ e.ttl \in Int
    BY <1>3, NowFacts
  <2> HIDE DEF e
  <2>5. /\ timeouts' \in Seq(Timeout)
        /\ \A i \in DOMAIN timeouts' : timeouts'[i] = e \/ \E j \in DOMAIN timeouts : timeouts'[i] = timeouts[j]
    BY <1>2, <2>1, <2>4
  <2>6. Scheduled'
    BY <1>2, <2>1, <2>4, <2>5 DEF Scheduled
  <2> QED
    BY <1>1, <2>1, <2>2, <2>3, <2>5, <2>6, LocalStepKeepsInv
<1>8. CASE ScheduledSet
  <2> DEFINE e == Head(timeouts)
  <2>1. /\ timeouts # << >> /\ timeouts' = Tail(timeouts) /\ LocalSet(e.key, e.value, e.ttl)
        /\ UNCHANGED <<now, sets>>
    BY <1>8 DEF ScheduledSet
  <2>2. 1 \in DOMAIN timeouts /\ e = timeouts[1]
    BY <1>2, <2>1
  <2>3. e.key \in Keys /\ e.value \in -1 .. now /\ e.ttl \in Int
    BY SMTT(30), <1>2, <2>2, NowFacts DEF Scheduled
  <2> HIDE DEF e
  <2>4. CacheInv'
    BY <1>2, <2>1, <2>3, LocalSetKeepsInv
  <2>5. /\ timeouts' \in Seq(Timeout)
        /\ \A i \in DOMAIN timeouts' : \E j \in DOMAIN timeouts : timeouts'[i] = timeouts[j]
    <3>1. timeouts' \in Seq(Timeout) /\ Len(timeouts') = Len(timeouts) - 1
      BY <1>2, <2>1, HeadTailProperties
    <3>2. \A i \in 1 .. Len(timeouts) - 1 : timeouts'[i] = timeouts[i + 1]
      BY <1>2, <2>1
    <3>3. DOMAIN timeouts = 1 .. Len(timeouts) /\ Len(timeouts) \in Nat /\ DOMAIN timeouts' = 1 .. Len(timeouts) - 1
      BY <1>2, <3>1
    <3>4. \A i \in 1 .. Len(timeouts) - 1 : i + 1 \in 1 .. Len(timeouts)
      BY <3>3
    <3> QED
      BY <3>1, <3>2, <3>3, <3>4
  <2>6. Scheduled'
    BY <1>2, <2>1, <2>5 DEF Scheduled
  <2>7. mode = "unused"
    BY <1>2, <2>1
  <2> QED
    BY <1>1, <1>2, <2>1, <2>4, <2>5, <2>6, <2>7, LocalStepKeepsInv
<1>9. CASE Clear
  BY <1>2, <1>4, <1>9, ClearKeepsInv DEF Clear
<1>10. CASE Evict
  BY <1>2, <1>4, <1>10, EvictKeepsInv DEF Evict
<1> QED
  BY <1>5, <1>6, <1>7, <1>8, <1>9, <1>10 DEF Application

LEMMA NextKeepsInv == ProviderInv /\ [Next]_vars => ProviderInv'
<1> SUFFICES ASSUME ProviderInv, [Next]_vars PROVE ProviderInv'
  OBVIOUS
<1>1. ASSUME NEW c \in Calls, mode # "unused", Step(c)
      PROVE  ProviderInv'
  BY <1>1, StartKeepsInv, RedisGetKeepsInv, AnsweredKeepsInv, ReadFailsKeepsInv, FetchedKeepsInv,
     FetchFailsKeepsInv, RedisSetKeepsInv DEF Step
<1>2. CASE UNCHANGED vars
  <2>1. UNCHANGED <<now, cache, timeouts, promised, sets, providerVars>>
    BY <1>2 DEF vars, cacheVars
  <2>2. CacheInv'
    BY <2>1, SameCacheKeepsInv DEF SameCache, ProviderInv
  <2>3. Scheduled'
    BY <2>1 DEF Scheduled, ProviderInv, ProviderTyped
  <2>4. sets' \in 0 .. MaxSets /\ timeouts' \in Seq([key : Keys, value : Nat, ttl : Int])
    BY <2>1 DEF ProviderInv, ProviderTyped
  <2> QED
    BY <2>1, <2>2, <2>3, <2>4, LocalStepKeepsInv
<1> QED
  BY <1>1, <1>2, OtherSavesKeepsInv, LetTimePassKeepsInv, ApplicationKeepsInv
  DEF Next, GetCachedOrFetch, GetCachedOrRevalidate

THEOREM ProviderInvariant == Spec => []ProviderInv
<1>1. Init => ProviderInv
  BY InitInv
<1>2. ProviderInv /\ [Next]_vars => ProviderInv'
  BY NextKeepsInv
<1> QED
  BY <1>1, <1>2, PTL DEF Spec

-----------------------------------------------------------------------------
\* The local cache holds no more than its capacity, one entry for each key, and
\* forgets before its expiry only what as many other keys were used after as
\* it can hold, whatever calls, refreshes and the application do to it
\* (ZanixQLRUConnector.get, set, delete, evict).
THEOREM LocalCacheIsLRU == Spec => []CacheIsLRU
<1>1. ProviderInv => CacheIsLRU
  <2> SUFFICES ASSUME ProviderInv PROVE CacheIsLRU
    OBVIOUS
  <2>1. now \in 0 .. MaxTime /\ sets \in 0 .. MaxSets /\ Len(cache) <= Capacity
    BY DEF ProviderInv, ProviderTyped, CacheInv, Entries
  <2>2. \A e \in ToSet(cache) : e.key \in Keys /\ e.value \in -1 .. now /\ e.exp \in Nat
    <3>1. \A i \in DOMAIN cache : cache[i] \in Entry /\ cache[i].value \in -1 .. now
      BY DEF ProviderInv, CacheInv, Entries
    <3> QED
      BY <3>1 DEF ToSet, Entry
  <2>3. \A i, j \in DOMAIN cache : cache[i].key = cache[j].key => i = j
    BY DEF ProviderInv, CacheInv, Distinct
  <2>4. CacheTypeOK
    BY <2>1, <2>2, <2>3 DEF CacheTypeOK
  <2> QED
    BY <2>4 DEF CacheIsLRU, TypeOK, ProviderInv, ProviderTyped, CacheInv
<1> QED
  BY <1>1, ProviderInvariant, PTL

\* Whatever a call finds in the local cache was fetched less than two expiries
\* and two requests ago: by itself, by another call, or by another process
\* whose SET, or whose answer, was late or lost (getCachedOrFetch,
\* getCachedOrRevalidate, saveToCaches).
THEOREM ValuesAreYoung == Spec => []AtMostTwoTTLsOld
<1>1. ProviderInv => AtMostTwoTTLsOld
  <2> SUFFICES ASSUME ProviderInv, mode # "unused", Hit(Key), EntryOf(Key).value # Nothing
               PROVE  now - EntryOf(Key).value < 2 * TTL + 2 * Delay
    BY DEF AtMostTwoTTLsOld
  <2> DEFINE e == EntryOf(Key)
  <2>1. e.value \in Int /\ e.exp \in Nat /\ \E j \in DOMAIN cache : e = cache[j]
    BY HitFacts, NowFacts DEF Hit, ProviderInv
  <2>2. YoungEntry(e)
    BY <2>1 DEF ProviderInv, Young
  <2>3. ~(e.exp > 0 /\ now > e.exp)
    BY DEF Hit, Expired
  <2>4. e.value # Nothing
    OBVIOUS
  <2> HIDE DEF e
  <2>5. e.exp > 0 /\ e.exp < e.value + 2 * TTL + 2 * Delay /\ now <= e.exp
    BY <2>1, <2>2, <2>3, <2>4, NowFacts DEF YoungEntry
  <2>6. now - e.value < 2 * TTL + 2 * Delay
    BY <2>1, <2>5, NowFacts
  <2> QED
    BY <2>6 DEF e
<1> QED
  BY <1>1, ProviderInvariant, PTL

\* A call of getCachedOrRevalidate with a fetcher that ends with a value older
\* than softTtl has just fetched it itself, or leaves a refresh running.
THEOREM StaleValuesAreRefreshed == Spec => StaleIsRefreshed
<1> DEFINE Refreshed(c) ==
             /\ call[c].pc # "done" /\ call'[c].pc = "done"
             /\ mode = "revalidate" /\ call[c].fetcher
             /\ call'[c].got # Nothing /\ now - call'[c].got >= SoftTTL
             => call[c].pc = "saving" \/ refresh'[c].pc = "fetching"
<1>1. ProviderInv /\ [Next]_vars => \A c \in Calls : Refreshed(c)
  <2> SUFFICES ASSUME ProviderInv, [Next]_vars, NEW c \in Calls,
                      call[c].pc # "done", call'[c].pc = "done", mode = "revalidate", call[c].fetcher,
                      call'[c].got # Nothing, now - call'[c].got >= SoftTTL
               PROVE  call[c].pc = "saving" \/ refresh'[c].pc = "fetching"
    OBVIOUS
  <2>1. /\ call \in [Calls -> Task] /\ refresh \in [Calls -> Task]
        /\ now \in Int /\ SoftTTL \in Nat /\ call' # call
        /\ \A o \in Calls : call[o] \in Task /\ refresh[o] \in Task /\ call[o].got \in Int
    BY NowFacts, ProviderConstants DEF ProviderInv, ProviderTyped
  <2>2. PICK o \in Calls : Step(o)
    BY <2>1 DEF Next, Application, LetTimePass, OtherSaves, vars, providerVars, GetCachedOrFetch, GetCachedOrRevalidate
  <2>3. CASE Start(o)
    <3> DEFINE value == LocalValue(Key)
    <3>1. PICK f \in BOOLEAN : call' = [call EXCEPT ![o] =
             [pc |-> IF value # Nothing /\ Fresh(value) THEN "done" ELSE "reading",
              fetcher |-> f, local |-> value, got |-> value, sent |-> now]]
      BY <2>3 DEF Start
    <3>2. o = c
      BY <2>1, <3>1
    <3>3. call'[c].got = value /\ value # Nothing /\ Fresh(value)
      BY <2>1, <3>1, <3>2
    <3> HIDE DEF value
    <3>4. now - value < SoftTTL
      BY <3>3 DEF Fresh
    <3>5. now - value >= SoftTTL
      BY <3>3
    <3>6. value \in Int
      <4>1. Hit(Key) => EntryOf(Key).value \in Int
        BY HitFacts, NowFacts DEF Hit, ProviderInv
      <4> QED
        BY <4>1 DEF value, LocalValue, Nothing
    <3> QED
      BY <2>1, <3>4, <3>5, <3>6
  <2>4. CASE RedisGet(o)
    BY <2>1, <2>4 DEF RedisGet, Task
  <2>5. CASE Answered(o)
    <3>1. /\ call' = [call EXCEPT ![o].pc = IF call[o].got = Nothing /\ call[o].fetcher THEN "fetching" ELSE "done"]
          /\ refresh' = IF call[o].got # Nothing /\ ~Fresh(call[o].got) /\ call[o].fetcher
                        THEN [refresh EXCEPT ![o].pc = "fetching"] ELSE refresh
      BY <2>5 DEF Answered
    <3>2. o = c
      BY <2>1, <3>1
    <3>3. call'[c].got = call[c].got
      BY <2>1, <3>1 DEF Task
    <3>4. ~Fresh(call[c].got)
      BY <2>1, <3>3 DEF Fresh
    <3>5. refresh' = [refresh EXCEPT ![c].pc = "fetching"]
      BY <3>1, <3>2, <3>3, <3>4
    <3> QED
      BY <2>1, <3>5 DEF Task
  <2>6. CASE ReadFails(o)
    BY <2>1, <2>6 DEF ReadFails, Task
  <2>7. CASE Fetched(o)
    <3>1. call' = [call EXCEPT ![o] = SaveToCaches(@)]
      BY <2>1, <2>7 DEF Fetched
    <3>2. call'[o] = SaveToCaches(call[o]) /\ (o # c => call'[c] = call[c])
      BY <2>1, <3>1
    <3>3. call'[o].pc = "saving"
      BY <2>1, <3>2 DEF SaveToCaches, Task
    <3> QED
      BY <3>2, <3>3
  <2>8. CASE FetchFails(o)
    BY <2>1, <2>8 DEF FetchFails, Task
  <2>9. CASE RedisSet(o)
    <3>1. call[o].pc = "saving" /\ call' = [call EXCEPT ![o].pc = "done"]
      BY <2>1, <2>9 DEF RedisSet
    <3> QED
      BY <2>1, <3>1
  <2> QED
    BY <2>2, <2>3, <2>4, <2>5, <2>6, <2>7, <2>8, <2>9 DEF Step
<1>2. ProviderInv /\ [Next]_vars => [\A c \in Calls : Refreshed(c)]_vars
  BY <1>1
<1> QED
  BY <1>2, ProviderInvariant, PTL DEF Spec, StaleIsRefreshed
=============================================================================
