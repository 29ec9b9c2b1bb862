-------------------------------- MODULE DLQ --------------------------------
(***************************************************************************)
(* The persisted dead-letter queue (dlq/dlq.provider.ts): a MongoDB        *)
(* collection of entries that several application instances claim under a  *)
(* lease, process, and settle.  Every database call is one atomic step;    *)
(* what the provider does between two awaits is not.  So claim() is two    *)
(* steps (it reads its own clock, then the update lands) and fail() is two *)
(* steps (it reads the entry, then writes).                                *)
(*                                                                         *)
(* A worker is one sequential processing loop: claim, process, settle.     *)
(* Payloads, error texts and metadata are left out: no guard reads them.   *)
(* An errorHistory entry is represented by its `attempt' number.           *)
(***************************************************************************)
EXTENDS Naturals, Sequences

CONSTANTS
    Ids,            \* the _id values entries are created with
    Workers,        \* the processing loops of all application instances
    TypeOf,         \* TypeOf[id]: the processType the entry is pushed with
    Subscribes,     \* Subscribes[w]: the process types the claims of w admit
    LeaseOwner,     \* LeaseOwner[w]: the label w passes as options.leaseOwner
    Caps,           \* the values of maxAttempts that are pushed; 0: undefined
    LeaseTtl,       \* leaseTtlMs, in clock units
    Nil,            \* an unset field
    MaxSkew,        \* bound: how far an instance clock runs ahead of the slowest
    MaxClock,       \* bound: the last instant of the clock
    MaxClaims,      \* bound: the number of times one entry is claimed
    MaxDisruptions  \* bound: crashes, lost replies, releases, overruns, admin calls

Owners == {LeaseOwner[w] : w \in Workers}
ProcessTypes == {TypeOf[id] : id \in Ids}

ASSUME DLQConstants ==
    /\ TypeOf \in [Ids -> ProcessTypes]
    /\ LeaseOwner \in [Workers -> Owners]
    /\ Subscribes \in [Workers -> SUBSET ProcessTypes]
    /\ Caps \subseteq Nat /\ Caps # {}
    /\ LeaseTtl \in Nat \ {0}
    /\ Nil \notin Ids /\ Nil \notin Owners
    /\ {MaxSkew, MaxClock, MaxClaims, MaxDisruptions} \subseteq Nat

VARIABLES
    store,       \* the collection: one document for each id
    clock,       \* the clock of the slowest instance
    pc,          \* pc[w]: where the loop of w stands
    now,         \* now[w]: the Date a claim in flight has read
    held,        \* held[w]: the entry w was given, and its lease
    snap,        \* snap[w]: the document fail() has read
    grant,       \* ghost: how many times each entry has been claimed
    ended,       \* ghost: the claims ended by a settlement or an admin call
    disruptions  \* how much of MaxDisruptions has been spent

vars == <<store, clock, pc, now, held, snap, grant, ended, disruptions>>
workerVars == <<pc, now, held, snap>>

NoLease == 0
Status == {"pending", "claimed", "failed", "completed", "discarded"}

\* DLQEntryAttrs; `absent' and `removed' are ids with no document.
Entry == [status: Status \cup {"absent", "removed"}, attempts: Nat,
          maxAttempts: Nat, leaseOwner: Owners \cup {Nil},
          leaseExpiresAt: Nat, createdAt: Nat, errorHistory: Seq(Nat)]

NoDocument(status) ==
    [status |-> status, attempts |-> 0, maxAttempts |-> 0, leaseOwner |-> Nil,
     leaseExpiresAt |-> NoLease, createdAt |-> 0, errorHistory |-> << >>]

NoClaim == [id |-> Nil, grant |-> 0, until |-> NoLease]
NoSnap == [attempts |-> 0, maxAttempts |-> 0]

Present(id) == store[id].status \in Status
Holding(w) == pc[w] \in {"holding", "failing"}

Init ==
    /\ store = [id \in Ids |-> NoDocument("absent")]
    /\ clock = 1
    /\ pc = [w \in Workers |-> "idle"]
    /\ now = [w \in Workers |-> 0]
    /\ held = [w \in Workers |-> NoClaim]
    /\ snap = [w \in Workers |-> NoSnap]
    /\ grant = [id \in Ids |-> 0]
    /\ ended = [id \in Ids |-> {}]
    /\ disruptions = 0

----------------------------------------------------------------------------
(* Time, and the bound on what goes wrong. *)

\* new Date() on some instance.
Instants == clock .. (clock + MaxSkew)

Spend(n) ==
    /\ disruptions + n <= MaxDisruptions
    /\ disruptions' = disruptions + n

\* A live worker is about to outlive the lease it works under.
Overrun == \E w \in Workers : Holding(w) /\ held[w].until = clock

\* Time passes.  Once no lease is running and every document is in the past
\* a further tick changes no outcome, so idle time is not represented.
Tick ==
    /\ clock < MaxClock
    /\ \E id \in Ids : store[id].leaseExpiresAt >= clock \/ store[id].createdAt >= clock
    /\ clock' = clock + 1
    /\ Spend(IF Overrun THEN 1 ELSE 0)
    /\ UNCHANGED <<store, grant, ended, workerVars>>

----------------------------------------------------------------------------
(* The operations of DLQProvider. *)

Idle(w) ==
    /\ pc' = [pc EXCEPT ![w] = "idle"]
    /\ now' = [now EXCEPT ![w] = 0]
    /\ held' = [held EXCEPT ![w] = NoClaim]
    /\ snap' = [snap EXCEPT ![w] = NoSnap]

\* push(): a new document, pending, never claimed, one history entry.
Push(id) ==
    /\ store[id].status = "absent"
    /\ \E at \in Instants, cap \in Caps :
         store' = [store EXCEPT ![id] =
                     [NoDocument("pending") EXCEPT !.maxAttempts = cap,
                                                   !.createdAt = at,
                                                   !.errorHistory = <<0>>]]
    /\ UNCHANGED <<clock, grant, ended, disruptions, workerVars>>

\* claim() up to its database call: the clock is read here ...
ClaimRead(w) ==
    /\ pc[w] = "idle"
    /\ pc' = [pc EXCEPT ![w] = "claiming"]
    /\ \E t \in Instants : now' = [now EXCEPT ![w] = t]
    /\ UNCHANGED <<store, clock, held, snap, grant, ended, disruptions>>

\* Mutants of Eligible.
ClaimsLiveLease(e, t) == e.status \in {"pending", "claimed"}
NeverReclaims(e, t) == e.status = "pending" /\ e.leaseExpiresAt = NoLease

\* The eligibility filter of claim(), for a call that read the instant t.
Eligible(e, t) ==
    /\ e.status \in {"pending", "claimed"}
    /\ e.leaseExpiresAt = NoLease \/ e.leaseExpiresAt < t

\* $set status, leaseOwner and leaseExpiresAt, $inc attempts.
Leased(e, owner, until) ==
    [e EXCEPT !.status = "claimed", !.leaseOwner = owner,
              !.leaseExpiresAt = until, !.attempts = e.attempts + 1]

\* ... and the update is applied here, possibly much later, to the oldest
\* eligible document.  The reply may be lost (or toEntry may throw): then the
\* document is claimed and nobody knows.
ClaimUpdate(w, id) ==
    /\ grant[id] < MaxClaims
    /\ store' = [store EXCEPT ![id] =
                   Leased(store[id], LeaseOwner[w], now[w] + LeaseTtl)]
    /\ grant' = [grant EXCEPT ![id] = @ + 1]
    /\ \/ /\ pc' = [pc EXCEPT ![w] = "holding"]
          /\ held' = [held EXCEPT ![w] = [id |-> id, grant |-> grant[id] + 1,
                                          until |-> now[w] + LeaseTtl]]
          /\ now' = [now EXCEPT ![w] = 0]
          /\ UNCHANGED <<snap, disruptions>>
       \/ Spend(1) /\ Idle(w)
    /\ UNCHANGED <<clock, ended>>

Candidates(w) ==
    {id \in Ids : Eligible(store[id], now[w]) /\ TypeOf[id] \in Subscribes[w]}

\* claim() with nothing eligible returns null.
ClaimNull(w) ==
    /\ Candidates(w) = {}
    /\ Idle(w)
    /\ UNCHANGED <<store, clock, grant, ended, disruptions>>

Claim(w) ==
    /\ pc[w] = "claiming"
    /\ \/ ClaimNull(w)
       \/ \E id \in Candidates(w) :
            /\ \A other \in Candidates(w) : store[id].createdAt <= store[other].createdAt
            /\ ClaimUpdate(w, id)

\* Mutant of Fenced.
FencedByStatusOnly(e, owner) == e.status = "claimed"

\* The filter every lease-fenced update carries.
Fenced(e, owner) == e.leaseOwner = owner /\ e.status = "claimed"

\* Mutants of Unleased.
UnleasedKeepsExpiry(e, status) == [e EXCEPT !.status = status, !.leaseOwner = Nil]
UnleasedWritesNull(e, status) ==
    [e EXCEPT !.status = status, !.leaseOwner = Nil, !.leaseExpiresAt = Nil]

\* $set status, $unset leaseOwner and leaseExpiresAt.
Unleased(e, status) ==
    [e EXCEPT !.status = status, !.leaseOwner = Nil, !.leaseExpiresAt = NoLease]

\* transitionLeasedEntry(): one atomic update, or CONFLICT.  A caller whose
\* reply is lost still believes it holds the entry, and may call again.
TransitionLeasedEntry(w, status, history, cost) ==
    LET id == held[w].id IN
    \/ /\ Fenced(store[id], LeaseOwner[w])
       /\ store' = [store EXCEPT ![id] =
                      [Unleased(store[id], status) EXCEPT !.errorHistory = history]]
       /\ ended' = [ended EXCEPT ![id] = @ \cup {grant[id]}]
       /\ \/ Idle(w) /\ Spend(cost)
          \/ /\ Spend(cost + 1)
             /\ pc' = [pc EXCEPT ![w] = "holding"]
             /\ snap' = [snap EXCEPT ![w] = NoSnap]
             /\ UNCHANGED <<now, held>>
       /\ UNCHANGED <<clock, grant>>
    \/ /\ ~Fenced(store[id], LeaseOwner[w])
       /\ Idle(w)
       /\ UNCHANGED <<store, clock, grant, ended, disruptions>>

\* release(): a consumer gives its claim up, on shutdown.
Release(w) ==
    /\ pc[w] = "holding"
    /\ TransitionLeasedEntry(w, "pending", store[held[w].id].errorHistory, 1)

\* complete().
Complete(w) ==
    /\ pc[w] = "holding"
    /\ TransitionLeasedEntry(w, "completed", store[held[w].id].errorHistory, 0)

\* fail(), first await: read the document the caller claims to hold.
FailRead(w) ==
    /\ pc[w] = "holding"
    /\ LET e == store[held[w].id] IN
       IF Fenced(e, LeaseOwner[w])
       THEN /\ pc' = [pc EXCEPT ![w] = "failing"]
            /\ snap' = [snap EXCEPT ![w] = [attempts |-> e.attempts,
                                            maxAttempts |-> e.maxAttempts]]
            /\ UNCHANGED <<now, held>>
       ELSE Idle(w)
    /\ UNCHANGED <<store, clock, grant, ended, disruptions>>

\* Mutant of NextStatus.
NextStatusOffByOne(s) ==
    IF s.maxAttempts # 0 /\ s.attempts > s.maxAttempts THEN "failed" ELSE "pending"

\* maxAttempts 0 is falsy: no cap.
NextStatus(s) ==
    IF s.maxAttempts # 0 /\ s.attempts >= s.maxAttempts THEN "failed" ELSE "pending"

\* fail(), second await: the update, computed from what was read.
FailWrite(w) ==
    /\ pc[w] = "failing"
    /\ TransitionLeasedEntry(w, NextStatus(snap[w]),
         Append(store[held[w].id].errorHistory, snap[w].attempts), 0)

\* requeue(): administrative, whatever the status; attempts may be reset.
Requeue(id) ==
    /\ Present(id)
    /\ Spend(1)
    /\ \E reset \in BOOLEAN :
         store' = [store EXCEPT ![id] =
                     [Unleased(store[id], "pending") EXCEPT
                        !.attempts = IF reset THEN 0 ELSE store[id].attempts]]
    /\ ended' = [ended EXCEPT ![id] = @ \cup {grant[id]}]
    /\ UNCHANGED <<clock, grant, workerVars>>

\* discard(): administrative, whatever the status.
Discard(id) ==
    /\ Present(id)
    /\ Spend(1)
    /\ store' = [store EXCEPT ![id] = Unleased(store[id], "discarded")]
    /\ ended' = [ended EXCEPT ![id] = @ \cup {grant[id]}]
    /\ UNCHANGED <<clock, grant, workerVars>>

\* remove(): the document is deleted.
Remove(id) ==
    /\ Present(id)
    /\ Spend(1)
    /\ store' = [store EXCEPT ![id] = NoDocument("removed")]
    /\ ended' = [ended EXCEPT ![id] = @ \cup {grant[id]}]
    /\ UNCHANGED <<clock, grant, workerVars>>

\* A worker dies, and its loop starts again with nothing in hand.
Crash(w) ==
    /\ pc[w] # "idle"
    /\ Spend(1)
    /\ Idle(w)
    /\ UNCHANGED <<store, clock, grant, ended>>

Process(w) == Complete(w) \/ FailRead(w) \/ FailWrite(w)

Next ==
    \/ Tick
    \/ \E id \in Ids : Push(id) \/ Requeue(id) \/ Discard(id) \/ Remove(id)
    \/ \E w \in Workers : \/ ClaimRead(w) \/ Claim(w) \/ Release(w)
                          \/ Complete(w) \/ FailRead(w) \/ FailWrite(w)
                          \/ Crash(w)

Spec == Init /\ [][Next]_vars

\* A worker loop keeps polling, its database calls are answered, its
\* processing ends, and time passes.
Fairness ==
    /\ WF_vars(Tick)
    /\ \A w \in Workers :
         WF_vars(ClaimRead(w)) /\ WF_vars(Claim(w)) /\ WF_vars(Process(w))

FairSpec == Spec /\ Fairness

----------------------------------------------------------------------------
(* Properties. *)

\* The variables keep their types.
TypeOK ==
    /\ store \in [Ids -> Entry]
    /\ clock \in Nat
    /\ pc \in [Workers -> {"idle", "claiming", "holding", "failing"}]
    /\ now \in [Workers -> Nat]
    /\ held \in [Workers -> [id: Ids \cup {Nil}, grant: Nat, until: Nat]]
    /\ snap \in [Workers -> [attempts: Nat, maxAttempts: Nat]]
    /\ grant \in [Ids -> Nat]
    /\ ended \in [Ids -> SUBSET Nat]
    /\ disruptions \in Nat

\* The lease fields and the status never disagree: a document is `claimed'
\* exactly when it carries a lease.  The claim filter relies on it: a stale
\* leaseExpiresAt left on a pending document would hide it from claim().
LeaseMatchesStatus ==
    \A id \in Ids :
      /\ (store[id].status = "claimed") <=> (store[id].leaseOwner # Nil)
      /\ (store[id].status = "claimed") <=> (store[id].leaseExpiresAt # NoLease)

\* The lease of w still runs, whatever instance clock it is compared with.
LeaseRuns(w) == Holding(w) /\ held[w].until >= clock + MaxSkew

\* Two workers never both work on an entry under running leases, unless one
\* of the two claims was settled or ended by an administrator: what claim()
\* says of concurrent callers, extended over the whole lease and to clocks
\* that disagree by up to MaxSkew.
MutualExclusion ==
    \A v, w \in Workers :
      /\ v # w
      /\ LeaseRuns(v) /\ LeaseRuns(w)
      /\ held[v].id = held[w].id
      => \E u \in {v, w} : held[u].grant \in ended[held[u].id]

\* Why MutualExclusion holds.  A claim some worker believes it has is the
\* current one, or has been ended, or has run out; an instant a claim has read
\* is not in the future of the fastest clock; no claim is held twice.
ClaimState(w) ==
    LET id == held[w].id IN
    /\ id \in Ids
    /\ held[w].grant <= grant[id]
    /\ \/ held[w].grant \in ended[id]
       \/ held[w].until < clock + MaxSkew
       \/ /\ held[w].grant = grant[id]
          /\ store[id].status = "claimed"
          /\ store[id].leaseExpiresAt = held[w].until

ClaimsTracked ==
    /\ \A w \in Workers : Holding(w) => ClaimState(w)
    /\ \A w \in Workers : now[w] <= clock + MaxSkew
    /\ \A v, w \in Workers :
         Holding(v) /\ Holding(w) /\ v # w /\ held[v].id = held[w].id
         => held[v].grant # held[w].grant

\* A worker whose update passes the fence of transitionLeasedEntry holds the
\* claim that is current, never an older one of its own that has been
\* superseded.  The fence compares labels only, so this needs every worker to
\* have a label of its own.
FencedIsCurrent ==
    \A w \in Workers :
      Holding(w) /\ Fenced(store[held[w].id], LeaseOwner[w])
      => held[w].grant = grant[held[w].id]

\* What fail() has read of a document is still true of it as long as the
\* fence lets its update through.
SnapshotCurrent ==
    \A w \in Workers :
      pc[w] = "failing" /\ Fenced(store[held[w].id], LeaseOwner[w])
      => /\ snap[w].attempts = store[held[w].id].attempts
         /\ snap[w].maxAttempts = store[held[w].id].maxAttempts

\* The condition FencedIsCurrent, SnapshotCurrent and FailureRecorded need.
UniqueLabels == \A v, w \in Workers : LeaseOwner[v] = LeaseOwner[w] => v = w

AtCap(e) == e.maxAttempts # 0 /\ e.attempts >= e.maxAttempts

\* Every failure is recorded with the attempts count the document has when it
\* is recorded, and closes the entry exactly when that count has reached
\* maxAttempts, although fail() decides from an earlier read.
FailureRecorded ==
    [][\A id \in Ids :
         Len(store'[id].errorHistory) > Len(store[id].errorHistory)
           /\ store[id].status # "absent"
         => LET e == store'[id] IN
            /\ e.errorHistory[Len(e.errorHistory)] = e.attempts
            /\ e.status = IF AtCap(e) THEN "failed" ELSE "pending"]_vars

\* Every entry that can be claimed is closed in the end, in whatever way: an
\* abandoned claim is taken over, and entries that keep failing do not starve
\* the younger ones for ever.  Holds when every entry has a cap, since
\* claim() always prefers the oldest.
Drains ==
    \A id \in Ids :
      store[id].status \in {"pending", "claimed"}
      ~> store[id].status \in {"completed", "failed", "discarded", "removed"}
=============================================================================
