--------------------------- MODULE FallbackStorage ---------------------------
(***************************************************************************)
(* An object store with a local fallback: createFallbackObjectStorage()    *)
(* (storage/fallback-object-storage.ts) over a primary store and a local   *)
(* directory, with ensureLocalObjectsSynced() (sync-local-objects.ts) as   *)
(* its ensureSynced.  Each process copies, before its first operation,     *)
(* what only the directory has; a copy that fails is started again by the  *)
(* next operation.  Each request to a store is one atomic step.            *)
(*                                                                         *)
(* A client is a caller of the combined store; get() and exists() make the *)
(* same two requests and are one operation, lookup.                        *)
(***************************************************************************)
EXTENDS Naturals, FiniteSets

CONSTANTS
    Keys, Values, None,
    Processes,
    Clients,
    Runs,         \* Runs[c]: the process client c runs in
    MaxOps,       \* bound: the puts and deletes
    MaxFaults     \* bound: the requests to the primary store that fail

ASSUME FallbackConstants ==
    /\ None \notin Values /\ Runs \in [Clients -> Processes]
    /\ {MaxOps, MaxFaults} \subseteq Nat

VARIABLES
    primary, fallback,  \* what each store has under a key, or None
    sync,       \* sync[p]: syncPromise: "none", "done", or where the copy stands
    todo,       \* todo[p]: the keys the walk of the directory has still to yield
    copying,    \* copying[p]: the key in hand, and what was read under it
    pc,         \* pc[c]: where the operation of c stands
    op,         \* op[c]: the operation, its key and its value
    removing,   \* removing[c]: the stores a delete has not heard from
    steady,     \* ghost: steady[c]: the key looked up has been stored, and nobody
                \* was deleting it, ever since the lookup began
    deleted,    \* ghost: the keys deleted and not put since
    ops, faults \* how much of the bounds has been spent

vars == <<primary, fallback, sync, todo, copying, pc, op, removing, steady,
          deleted, ops, faults>>
storeVars == <<primary, fallback>>
syncVars == <<sync, todo, copying>>
clientVars == <<pc, op, removing>>
ghostVars == <<steady, deleted>>
boundVars == <<ops, faults>>

Stored == Values \cup {None}
NoOp == [kind |-> "none"]
NoCopy == [key |-> None, value |-> None]

Init ==
    /\ primary \in [Keys -> Stored] /\ fallback \in [Keys -> Stored]
    /\ sync = [p \in Processes |-> "none"] /\ todo = [p \in Processes |-> {}]
    /\ copying = [p \in Processes |-> NoCopy]
    /\ pc = [c \in Clients |-> "idle"] /\ op = [c \in Clients |-> NoOp]
    /\ removing = [c \in Clients |-> {}]
    /\ steady = [c \in Clients |-> FALSE] /\ deleted = {}
    /\ ops = 0 /\ faults = 0

Fault == faults < MaxFaults /\ faults' = faults + 1

----------------------------------------------------------------------------
(* syncLocalObjects(), in process p. *)

\* The callers awaiting the promise of p go on.
Wake(p) == [c \in Clients |-> IF Runs[c] = p /\ pc[c] = "syncing" THEN "ready" ELSE pc[c]]

\* The walk yields a key, or ends.
SyncNext(p) ==
    /\ sync[p] = "walking"
    /\ \/ \E k \in todo[p] :
            /\ todo' = [todo EXCEPT ![p] = @ \ {k}]
            /\ copying' = [copying EXCEPT ![p] = [key |-> k, value |-> None]]
            /\ sync' = [sync EXCEPT ![p] = "exists"]
            /\ UNCHANGED pc
       \/ /\ todo[p] = {}
          /\ sync' = [sync EXCEPT ![p] = "done"]
          /\ pc' = Wake(p)
          /\ UNCHANGED <<todo, copying>>
    /\ UNCHANGED <<storeVars, op, removing, ghostVars, boundVars>>

Skip(p) ==
    /\ sync' = [sync EXCEPT ![p] = "walking"]
    /\ copying' = [copying EXCEPT ![p] = NoCopy]

\* Mutant of SyncExists.
CopiesAll(p) ==
    /\ sync[p] = "exists"
    /\ sync' = [sync EXCEPT ![p] = "get"] /\ UNCHANGED copying
    /\ UNCHANGED <<storeVars, todo, clientVars, ghostVars, boundVars>>

\* primary.exists().
SyncExists(p) ==
    /\ sync[p] = "exists"
    /\ IF primary[copying[p].key] # None
       THEN Skip(p)
       ELSE sync' = [sync EXCEPT ![p] = "get"] /\ UNCHANGED copying
    /\ UNCHANGED <<storeVars, todo, clientVars, ghostVars, boundVars>>

\* local.get().
SyncGet(p) ==
    /\ sync[p] = "get"
    /\ LET value == fallback[copying[p].key] IN
       IF value = None
       THEN Skip(p)
       ELSE /\ copying' = [copying EXCEPT ![p].value = value]
            /\ sync' = [sync EXCEPT ![p] = "put"]
    /\ UNCHANGED <<storeVars, todo, clientVars, ghostVars, boundVars>>

\* primary.put().
SyncPut(p) ==
    /\ sync[p] = "put"
    /\ primary' = [primary EXCEPT ![copying[p].key] = copying[p].value]
    /\ Skip(p)
    /\ UNCHANGED <<fallback, todo, clientVars, ghostVars, boundVars>>

\* Mutant of SyncFails.
KeepsPromise(p) ==
    /\ sync[p] \in {"exists", "put"}
    /\ Fault
    /\ sync' = [sync EXCEPT ![p] = "done"]
    /\ todo' = [todo EXCEPT ![p] = {}]
    /\ copying' = [copying EXCEPT ![p] = NoCopy]
    /\ UNCHANGED <<storeVars, pc, op, removing, ghostVars, ops>>

\* A request to the primary store fails: the memo is reset, and the callers,
\* who log the error, go on without.
SyncFails(p) ==
    /\ sync[p] \in {"exists", "put"}
    /\ Fault
    /\ sync' = [sync EXCEPT ![p] = "none"]
    /\ todo' = [todo EXCEPT ![p] = {}]
    /\ copying' = [copying EXCEPT ![p] = NoCopy]
    /\ pc' = Wake(p)
    /\ UNCHANGED <<storeVars, op, removing, ghostVars, ops>>

Sync(p) == SyncNext(p) \/ SyncExists(p) \/ SyncGet(p) \/ SyncPut(p) \/ SyncFails(p)

----------------------------------------------------------------------------
(* The operations. *)

Deleting(k) ==
    \E c \in Clients : op[c].kind = "delete" /\ op[c].key = k /\ pc[c] # "idle"

\* An operation begins with ensureSynced(), which starts the copy unless it
\* runs or is done.
Begin(c, request) ==
    LET p == Runs[c] IN
    /\ pc[c] = "idle"
    /\ op' = [op EXCEPT ![c] = request]
    /\ pc' = [pc EXCEPT ![c] = IF sync[p] = "done" THEN "ready" ELSE "syncing"]
    /\ IF sync[p] = "none"
       THEN /\ sync' = [sync EXCEPT ![p] = "walking"]
            /\ todo' = [todo EXCEPT ![p] = {k \in Keys : fallback[k] # None}]
       ELSE UNCHANGED <<sync, todo>>
    /\ UNCHANGED <<storeVars, copying, removing, faults>>

BeginPut(c, k) ==
    /\ ops < MaxOps /\ ops' = ops + 1
    /\ \E v \in Values : Begin(c, [kind |-> "put", key |-> k, value |-> v])
    /\ UNCHANGED ghostVars

BeginDelete(c, k) ==
    /\ ops < MaxOps /\ ops' = ops + 1
    /\ Begin(c, [kind |-> "delete", key |-> k])
    /\ steady' = [d \in Clients |-> steady[d] /\ op[d].key # k]
    /\ UNCHANGED deleted

BeginLookup(c, k) ==
    /\ Begin(c, [kind |-> "lookup", key |-> k])
    /\ steady' = [steady EXCEPT ![c] =
                    (primary[k] # None \/ fallback[k] # None) /\ ~Deleting(k)]
    /\ UNCHANGED <<deleted, ops>>

\* The operation of c is over, and c may call again.
End(c) ==
    /\ pc' = [pc EXCEPT ![c] = "idle"]
    /\ op' = [op EXCEPT ![c] = NoOp]
    /\ removing' = [removing EXCEPT ![c] = {}]
    /\ steady' = [steady EXCEPT ![c] = FALSE]

\* put(): to the primary store only.
Put(c) ==
    /\ pc[c] = "ready" /\ op[c].kind = "put"
    /\ primary' = [primary EXCEPT ![op[c].key] = op[c].value]
    /\ deleted' = deleted \ {op[c].key}
    /\ End(c)
    /\ UNCHANGED <<fallback, syncVars, boundVars>>

\* Mutant of LookupPrimary.
PrimaryOnly(c) ==
    /\ pc[c] = "ready" /\ op[c].kind = "lookup"
    /\ IF primary[op[c].key] # None
       THEN End(c)
       ELSE pc' = [pc EXCEPT ![c] = "missed"] /\ UNCHANGED <<op, removing, steady>>
    /\ UNCHANGED <<storeVars, syncVars, deleted, boundVars>>

\* get() and exists(): the primary store first ...
LookupPrimary(c) ==
    /\ pc[c] = "ready" /\ op[c].kind = "lookup"
    /\ IF primary[op[c].key] # None
       THEN End(c)
       ELSE pc' = [pc EXCEPT ![c] = "second"] /\ UNCHANGED <<op, removing, steady>>
    /\ UNCHANGED <<storeVars, syncVars, deleted, boundVars>>

\* ... and on a miss the fallback.
LookupFallback(c) ==
    /\ pc[c] = "second"
    /\ IF fallback[op[c].key] # None
       THEN End(c)
       ELSE pc' = [pc EXCEPT ![c] = "missed"] /\ UNCHANGED <<op, removing, steady>>
    /\ UNCHANGED <<storeVars, syncVars, deleted, boundVars>>

\* The caller is told that nothing is there.
Miss(c) ==
    /\ pc[c] = "missed"
    /\ End(c)
    /\ UNCHANGED <<storeVars, syncVars, deleted, boundVars>>

\* delete(): two requests at once ...
Delete(c) ==
    /\ pc[c] = "ready" /\ op[c].kind = "delete"
    /\ removing' = [removing EXCEPT ![c] = {"primary", "fallback"}]
    /\ pc' = [pc EXCEPT ![c] = "removing"]
    /\ UNCHANGED <<storeVars, syncVars, op, ghostVars, boundVars>>

\* Mutant of DeleteOne.
PrimaryIsEnough(c) ==
    /\ pc[c] = "removing" /\ "primary" \in removing[c]
    /\ primary' = [primary EXCEPT ![op[c].key] = None]
    /\ deleted' = deleted \cup {op[c].key}
    /\ End(c)
    /\ UNCHANGED <<fallback, syncVars, boundVars>>

\* ... answered in any order, and over when both are.
DeleteOne(c) ==
    /\ pc[c] = "removing"
    /\ \E s \in removing[c] :
         /\ primary' = IF s = "primary" THEN [primary EXCEPT ![op[c].key] = None] ELSE primary
         /\ fallback' = IF s = "fallback" THEN [fallback EXCEPT ![op[c].key] = None] ELSE fallback
         /\ IF removing[c] = {s}
            THEN /\ deleted' = IF primary'[op[c].key] = None
                               THEN deleted \cup {op[c].key} ELSE deleted
                 /\ End(c)
            ELSE /\ removing' = [removing EXCEPT ![c] = @ \ {s}]
                 /\ UNCHANGED <<pc, op, steady, deleted>>
    /\ UNCHANGED <<syncVars, boundVars>>

\* What the request of c does to the primary store.
Effect(c) ==
    CASE op[c].kind = "put"    -> [primary EXCEPT ![op[c].key] = op[c].value]
      [] op[c].kind = "delete" -> [primary EXCEPT ![op[c].key] = None]
      [] OTHER                 -> primary

\* A request of c to the primary store fails, or only its answer is lost, and
\* its operation fails.  The other request of a delete is not withdrawn.
OpFails(c) ==
    /\ \/ pc[c] = "ready" /\ op[c].kind # "delete" /\ UNCHANGED fallback
       \/ /\ pc[c] = "removing" /\ "primary" \in removing[c]
          /\ fallback' = [fallback EXCEPT ![op[c].key] = None]
    /\ Fault
    /\ primary' \in {primary, Effect(c)}
    /\ deleted' = {k \in deleted : primary'[k] = primary[k]}
    /\ End(c)
    /\ UNCHANGED <<syncVars, ops>>

Proceed(c) ==
    \/ Put(c) \/ LookupPrimary(c) \/ LookupFallback(c) \/ Miss(c)
    \/ Delete(c) \/ DeleteOne(c) \/ OpFails(c)

Next ==
    \/ \E p \in Processes : Sync(p)
    \/ \E c \in Clients :
         \/ \E k \in Keys : BeginPut(c, k) \/ BeginDelete(c, k) \/ BeginLookup(c, k)
         \/ Proceed(c)

Spec == Init /\ [][Next]_vars

\* Requests are answered, or fail.
FairSpec ==
    /\ Spec
    /\ \A p \in Processes : WF_vars(Sync(p))
    /\ \A c \in Clients : WF_vars(Proceed(c))

----------------------------------------------------------------------------
(* Properties. *)

\* The variables keep their types; an operation waits only for a copy that is
\* in progress.
TypeOK ==
    /\ {primary, fallback} \subseteq [Keys -> Stored]
    /\ sync \in [Processes -> {"none", "walking", "exists", "get", "put", "done"}]
    /\ todo \in [Processes -> SUBSET Keys]
    /\ pc \in [Clients -> {"idle", "syncing", "ready", "second", "missed", "removing"}]
    /\ \A c \in Clients : pc[c] = "syncing" => sync[Runs[c]] \notin {"none", "done"}
    /\ deleted \subseteq Keys

\* An object that is somewhere the whole time is found: reads never come back
\* empty because the copy is moving objects from one store to the other.
NeverMisses == \A c \in Clients : pc[c] = "missed" => ~steady[c]

\* Once the copy is done, and while nobody is deleting, no object is in the
\* directory alone: the fallback could be taken away.
Migrated ==
    \A p \in Processes, k \in Keys :
      sync[p] = "done" /\ ~Deleting(k) /\ fallback[k] # None => primary[k] # None

\* There has been one copy at most: one process has used the store, and no
\* request has failed.
OneCopy ==
    faults = 0 /\ \A p, q \in Processes : sync[p] # "none" /\ sync[q] # "none" => p = q

\* The one copy only ever fills gaps, with "every object found only in local":
\* it never replaces an object by an older one, although its check, its read
\* and its put are three requests, because the operations of its process wait
\* for it.  Those of another process do not, and neither do those that go on
\* when a copy has failed.
SyncOnlyFills ==
    [][\A p \in Processes :
         OneCopy /\ sync[p] = "put" /\ sync'[p] = "walking"
         => primary[copying[p].key] \in {None, copying[p].value}]_vars

\* Every operation ends, whether the copy it waits for succeeds or not.
OpsEnd == \A c \in Clients : pc[c] # "idle" ~> pc[c] = "idle"

\* delete() removes from both stores: what it has removed is not there again
\* until somebody puts it, unless there has been a second copy, which may have
\* the object in hand.
DeletedStaysDeleted ==
    OneCopy => \A k \in deleted : primary[k] = None /\ fallback[k] = None

\* What the copy and the deletes promise for good, with the types.
MigratedForGood == TypeOK /\ Migrated /\ DeletedStaysDeleted
=============================================================================
