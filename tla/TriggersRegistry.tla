-------------------------- MODULE TriggersRegistry --------------------------
(***************************************************************************)
(* The persisted triggers collection and the registry each process keeps   *)
(* of it (database/providers/mongo: connector/triggers.ts,                 *)
(* processor/triggers/registry.ts and sync.ts, defs/triggers.ts, and       *)
(* triggers/triggers.repository.ts).                                       *)
(*                                                                         *)
(* A replica boots: it reads the collection, plans how to reconcile it     *)
(* with its own code, writes the difference, and loads the result.  Then   *)
(* it refreshes its registry after its own writes, on change stream events *)
(* and by polling.  A refresh is a read and, later, a replacement of the   *)
(* registry; several may be in flight.                                     *)
(*                                                                         *)
(* A trigger configuration is a value of Versions; None is none at all.    *)
(* The _id of a document is its number and its model: the seeds of one     *)
(* boot share a number, but a model has one document at a time.            *)
(***************************************************************************)
EXTENDS Naturals, SequencesExt

CONSTANTS
    Replicas, Models, Versions, None,
    Deployments,    \* the static triggers a boot may declare: [Models -> Versions or None]
    Polling,        \* triggersPollInterval is set
    ChangeStream,   \* triggersChangeStream
    MaxWrites,      \* bound: the writes of administrators
    MaxBoots        \* bound: the boots of all replicas

ASSUME TriggersConstants ==
    /\ None \notin Versions
    /\ Deployments \subseteq [Models -> Versions \cup {None}]
    /\ {Polling, ChangeStream} \subseteq BOOLEAN
    /\ {MaxWrites, MaxBoots} \subseteq Nat

VARIABLES
    entries,    \* the collection: at most one document for each model
    nextId,     \* the number of the next document
    pc,         \* pc[r]: where the boot of r stands
    static,     \* static[r]: staticStore, empty before the first boot
    plan,       \* plan[r]: what the boot of r still has to write
    registry,   \* registry[r]: persistedStore and defaultSuppressed
    due,        \* due[r]: refreshes started that have not read yet
    reads,      \* reads[r]: what refreshes have read and not applied yet, a sequence
    polled,     \* polled[r]: the same, of the poll tick in flight
    timer,      \* timer[r]: the poll timer is running
    writes, boots,  \* how much of the bounds has been spent
    manual,     \* ghost: the latest manual edit of each model's triggers
    history     \* ghost: the views the collection has given so far

vars == <<entries, nextId, pc, static, plan, registry, due, reads, polled,
          timer, writes, boots, manual, history>>
collectionVars == <<entries, nextId, history>>
replicaVars == <<pc, static, plan, registry, reads, polled, timer>>

Values == Versions \cup {None}
Entry == [id: Nat, active: BOOLEAN, isDefault: BOOLEAN, triggers: Versions, synced: Values]
Missing == [id |-> 0]
Present(m) == entries[m] # Missing

\* What refreshPersistedTriggers() makes of the entries it has read.
View(es) ==
    [m \in Models |->
       [triggers |-> IF es[m] # Missing /\ es[m].active THEN es[m].triggers ELSE None,
        suppressed |-> es[m] # Missing /\ es[m].isDefault]]

Empty == [m \in Models |-> [triggers |-> None, suppressed |-> FALSE]]
NoCode == [m \in {} |-> None]
NoPlan == [delete |-> {}, resync |-> {}, seed |-> {}]
NoRead == [m \in {} |-> None]

Init ==
    /\ entries = [m \in Models |-> Missing] /\ nextId = 1
    /\ pc = [r \in Replicas |-> "down"]
    /\ static = [r \in Replicas |-> NoCode]
    /\ plan = [r \in Replicas |-> NoPlan]
    /\ registry = [r \in Replicas |-> Empty]
    /\ due = [r \in Replicas |-> 0]
    /\ reads = [r \in Replicas |-> << >>]
    /\ polled = [r \in Replicas |-> NoRead]
    /\ timer = [r \in Replicas |-> FALSE]
    /\ writes = 0 /\ boots = 0
    /\ manual = [m \in Models |-> [id |-> 0, triggers |-> None]]
    /\ history = {View(entries)}

\* The change stream of replica s reports a write that changed something.
Event(s, new) == IF ChangeStream /\ pc[s] = "up" /\ new # entries THEN 1 ELSE 0

\* The collection changes.  The post hooks of the model of r start a refresh
\* in r, and every change stream delivers an event to its own replica.
Commit(r, new) ==
    /\ entries' = new
    /\ history' = history \cup {View(new)}
    /\ due' = [s \in Replicas |-> due[s] + (IF s = r THEN 1 ELSE 0) + Event(s, new)]

\* The same without a hook: insertMany, deleteMany, an edit made elsewhere.
CommitSilently(new) ==
    /\ entries' = new
    /\ history' = history \cup {View(new)}
    /\ due' = [s \in Replicas |-> due[s] + Event(s, new)]

\* Mutant of Replace.
AppliesOnTop(r, view) ==
    registry' = [registry EXCEPT ![r] =
                   [m \in Models |-> IF view[m].triggers = None THEN @[m] ELSE view[m]]]

\* The end of refreshPersistedTriggers(): what it read replaces the whole registry.
Replace(r, view) == registry' = [registry EXCEPT ![r] = view]

----------------------------------------------------------------------------
(* loadPersistedTriggersOnStart(). *)

Mirrors(e) == e.triggers = e.synced

\* Mutant of Plan.
PlanIgnoresCustom(es, code) ==
    LET managed == {m \in Models : es[m] # Missing} IN
    [delete |-> {[id |-> es[m].id, model |-> m] : m \in {n \in managed : code[n] = None}},
     resync |-> {[id |-> es[m].id, model |-> m] :
                   m \in {n \in managed : code[n] # None /\ Mirrors(es[n])
                                          /\ es[n].triggers # code[n]}},
     seed |-> {m \in Models : code[m] # None /\ es[m] = Missing}]

\* planTriggerSync(): only default entries are orphaned or resynced, and any
\* entry keeps its model from being seeded.
Plan(es, code) ==
    LET managed == {m \in Models : es[m] # Missing /\ es[m].isDefault} IN
    [delete |-> {[id |-> es[m].id, model |-> m] : m \in {n \in managed : code[n] = None}},
     resync |-> {[id |-> es[m].id, model |-> m] :
                   m \in {n \in managed : code[n] # None /\ Mirrors(es[n])
                                          /\ es[n].triggers # code[n]}},
     seed |-> {m \in Models : code[m] # None /\ es[m] = Missing}]

\* setStaticTriggers() of each model, when it is bound.
SetStaticTriggers(r, code) == static' = [static EXCEPT ![r] = code]

\* The registry is reset, and the collection read.
BootRead(r) ==
    /\ pc[r] = "down" /\ boots < MaxBoots
    /\ boots' = boots + 1
    /\ \E code \in Deployments :
         /\ SetStaticTriggers(r, code)
         /\ plan' = [plan EXCEPT ![r] = Plan(entries, code)]
    /\ registry' = [registry EXCEPT ![r] = Empty]
    /\ pc' = [pc EXCEPT ![r] = "deleting"]
    /\ UNCHANGED <<collectionVars, due, reads, polled, timer, writes, manual>>

\* deleteMany, by _id.
BootDelete(r) ==
    /\ pc[r] = "deleting"
    /\ pc' = [pc EXCEPT ![r] = "resyncing"]
    /\ CommitSilently([m \in Models |->
         IF [id |-> entries[m].id, model |-> m] \in plan[r].delete THEN Missing ELSE entries[m]])
    /\ UNCHANGED <<nextId, static, plan, registry, reads, polled, timer, writes, boots, manual>>

\* One of the parallel updateOne calls, by _id.
BootResync(r) ==
    /\ pc[r] = "resyncing"
    /\ \E task \in plan[r].resync :
         LET m == task.model
             code == static[r][m]
         IN
         /\ plan' = [plan EXCEPT ![r].resync = @ \ {task}]
         /\ IF entries[m].id = task.id
            THEN Commit(r, [entries EXCEPT ![m].triggers = code, ![m].synced = code])
            ELSE Commit(r, entries)
    /\ UNCHANGED <<nextId, pc, static, registry, reads, polled, timer, writes, boots, manual>>

\* All updates are done, and the refreshes of their hooks.
BootResynced(r) ==
    /\ pc[r] = "resyncing" /\ plan[r].resync = {}
    /\ due[r] = 0 /\ reads[r] = << >>
    /\ pc' = [pc EXCEPT ![r] = "seeding"]
    /\ UNCHANGED <<collectionVars, static, plan, registry, due, reads, polled,
                   timer, writes, boots, manual>>

Seeds(r) == {m \in plan[r].seed : ~Present(m)}

\* insertMany of the seeds, in order, up to the first duplicate key.  That
\* error ends initialize(), which logs it: the replica runs without a registry.
BootSeed(r) ==
    /\ pc[r] = "seeding"
    /\ \E inserted \in SUBSET Seeds(r) :
         /\ (inserted = plan[r].seed) <=> (plan[r].seed \subseteq Seeds(r))
         /\ CommitSilently([m \in Models |->
              IF m \in inserted
              THEN [id |-> nextId, active |-> TRUE, isDefault |-> TRUE,
                    triggers |-> static[r][m], synced |-> static[r][m]]
              ELSE entries[m]])
         /\ pc' = [pc EXCEPT ![r] =
                     IF inserted = plan[r].seed THEN "loading" ELSE "failed"]
    /\ nextId' = nextId + 1
    /\ plan' = [plan EXCEPT ![r] = NoPlan]
    /\ UNCHANGED <<static, registry, reads, polled, timer, writes, boots, manual>>

\* The refresh that ends the boot, first its read ...
BootLoad(r) ==
    /\ pc[r] = "loading"
    /\ reads' = [reads EXCEPT ![r] = <<View(entries)>>]
    /\ pc' = [pc EXCEPT ![r] = "loaded"]
    /\ UNCHANGED <<collectionVars, static, plan, registry, due, polled, timer,
                   writes, boots, manual>>

\* ... then its replacement of the registry, and polling starts.
BootDone(r) ==
    /\ pc[r] = "loaded"
    /\ Replace(r, Head(reads[r]))
    /\ reads' = [reads EXCEPT ![r] = << >>]
    /\ timer' = [timer EXCEPT ![r] = Polling]
    /\ pc' = [pc EXCEPT ![r] = "up"]
    /\ UNCHANGED <<collectionVars, static, plan, due, polled, writes, boots, manual>>

Boot(r) ==
    \/ BootRead(r) \/ BootDelete(r) \/ BootResync(r) \/ BootResynced(r)
    \/ BootSeed(r) \/ BootLoad(r) \/ BootDone(r)

\* The process of r ends, at any time.
Stop(r) ==
    /\ pc[r] # "down" /\ boots < MaxBoots
    /\ pc' = [pc EXCEPT ![r] = "down"]
    /\ plan' = [plan EXCEPT ![r] = NoPlan]
    /\ due' = [due EXCEPT ![r] = 0]
    /\ reads' = [reads EXCEPT ![r] = << >>]
    /\ polled' = [polled EXCEPT ![r] = NoRead]
    /\ timer' = [timer EXCEPT ![r] = FALSE]
    /\ UNCHANGED <<collectionVars, static, registry, writes, boots, manual>>

----------------------------------------------------------------------------
(* refreshPersistedTriggers(). *)

\* `await Model.find({})', of a hook or a change event ...
RefreshRead(r) ==
    /\ due[r] > 0
    /\ due' = [due EXCEPT ![r] = @ - 1]
    /\ reads' = [reads EXCEPT ![r] = Append(@, View(entries))]
    /\ UNCHANGED <<collectionVars, pc, static, plan, registry, polled, timer,
                   writes, boots, manual>>

\* ... and the replacement, in whatever order the reads have been answered.
RefreshApply(r) ==
    /\ pc[r] # "loaded"
    /\ \E i \in DOMAIN reads[r] :
         /\ Replace(r, reads[r][i])
         /\ reads' = [reads EXCEPT ![r] = RemoveAt(@, i)]
    /\ UNCHANGED <<collectionVars, pc, static, plan, due, polled, timer, writes,
                   boots, manual>>

\* A poll tick: the timer fires and is not set again ...
PollRead(r) ==
    /\ timer[r]
    /\ timer' = [timer EXCEPT ![r] = FALSE]
    /\ polled' = [polled EXCEPT ![r] = View(entries)]
    /\ UNCHANGED <<collectionVars, pc, static, plan, registry, due, reads, writes,
                   boots, manual>>

\* Mutant of PollApply.
PollOnce(r) ==
    /\ polled[r] # NoRead
    /\ Replace(r, polled[r])
    /\ polled' = [polled EXCEPT ![r] = NoRead]
    /\ UNCHANGED <<collectionVars, pc, static, plan, due, reads, timer, writes,
                   boots, manual>>

\* ... before the tick is over, whether its read succeeded or not.
PollApply(r) ==
    /\ polled[r] # NoRead
    /\ Replace(r, polled[r])
    /\ polled' = [polled EXCEPT ![r] = NoRead]
    /\ timer' = [timer EXCEPT ![r] = TRUE]
    /\ UNCHANGED <<collectionVars, pc, static, plan, due, reads, writes, boots, manual>>

Refresh(r) == RefreshRead(r) \/ RefreshApply(r) \/ PollRead(r) \/ PollApply(r)

----------------------------------------------------------------------------
(* TriggersAdminRepository, running in replica r. *)

\* A replica whose boot failed serves its administrators all the same.
Serves(r) == pc[r] \in {"up", "failed"}

Write ==
    /\ writes < MaxWrites /\ writes' = writes + 1
    /\ UNCHANGED <<replicaVars, boots>>

\* create(): a custom entry.  A model that has an entry is a CONFLICT, of the
\* check or of the unique index.
Create(r, m) ==
    /\ Serves(r) /\ ~Present(m)
    /\ \E v \in Versions, active \in BOOLEAN :
         Commit(r, [entries EXCEPT ![m] =
                      [id |-> nextId, active |-> active, isDefault |-> FALSE,
                       triggers |-> v, synced |-> None]])
    /\ nextId' = nextId + 1
    /\ UNCHANGED manual
    /\ Write

\* update(): one atomic findOneAndUpdate.
Update(r, m) ==
    /\ Serves(r) /\ Present(m)
    /\ \/ \E v \in Versions \ {entries[m].triggers, entries[m].synced} :
            /\ Commit(r, [entries EXCEPT ![m].triggers = v])
            /\ manual' = [manual EXCEPT ![m] = [id |-> entries[m].id, triggers |-> v]]
       \/ /\ Commit(r, [entries EXCEPT ![m].active = ~@])
          /\ UNCHANGED manual
    /\ UNCHANGED nextId
    /\ Write

\* remove().
RemoveEntry(r, m) ==
    /\ Serves(r) /\ Present(m)
    /\ Commit(r, [entries EXCEPT ![m] = Missing])
    /\ UNCHANGED <<nextId, manual>>
    /\ Write

Admin(r) == \E m \in Models : Create(r, m) \/ Update(r, m) \/ RemoveEntry(r, m)

Next == \E r \in Replicas : Boot(r) \/ Stop(r) \/ Refresh(r) \/ Admin(r)

Spec == Init /\ [][Next]_vars

\* A boot that has started goes on, and reads and timers are served.
FairSpec ==
    /\ Spec
    /\ \A r \in Replicas :
         /\ WF_vars(Boot(r))
         /\ WF_vars(RefreshRead(r)) /\ WF_vars(RefreshApply(r))
         /\ WF_vars(PollRead(r)) /\ WF_vars(PollApply(r))

----------------------------------------------------------------------------
(* What a model's hooks dispatch, and the properties. *)

\* The run of a configuration, if there is one.
RunOf(v) == IF v = None THEN << >> ELSE <<v>>

\* mergeTriggers(): both run, the base first.
MergeTriggers(base, extra) == RunOf(base) \o RunOf(extra)

\* Mutant of Effective.
AlwaysMerges(r, m) == MergeTriggers(static[r][m], registry[r][m].triggers)

\* getTriggers(): the configurations the hooks of model m run in replica r, one
\* after the other.
Effective(r, m) ==
    MergeTriggers(IF registry[r][m].suppressed THEN None ELSE static[r][m],
                  registry[r][m].triggers)

\* The variables keep their types; and poll ticks never overlap: while a tick
\* awaits its read no timer runs.
TypeOK ==
    /\ entries \in [Models -> Entry \cup {Missing}]
    /\ pc \in [Replicas -> {"down", "deleting", "resyncing", "seeding", "loading",
                            "loaded", "up", "failed"}]
    /\ static \in [Replicas -> [Models -> Values] \cup {NoCode}]
    /\ registry \in [Replicas -> [Models -> [triggers: Values, suppressed: BOOLEAN]]]
    /\ \A r \in Replicas : timer[r] => polled[r] = NoRead
    /\ due \in [Replicas -> Nat] /\ timer \in [Replicas -> BOOLEAN]

\* The registry of a replica that is up is, as a whole, what the collection
\* was at one moment: hooks that run while a refresh awaits its read see the
\* previous registry and never an empty or a mixed one.
RegistryIsSnapshot == \A r \in Replicas : pc[r] = "up" => registry[r] \in history

\* With the types of what boots, refreshes and polls leave behind.
RegistriesAreSnapshots == TypeOK /\ RegistryIsSnapshot

\* A boot never writes over, and never deletes, an entry an administrator
\* created: only the steps of Admin change a custom entry.
CustomUntouched ==
    [][\A m \in Models :
         Present(m) /\ ~entries[m].isDefault /\ entries'[m] # entries[m]
         => writes' # writes]_vars

Alone(r) == \A s \in Replicas \ {r} : static[s] = NoCode

\* While nobody has written and no other replica has booted, a replica runs
\* exactly what its code declares, and runs it once: through redeployments, and
\* boots that were cut short, the entry seeded from the code stands for the
\* code, is never dispatched beside it, and goes when the code does.
CodeTakesEffect ==
    writes = 0 => \A r \in Replicas, m \in Models :
      pc[r] = "up" /\ Alone(r)
      => Effective(r, m) = RunOf(static[r][m])

Fresh(r) == registry[r] = View(entries)

\* With polling, every replica that is up ends up with the collection's
\* content, whatever order its refreshes were applied in.
UpConverges == <>[](\A r \in Replicas : pc[r] = "up" => Fresh(r))

\* An entry edited by hand keeps the edit: "a manual edit always wins".
ManualEditWins ==
    \A m \in Models :
      Present(m) /\ entries[m].id = manual[m].id
      => entries[m].triggers = manual[m].triggers
=============================================================================
