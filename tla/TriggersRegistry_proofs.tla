---------------------- MODULE TriggersRegistry_proofs ----------------------
(***************************************************************************)
(* Proofs about the persisted triggers and the registries of them: the     *)
(* safety properties of TriggersRegistry, for any replicas and models, any *)
(* number of boots, deployments and writes, and with or without polling    *)
(* and change streams.                                                     *)
(***************************************************************************)
EXTENDS TriggersRegistry, TLAPS

Entries == [Models -> Entry \cup {Missing}]
Views == [Models -> [triggers: Values, suppressed: BOOLEAN]]
Places == {"down", "deleting", "resyncing", "seeding", "loading", "loaded", "up", "failed"}
Tasks == [id: Nat, model: Models]
Plans == [delete: SUBSET Tasks, resync: SUBSET Tasks, seed: SUBSET Models]

CollectionTyped ==
    /\ entries \in Entries /\ nextId \in Nat \ {0}
    /\ \A m \in Models : Present(m) => entries[m].id # 0 /\ entries[m].id < nextId

ReplicasTyped ==
    /\ pc \in [Replicas -> Places] /\ static \in [Replicas -> [Models -> Values] \cup {NoCode}]
    /\ registry \in [Replicas -> Views] /\ due \in [Replicas -> Nat]
    /\ timer \in [Replicas -> BOOLEAN] /\ plan \in [Replicas -> Plans]
    /\ reads \in [Replicas -> Seq(history)] /\ DOMAIN polled = Replicas /\ writes \in Nat

\* What a boot has planned concerns documents there have been, and, of those it
\* is to write, models its code declares.
PlanFits(r) ==
    /\ \A t \in plan[r].delete \cup plan[r].resync : t.id # 0 /\ t.id < nextId
    /\ \A t \in plan[r].resync : static[r][t.model] \in Versions
    /\ \A m \in plan[r].seed : static[r][m] \in Versions

\* A plan does not name a custom entry, of those there are.
SparesCustom(r) ==
    \A m \in Models : Present(m) /\ ~entries[m].isDefault =>
      [id |-> entries[m].id, model |-> m] \notin plan[r].delete \cup plan[r].resync

\* What there is to replace a registry by has been the collection at a moment.
HistoryHolds == history \subseteq Views /\ View(entries) \in history

ReadsAreSnapshots(r) ==
    /\ pc[r] = "loaded" => reads[r] # << >>
    /\ polled[r] = NoRead \/ polled[r] \in history
    /\ timer[r] \/ polled[r] # NoRead => pc[r] = "up"
    /\ timer[r] => polled[r] = NoRead
    /\ pc[r] = "up" => registry[r] \in history

RegistryInv ==
    /\ CollectionTyped /\ ReplicasTyped /\ HistoryHolds
    /\ \A r \in Replicas : PlanFits(r) /\ SparesCustom(r) /\ ReadsAreSnapshots(r)

LEMMA ViewTyped ==
  ASSUME NEW es \in Entries
  PROVE  View(es) \in Views
<1>1. \A m \in Models : es[m] # Missing => es[m].active \in BOOLEAN
                          /\ es[m].isDefault \in BOOLEAN /\ es[m].triggers \in Versions
  BY DEF Entries, Entry
<1> QED
  BY <1>1 DEF View, Views, Values

LEMMA EventTyped ==
  ASSUME NEW s, NEW new
  PROVE  Event(s, new) \in Nat
BY DEF Event

\* A write of a collection adds to its history.
LEMMA CommitFacts ==
  ASSUME RegistryInv, NEW r \in Replicas, NEW new \in Entries,
         Commit(r, new) \/ CommitSilently(new)
  PROVE  /\ entries' = new /\ HistoryHolds' /\ history \subseteq history'
         /\ due' \in [Replicas -> Nat]
<1>1. due \in [Replicas -> Nat] /\ HistoryHolds
  BY DEF RegistryInv, ReplicasTyped
<1>2. entries' = new /\ history' = history \cup {View(new)}
  BY DEF Commit, CommitSilently
<1>3. HistoryHolds'
  BY <1>1, <1>2, ViewTyped DEF HistoryHolds, View
<1>4. due' \in [Replicas -> Nat]
  BY <1>1, EventTyped DEF Commit, CommitSilently
<1> QED
  BY <1>2, <1>3, <1>4

LEMMA SeqGrows ==
  ASSUME NEW S, NEW T, S \subseteq T, NEW s \in Seq(S)
  PROVE  s \in Seq(T)
OBVIOUS

\* Writes keep what is in flight.
LEMMA ReadsKept ==
  ASSUME ReplicasTyped, history \subseteq history', reads' = reads
  PROVE  reads' \in [Replicas -> Seq(history')]
<1>1. \A r \in Replicas : reads[r] \in Seq(history')
  BY SeqGrows DEF ReplicasTyped
<1> QED
  BY <1>1 DEF ReplicasTyped

LEMMA RemoveAtTyped ==
  ASSUME NEW S, NEW s \in Seq(S), NEW i \in DOMAIN s
  PROVE  RemoveAt(s, i) \in Seq(S)
BY DEF RemoveAt

\* A plan that only loses tasks goes on fitting, whatever administrators do.
LEMMA PlanShrinks ==
  ASSUME RegistryInv, NEW r \in Replicas, nextId' \in Nat, nextId <= nextId',
         static'[r] = static[r],
         plan'[r].delete \subseteq plan[r].delete, plan'[r].resync \subseteq plan[r].resync,
         plan'[r].seed \subseteq plan[r].seed,
         \A m \in Models : Present(m)' /\ ~entries'[m].isDefault =>
            \/ Present(m) /\ ~entries[m].isDefault /\ entries'[m].id = entries[m].id
            \/ entries'[m].id = nextId
  PROVE  PlanFits(r)' /\ SparesCustom(r)'
<1>1. PlanFits(r) /\ SparesCustom(r) /\ nextId \in Nat /\ plan[r] \in Plans
  BY DEF RegistryInv, CollectionTyped, ReplicasTyped
<1>2. \A t \in plan[r].delete \cup plan[r].resync : t.id \in Nat /\ t.id # nextId /\ t.id < nextId'
  BY <1>1 DEF PlanFits, Plans, Tasks
<1>3. PlanFits(r)'
  BY <1>1, <1>2 DEF PlanFits
<1>4. SparesCustom(r)'
  BY <1>1, <1>2 DEF SparesCustom
<1> QED
  BY <1>3, <1>4

\* A plan that is dropped, or of a replica that a step is not about.
LEMMA NoPlanFits ==
  ASSUME NEW r \in Replicas, plan'[r] = NoPlan
  PROVE  PlanFits(r)' /\ SparesCustom(r)'
BY DEF NoPlan, PlanFits, SparesCustom

LEMMA RegistryInvInit == Init => RegistryInv
<1> SUFFICES ASSUME Init PROVE RegistryInv
  OBVIOUS
<1> USE DEF Init
<1>1. \A m \in Models : ~Present(m)
  BY DEF Present
<1>2. CollectionTyped
  BY <1>1 DEF CollectionTyped, Entries
<1>3. HistoryHolds
  <2>1. entries \in Entries
    BY <1>2 DEF CollectionTyped
  <2> QED
    BY <2>1, ViewTyped DEF HistoryHolds
<1>4. Empty \in Views /\ NoPlan \in Plans /\ << >> \in Seq(history)
  BY DEF Empty, Views, Values, NoPlan, Plans
<1>5. ReplicasTyped
  BY <1>4 DEF ReplicasTyped, Places
<1>6. \A r \in Replicas : PlanFits(r) /\ SparesCustom(r) /\ ReadsAreSnapshots(r)
  BY <1>1 DEF NoPlan, PlanFits, SparesCustom, ReadsAreSnapshots
<1> QED
  BY <1>2, <1>3, <1>5, <1>6 DEF RegistryInv

\* A step that leaves the collection alone, and the plans, or drops one.
LEMMA QuietStepKeepsInv ==
  ASSUME RegistryInv, UNCHANGED <<entries, nextId, history, static>>, ReplicasTyped',
         \A r \in Replicas : plan'[r] = plan[r] \/ plan'[r] = NoPlan,
         \A r \in Replicas : ReadsAreSnapshots(r)'
  PROVE  RegistryInv'
<1>1. CollectionTyped' /\ HistoryHolds' /\ nextId' \in Nat /\ nextId <= nextId'
  BY DEF RegistryInv, CollectionTyped, HistoryHolds, Present, View
<1>2. ASSUME NEW r \in Replicas PROVE PlanFits(r)' /\ SparesCustom(r)'
  <2>1. CASE plan'[r] = plan[r]
    BY <1>1, <2>1, PlanShrinks DEF Present
  <2>2. CASE plan'[r] = NoPlan
    BY <2>2, NoPlanFits
  <2> QED
    BY <2>1, <2>2
<1> QED
  BY <1>1, <1>2 DEF RegistryInv

LEMMA StopKeepsInv ==
  ASSUME RegistryInv, NEW r \in Replicas, Stop(r)
  PROVE  RegistryInv'
<1> USE DEF Stop, collectionVars
<1>1. ReplicasTyped /\ \A s \in Replicas : ReadsAreSnapshots(s)
  BY DEF RegistryInv
<1>2. NoPlan \in Plans /\ << >> \in Seq(history) /\ "down" \in Places
  BY DEF NoPlan, Plans, Places
<1>3. ReplicasTyped'
  BY <1>1, <1>2 DEF ReplicasTyped
<1>4. \A s \in Replicas : plan'[s] = plan[s] \/ plan'[s] = NoPlan
  BY <1>1 DEF ReplicasTyped
<1>5. ASSUME NEW s \in Replicas PROVE ReadsAreSnapshots(s)'
  BY <1>1 DEF ReadsAreSnapshots, ReplicasTyped
<1> QED
  BY <1>3, <1>4, <1>5, QuietStepKeepsInv

LEMMA RefreshKeepsInv ==
  ASSUME RegistryInv, NEW r \in Replicas, Refresh(r)
  PROVE  RegistryInv'
<1> USE DEF collectionVars
<1>1. ReplicasTyped /\ HistoryHolds /\ \A s \in Replicas : ReadsAreSnapshots(s)
  BY DEF RegistryInv
<1>2. UNCHANGED <<entries, nextId, history, static, plan, pc, writes>>
  BY DEF Refresh, RefreshRead, RefreshApply, PollRead, PollApply
<1>3. CASE RefreshRead(r)
  <2>1. Append(reads[r], View(entries)) \in Seq(history) /\ Append(reads[r], View(entries)) # << >>
    <3>1. reads[r] \in Seq(history) /\ View(entries) \in history
      BY <1>1 DEF ReplicasTyped, HistoryHolds
    <3>2. Len(Append(reads[r], View(entries))) = Len(reads[r]) + 1 /\ Len(reads[r]) \in Nat
      BY <3>1
    <3> QED
      BY <3>1, <3>2
  <2>2. ReplicasTyped'
    BY <1>1, <1>2, <1>3, <2>1 DEF ReplicasTyped, RefreshRead
  <2>3. \A s \in Replicas : ReadsAreSnapshots(s)'
    BY <1>1, <1>2, <1>3, <2>1 DEF ReadsAreSnapshots, ReplicasTyped, RefreshRead
  <2> QED
    BY <1>2, <2>2, <2>3, QuietStepKeepsInv
<1>4. CASE RefreshApply(r)
  <2>1. PICK i \in DOMAIN reads[r] : /\ registry' = [registry EXCEPT ![r] = reads[r][i]]
                                     /\ reads' = [reads EXCEPT ![r] = RemoveAt(@, i)]
    BY <1>4 DEF RefreshApply, Replace
  <2>2. /\ RemoveAt(reads[r], i) \in Seq(history)
        /\ reads[r][i] \in history /\ reads[r][i] \in Views
    BY <1>1, RemoveAtTyped DEF ReplicasTyped, HistoryHolds
  <2>3. ReplicasTyped'
    BY <1>1, <1>2, <1>4, <2>1, <2>2 DEF ReplicasTyped, RefreshApply
  <2>4. \A s \in Replicas : ReadsAreSnapshots(s)'
    BY <1>1, <1>2, <1>4, <2>1, <2>2 DEF ReadsAreSnapshots, ReplicasTyped, RefreshApply
  <2> QED
    BY <1>2, <2>3, <2>4, QuietStepKeepsInv
<1>5. CASE PollRead(r)
  <2>1. ReplicasTyped'
    BY <1>1, <1>2, <1>5 DEF ReplicasTyped, PollRead
  <2>2. \A s \in Replicas : ReadsAreSnapshots(s)'
    BY <1>1, <1>2, <1>5 DEF ReadsAreSnapshots, ReplicasTyped, HistoryHolds, PollRead
  <2> QED
    BY <1>2, <2>1, <2>2, QuietStepKeepsInv
<1>6. CASE PollApply(r)
  <2>1. polled[r] \in history /\ polled[r] \in Views
    BY <1>1, <1>6 DEF PollApply, ReadsAreSnapshots, HistoryHolds
  <2>2. ReplicasTyped'
    BY <1>1, <1>2, <1>6, <2>1 DEF ReplicasTyped, PollApply, Replace
  <2>3. \A s \in Replicas : ReadsAreSnapshots(s)'
    BY <1>1, <1>2, <1>6, <2>1 DEF ReadsAreSnapshots, ReplicasTyped, PollApply, Replace
  <2> QED
    BY <1>2, <2>2, <2>3, QuietStepKeepsInv
<1> QED
  BY <1>3, <1>4, <1>5, <1>6 DEF Refresh

\* What a boot reads of the collection becomes a plan that fits it.
LEMMA PlanTyped ==
  ASSUME CollectionTyped, NEW code \in [Models -> Values]
  PROVE  LET planned == Plan(entries, code) IN
         /\ planned \in Plans
         /\ \A t \in planned.delete \cup planned.resync : t.id # 0 /\ t.id < nextId
         /\ \A t \in planned.delete \cup planned.resync :
              t.id = entries[t.model].id /\ entries[t.model].isDefault
         /\ \A t \in planned.resync : code[t.model] \in Versions
         /\ \A m \in planned.seed : code[m] \in Versions
<1> DEFINE planned == Plan(entries, code)
           managed == {m \in Models : entries[m] # Missing /\ entries[m].isDefault}
<1>1. ASSUME NEW t \in planned.delete \cup planned.resync
      PROVE  /\ t.model \in managed /\ t = [id |-> entries[t.model].id, model |-> t.model]
             /\ t \in planned.resync => code[t.model] # None
  BY DEF Plan
<1>2. \A m \in managed : entries[m].id \in Nat
  BY DEF CollectionTyped, Entries, Entry
<1>3. planned.delete \subseteq Tasks /\ planned.resync \subseteq Tasks
  BY <1>1, <1>2 DEF Tasks
<1>4. planned.seed \subseteq Models /\ \A m \in planned.seed : code[m] \in Versions
  BY DEF Plan, Values
<1>5. planned \in Plans
  BY <1>3, <1>4 DEF Plan, Plans
<1>6. \A t \in planned.resync : code[t.model] \in Versions
  BY <1>1 DEF Values
<1>7. \A t \in planned.delete \cup planned.resync :
         t.id # 0 /\ t.id < nextId /\ t.id = entries[t.model].id /\ entries[t.model].isDefault
  BY <1>1 DEF CollectionTyped, Present
<1> QED
  BY <1>4, <1>5, <1>6, <1>7

LEMMA BootReadKeepsInv ==
  ASSUME RegistryInv, NEW r \in Replicas, BootRead(r)
  PROVE  RegistryInv'
<1> USE DEF collectionVars
<1>1. /\ CollectionTyped /\ ReplicasTyped /\ HistoryHolds
      /\ \A s \in Replicas : PlanFits(s) /\ SparesCustom(s) /\ ReadsAreSnapshots(s)
  BY DEF RegistryInv
<1>2. PICK code \in Deployments : /\ static' = [static EXCEPT ![r] = code]
                                  /\ plan' = [plan EXCEPT ![r] = Plan(entries, code)]
  BY DEF BootRead, SetStaticTriggers
<1>3. code \in [Models -> Values]
  BY TriggersConstants DEF Values
<1>4. /\ UNCHANGED <<entries, nextId, history, due, reads, polled, timer, writes>>
      /\ registry' = [registry EXCEPT ![r] = Empty] /\ pc' = [pc EXCEPT ![r] = "deleting"]
      /\ pc[r] = "down"
  BY DEF BootRead
<1>5. Plan(entries, code) \in Plans
  BY <1>1, <1>3, PlanTyped
<1>6. CollectionTyped' /\ HistoryHolds'
  BY <1>1, <1>4 DEF CollectionTyped, HistoryHolds, Present, View
<1>7. Empty \in Views /\ "deleting" \in Places
  BY DEF Empty, Views, Values, Places
<1>8. ReplicasTyped'
  BY <1>1, <1>2, <1>3, <1>4, <1>5, <1>7 DEF ReplicasTyped
<1>9. plan'[r] = Plan(entries, code) /\ static'[r] = code
      /\ \A s \in Replicas \ {r} : plan'[s] = plan[s] /\ static'[s] = static[s]
  BY <1>1, <1>2 DEF ReplicasTyped
<1>10. PlanFits(r)'
  BY <1>1, <1>3, <1>4, <1>9, PlanTyped DEF PlanFits
<1>11. SparesCustom(r)'
  BY <1>1, <1>3, <1>4, <1>9, PlanTyped DEF SparesCustom
<1>12. ASSUME NEW s \in Replicas \ {r} PROVE PlanFits(s)' /\ SparesCustom(s)'
  BY <1>1, <1>4, <1>9 DEF PlanFits, SparesCustom, Present
<1>13. \A s \in Replicas : ReadsAreSnapshots(s)'
  BY <1>1, <1>4 DEF ReadsAreSnapshots, ReplicasTyped
<1> QED
  BY <1>6, <1>8, <1>10, <1>11, <1>12, <1>13 DEF RegistryInv

\* The steps of a boot between its writes.
LEMMA BootWaitKeepsInv ==
  ASSUME RegistryInv, NEW r \in Replicas, BootResynced(r) \/ BootLoad(r) \/ BootDone(r)
  PROVE  RegistryInv'
<1> USE DEF collectionVars
<1>1. ReplicasTyped /\ HistoryHolds /\ \A s \in Replicas : ReadsAreSnapshots(s)
  BY DEF RegistryInv
<1>2. UNCHANGED <<entries, nextId, history, static, plan, writes, due, polled>>
  BY DEF BootResynced, BootLoad, BootDone
<1>3. CASE BootResynced(r)
  <2>1. ReplicasTyped'
    BY <1>1, <1>2, <1>3 DEF ReplicasTyped, BootResynced, Places
  <2>2. \A s \in Replicas : ReadsAreSnapshots(s)'
    BY <1>1, <1>2, <1>3 DEF ReadsAreSnapshots, ReplicasTyped, BootResynced
  <2> QED
    BY <1>2, <2>1, <2>2, QuietStepKeepsInv
<1>4. CASE BootLoad(r)
  <2>1. <<View(entries)>> \in Seq(history) /\ <<View(entries)>> # << >>
    BY <1>1 DEF HistoryHolds
  <2>2. ReplicasTyped'
    BY <1>1, <1>2, <1>4, <2>1 DEF ReplicasTyped, BootLoad, Places
  <2>3. \A s \in Replicas : ReadsAreSnapshots(s)'
    BY <1>1, <1>2, <1>4, <2>1 DEF ReadsAreSnapshots, ReplicasTyped, BootLoad
  <2> QED
    BY <1>2, <2>2, <2>3, QuietStepKeepsInv
<1>5. CASE BootDone(r)
  <2>1. reads[r] \in Seq(history) /\ reads[r] # << >>
    BY <1>1, <1>5 DEF ReplicasTyped, ReadsAreSnapshots, BootDone
  <2>2. Head(reads[r]) \in history /\ Head(reads[r]) \in Views
    BY <1>1, <2>1 DEF HistoryHolds
  <2>3. << >> \in Seq(history) /\ "up" \in Places /\ Polling \in BOOLEAN
    BY TriggersConstants DEF Places
  <2>4. ReplicasTyped'
    BY <1>1, <1>2, <1>5, <2>2, <2>3 DEF ReplicasTyped, BootDone, Replace
  <2>5. \A s \in Replicas : ReadsAreSnapshots(s)'
    BY <1>1, <1>2, <1>5, <2>2 DEF ReadsAreSnapshots, ReplicasTyped, BootDone, Replace
  <2> QED
    BY <1>2, <2>4, <2>5, QuietStepKeepsInv
<1> QED
  BY <1>3, <1>4, <1>5

\* What the writes of the collection have in common.
LEMMA CommitKeepsInv ==
  ASSUME RegistryInv, NEW r \in Replicas, NEW new \in Entries,
         Commit(r, new) \/ CommitSilently(new),
         UNCHANGED <<static, registry, reads, polled, timer>>,
         pc' \in [Replicas -> Places], plan' \in [Replicas -> Plans], writes' \in Nat,
         \A s \in Replicas : \/ pc'[s] = pc[s]
                             \/ pc[s] # "up" /\ pc'[s] \notin {"loaded", "up"},
         \A s \in Replicas : /\ plan'[s].delete \subseteq plan[s].delete
                             /\ plan'[s].resync \subseteq plan[s].resync
                             /\ plan'[s].seed \subseteq plan[s].seed,
         nextId' \in Nat \ {0}, nextId <= nextId',
         \A m \in Models : new[m] # Missing =>
           /\ new[m].id # 0 /\ new[m].id < nextId'
           /\ \/ new[m].isDefault \/ new[m].id = nextId
              \/ Present(m) /\ ~entries[m].isDefault /\ new[m].id = entries[m].id
  PROVE  RegistryInv' /\ entries' = new
<1>1. ReplicasTyped /\ \A s \in Replicas : ReadsAreSnapshots(s)
  BY DEF RegistryInv
<1>2. /\ entries' = new /\ HistoryHolds' /\ history \subseteq history'
      /\ due' \in [Replicas -> Nat]
  BY CommitFacts
<1>3. CollectionTyped'
  BY <1>2 DEF CollectionTyped, Present
<1>4. ReplicasTyped'
  BY <1>1, <1>2, ReadsKept DEF ReplicasTyped
<1>5. ASSUME NEW s \in Replicas PROVE PlanFits(s)' /\ SparesCustom(s)'
  BY <1>2, PlanShrinks DEF Present
<1>6. \A s \in Replicas : ReadsAreSnapshots(s)'
  BY <1>1, <1>2 DEF ReadsAreSnapshots
<1> QED
  BY <1>2, <1>3, <1>4, <1>5, <1>6 DEF RegistryInv

LEMMA EntryFacts ==
  ASSUME CollectionTyped
  PROVE  \A m \in Models : entries[m] \in Entry \cup {Missing} /\ (Present(m) => entries[m] \in Entry)
                           /\ (entries[m].id # 0 => Present(m))
BY DEF CollectionTyped, Entries, Present, Missing

LEMMA BootDeleteKeepsInv ==
  ASSUME RegistryInv, NEW r \in Replicas, BootDelete(r)
  PROVE  RegistryInv'
<1> DEFINE new == [m \in Models |-> IF [id |-> entries[m].id, model |-> m] \in plan[r].delete
                                    THEN Missing ELSE entries[m]]
<1>1. CollectionTyped /\ ReplicasTyped
  BY DEF RegistryInv
<1>2. /\ UNCHANGED <<nextId, static, plan, registry, reads, polled, timer, writes>>
      /\ pc[r] = "deleting" /\ pc' = [pc EXCEPT ![r] = "resyncing"] /\ CommitSilently(new)
  BY DEF BootDelete
<1>3. new \in Entries
  BY <1>1, EntryFacts DEF Entries
<1>4. \A m \in Models : new[m] # Missing => new[m] = entries[m] /\ Present(m)
  BY DEF Present
<1>5. pc' \in [Replicas -> Places]
  BY <1>1, <1>2 DEF ReplicasTyped, Places
<1>6. plan' \in [Replicas -> Plans] /\ writes' \in Nat /\ nextId' \in Nat \ {0} /\ nextId <= nextId'
  BY <1>1, <1>2 DEF ReplicasTyped, CollectionTyped
<1>7. \A m \in Models : new[m] # Missing =>
        /\ new[m].id # 0 /\ new[m].id < nextId'
        /\ \/ new[m].isDefault \/ new[m].id = nextId
           \/ Present(m) /\ ~entries[m].isDefault /\ new[m].id = entries[m].id
  BY <1>1, <1>2, <1>4 DEF CollectionTyped
<1>8. \A s \in Replicas : pc'[s] = pc[s] \/ (pc[s] # "up" /\ pc'[s] \notin {"loaded", "up"})
  BY <1>1, <1>2 DEF ReplicasTyped
<1> HIDE DEF new
<1> QED
  BY <1>2, <1>3, <1>5, <1>6, <1>7, <1>8, CommitKeepsInv

LEMMA BootResyncKeepsInv ==
  ASSUME RegistryInv, NEW r \in Replicas, BootResync(r)
  PROVE  RegistryInv'
<1>1. CollectionTyped /\ ReplicasTyped /\ PlanFits(r)
  BY DEF RegistryInv
<1>2. PICK task \in plan[r].resync :
         LET m == task.model
             code == static[r][m]
         IN
         /\ plan' = [plan EXCEPT ![r].resync = @ \ {task}]
         /\ IF entries[m].id = task.id
            THEN Commit(r, [entries EXCEPT ![m].triggers = code, ![m].synced = code])
            ELSE Commit(r, entries)
  BY DEF BootResync
<1>3. UNCHANGED <<nextId, pc, static, registry, reads, polled, timer, writes>>
  BY DEF BootResync
<1>4. PICK m \in Models, code \in Versions :
        m = task.model /\ code = static[r][m] /\ task.id # 0
  BY <1>1 DEF ReplicasTyped, PlanFits, Plans, Tasks
<1>5. PICK new : /\ Commit(r, new)
                 /\ \/ new = entries
                    \/ /\ entries[m].id = task.id
                       /\ new = [entries EXCEPT ![m].triggers = code, ![m].synced = code]
  BY <1>2, <1>4
<1>6. /\ new \in Entries
      /\ \A n \in Models : new[n] # Missing =>
           Present(n) /\ new[n].id = entries[n].id /\ new[n].isDefault = entries[n].isDefault
  <2>1. CASE new = entries
    BY <1>1, <2>1 DEF CollectionTyped, Present
  <2>2. CASE /\ entries[m].id = task.id
             /\ new = [entries EXCEPT ![m].triggers = code, ![m].synced = code]
    <3>1. Present(m) /\ entries[m] \in Entry
      BY <1>1, <1>4, <2>2, EntryFacts
    <3>2. new = [entries EXCEPT ![m] = [entries[m] EXCEPT !.triggers = code, !.synced = code]]
      BY <1>1, <2>2 DEF CollectionTyped, Entries
    <3>3. code \in Values
      BY DEF Values
    <3> DEFINE e == [entries[m] EXCEPT !.triggers = code, !.synced = code]
    <3>4. e \in Entry /\ e.id = entries[m].id /\ e.isDefault = entries[m].isDefault
      BY <3>1, <3>3 DEF Entry
    <3>5. new = [entries EXCEPT ![m] = e]
      BY <3>2
    <3> HIDE DEF e
    <3> QED
      BY <1>1, <3>1, <3>4, <3>5 DEF CollectionTyped, Entries, Present
  <2> QED
    BY <1>5, <2>1, <2>2
<1>7. plan[r].resync \ {task} \in SUBSET Tasks /\ plan[r] \in Plans
  BY <1>1 DEF ReplicasTyped, Plans
<1>8. /\ plan' \in [Replicas -> Plans]
      /\ \A s \in Replicas : /\ plan'[s].delete \subseteq plan[s].delete
                             /\ plan'[s].resync \subseteq plan[s].resync
                             /\ plan'[s].seed \subseteq plan[s].seed
  BY <1>1, <1>2, <1>7 DEF ReplicasTyped, Plans
<1>9. /\ pc' \in [Replicas -> Places] /\ \A s \in Replicas : pc'[s] = pc[s]
      /\ writes' \in Nat /\ nextId' \in Nat \ {0} /\ nextId <= nextId'
  BY <1>1, <1>3 DEF ReplicasTyped, CollectionTyped
<1>10. \A n \in Models : new[n] # Missing =>
        /\ new[n].id # 0 /\ new[n].id < nextId'
        /\ \/ new[n].isDefault \/ new[n].id = nextId
           \/ Present(n) /\ ~entries[n].isDefault /\ new[n].id = entries[n].id
  BY <1>1, <1>3, <1>6 DEF CollectionTyped
<1> QED
  BY <1>3, <1>5, <1>6, <1>8, <1>9, <1>10, CommitKeepsInv

LEMMA BootSeedKeepsInv ==
  ASSUME RegistryInv, NEW r \in Replicas, BootSeed(r)
  PROVE  RegistryInv'
<1>1. CollectionTyped /\ ReplicasTyped /\ PlanFits(r)
  BY DEF RegistryInv
<1> DEFINE seeded(m) == [id |-> nextId, active |-> TRUE, isDefault |-> TRUE,
                         triggers |-> static[r][m], synced |-> static[r][m]]
<1>2. PICK inserted \in SUBSET Seeds(r) :
        /\ CommitSilently([m \in Models |-> IF m \in inserted THEN seeded(m) ELSE entries[m]])
        /\ pc' = [pc EXCEPT ![r] = IF inserted = plan[r].seed THEN "loading" ELSE "failed"]
  BY DEF BootSeed
<1> DEFINE new == [m \in Models |-> IF m \in inserted THEN seeded(m) ELSE entries[m]]
<1>3. /\ UNCHANGED <<static, registry, reads, polled, timer, writes>>
      /\ pc[r] = "seeding" /\ nextId' = nextId + 1 /\ plan' = [plan EXCEPT ![r] = NoPlan]
  BY DEF BootSeed
<1>4. ASSUME NEW m \in inserted
      PROVE  /\ m \in Models /\ seeded(m) \in Entry
             /\ seeded(m).id = nextId /\ seeded(m).isDefault
  <2>1. m \in plan[r].seed
    BY DEF Seeds
  <2>2. static[r][m] \in Versions /\ m \in Models
    BY <1>1, <2>1 DEF PlanFits, ReplicasTyped, Plans
  <2>3. nextId \in Nat
    BY <1>1 DEF CollectionTyped
  <2> QED
    BY <2>2, <2>3 DEF Entry, Values
<1> HIDE DEF seeded
<1>5. new \in Entries
  BY <1>1, <1>4 DEF CollectionTyped, Entries
<1>6. nextId \in Nat \ {0} /\ nextId' \in Nat \ {0} /\ nextId < nextId'
  BY <1>1, <1>3 DEF CollectionTyped
<1>7. \A m \in Models : Present(m) => entries[m].id # 0 /\ entries[m].id < nextId'
  BY <1>1, <1>6, EntryFacts DEF CollectionTyped, Entry
<1>8. ASSUME NEW m \in Models, new[m] # Missing
      PROVE  /\ new[m].id # 0 /\ new[m].id < nextId'
             /\ \/ new[m].isDefault \/ new[m].id = nextId
                \/ Present(m) /\ ~entries[m].isDefault /\ new[m].id = entries[m].id
  <2>1. CASE m \in inserted
    BY <1>4, <1>6, <2>1
  <2>2. CASE m \notin inserted
    BY <1>1, <1>7, <1>8, <2>2, EntryFacts DEF Present, Entry
  <2> QED
    BY <2>1, <2>2
<1>9. /\ pc' \in [Replicas -> Places]
      /\ \A s \in Replicas : pc'[s] = pc[s] \/ (pc[s] # "up" /\ pc'[s] \notin {"loaded", "up"})
  BY <1>1, <1>2, <1>3 DEF ReplicasTyped, Places
<1>10. /\ plan' \in [Replicas -> Plans]
       /\ \A s \in Replicas : /\ plan'[s].delete \subseteq plan[s].delete
                              /\ plan'[s].resync \subseteq plan[s].resync
                              /\ plan'[s].seed \subseteq plan[s].seed
  BY <1>1, <1>3 DEF ReplicasTyped, Plans, NoPlan
<1>11. writes' \in Nat /\ nextId <= nextId'
  BY <1>1, <1>3, <1>6 DEF ReplicasTyped
<1>12. CommitSilently(new)
  BY <1>2
<1> HIDE DEF new
<1> QED
  BY <1>3, <1>5, <1>6, <1>8, <1>9, <1>10, <1>11, <1>12, CommitKeepsInv

LEMMA AdminKeepsInv ==
  ASSUME RegistryInv, NEW r \in Replicas, Admin(r)
  PROVE  RegistryInv' /\ writes' = writes + 1
<1>1. CollectionTyped /\ ReplicasTyped
  BY DEF RegistryInv
<1>2. PICK m \in Models : Create(r, m) \/ Update(r, m) \/ RemoveEntry(r, m)
  BY DEF Admin
<1>3. UNCHANGED <<pc, static, plan, registry, reads, polled, timer>> /\ writes' = writes + 1
  BY <1>2 DEF Create, Update, RemoveEntry, Write, replicaVars
<1>4. /\ pc' \in [Replicas -> Places] /\ \A s \in Replicas : pc'[s] = pc[s]
      /\ plan' \in [Replicas -> Plans]
      /\ \A s \in Replicas : /\ plan'[s].delete \subseteq plan[s].delete
                             /\ plan'[s].resync \subseteq plan[s].resync
                             /\ plan'[s].seed \subseteq plan[s].seed
      /\ writes' \in Nat
  BY <1>1, <1>3 DEF ReplicasTyped
<1>5. nextId \in Nat \ {0} /\ nextId' \in Nat \ {0} /\ nextId <= nextId'
  BY <1>1, <1>2 DEF CollectionTyped, Create, Update, RemoveEntry
<1>6. PICK entry \in Entry \cup {Missing} :
        /\ Commit(r, [entries EXCEPT ![m] = entry])
        /\ entry # Missing =>
             /\ entry.id # 0 /\ entry.id < nextId'
             /\ \/ entry.id = nextId
                \/ Present(m) /\ entry.id = entries[m].id /\ entry.isDefault = entries[m].isDefault
  <2>1. CASE Create(r, m)
    <3>1. PICK v \in Versions, active \in BOOLEAN :
            Commit(r, [entries EXCEPT ![m] =
                         [id |-> nextId, active |-> active, isDefault |-> FALSE,
                          triggers |-> v, synced |-> None]])
      BY <2>1 DEF Create
    <3> DEFINE e == [id |-> nextId, active |-> active, isDefault |-> FALSE,
                     triggers |-> v, synced |-> None]
    <3>2. e \in Entry /\ e.id = nextId /\ nextId' = nextId + 1
      BY <1>5, <2>1 DEF Entry, Values, Create
    <3>3. Commit(r, [entries EXCEPT ![m] = e])
      BY <3>1
    <3> HIDE DEF e
    <3> QED
      BY <1>5, <3>2, <3>3
  <2>2. CASE Update(r, m)
    <3>1. Present(m) /\ entries[m] \in Entry /\ nextId' = nextId
      BY <1>1, <2>2, EntryFacts DEF Update
    <3>2. entries[m].id # 0 /\ entries[m].id < nextId'
      BY <1>1, <3>1 DEF CollectionTyped
    <3>3. CASE \E v \in Versions : Commit(r, [entries EXCEPT ![m].triggers = v])
      <4>1. PICK v \in Versions : Commit(r, [entries EXCEPT ![m].triggers = v])
        BY <3>3
      <4> DEFINE e == [entries[m] EXCEPT !.triggers = v]
      <4>2. e \in Entry /\ e.id = entries[m].id /\ e.isDefault = entries[m].isDefault
        BY <3>1 DEF Entry
      <4>3. [entries EXCEPT ![m].triggers = v] = [entries EXCEPT ![m] = e]
        OBVIOUS
      <4> HIDE DEF e
      <4> QED
        BY <3>1, <3>2, <4>1, <4>2, <4>3
    <3>4. CASE Commit(r, [entries EXCEPT ![m].active = ~@])
      <4> DEFINE e == [entries[m] EXCEPT !.active = ~@]
      <4>1. e \in Entry /\ e.id = entries[m].id /\ e.isDefault = entries[m].isDefault
        BY <3>1 DEF Entry
      <4>2. [entries EXCEPT ![m].active = ~@] = [entries EXCEPT ![m] = e]
        OBVIOUS
      <4> HIDE DEF e
      <4> QED
        BY <3>1, <3>2, <3>4, <4>1, <4>2
    <3> QED
      BY <2>2, <3>3, <3>4 DEF Update
  <2>3. CASE RemoveEntry(r, m)
    BY <2>3 DEF RemoveEntry
  <2> QED
    BY <1>2, <2>1, <2>2, <2>3
<1> DEFINE new == [entries EXCEPT ![m] = entry]
<1>7. new \in Entries /\ new[m] = entry /\ \A n \in Models \ {m} : new[n] = entries[n]
  BY <1>1, <1>6 DEF CollectionTyped, Entries
<1>8. \A n \in Models : Present(n) =>
        entries[n].id # 0 /\ entries[n].id < nextId' /\ entries[n].isDefault \in BOOLEAN
  BY <1>1, <1>5, EntryFacts DEF CollectionTyped, Entry
<1>9. \A n \in Models : new[n] # Missing =>
        /\ new[n].id # 0 /\ new[n].id < nextId'
        /\ \/ new[n].isDefault \/ new[n].id = nextId
           \/ Present(n) /\ ~entries[n].isDefault /\ new[n].id = entries[n].id
  BY <1>6, <1>7, <1>8 DEF Present
<1>10. Commit(r, new)
  BY <1>6
<1> HIDE DEF new
<1> QED
  BY <1>3, <1>4, <1>5, <1>7, <1>9, <1>10, CommitKeepsInv

LEMMA RegistryInvInductive == RegistryInv /\ [Next]_vars => RegistryInv'
<1> SUFFICES ASSUME RegistryInv, [Next]_vars PROVE RegistryInv'
  OBVIOUS
<1>1. ASSUME NEW r \in Replicas, Boot(r) PROVE RegistryInv'
  BY <1>1, BootReadKeepsInv, BootDeleteKeepsInv, BootResyncKeepsInv, BootWaitKeepsInv,
     BootSeedKeepsInv DEF Boot
<1>2. ASSUME NEW r \in Replicas, Stop(r) \/ Refresh(r) \/ Admin(r) PROVE RegistryInv'
  BY <1>2, StopKeepsInv, RefreshKeepsInv, AdminKeepsInv
<1>3. CASE UNCHANGED vars
  <2>1. ReplicasTyped'
    BY <1>3 DEF vars, RegistryInv, ReplicasTyped
  <2>2. \A r \in Replicas : ReadsAreSnapshots(r)'
    BY <1>3 DEF vars, RegistryInv, ReadsAreSnapshots
  <2> QED
    BY <1>3, <2>1, <2>2, QuietStepKeepsInv DEF vars
<1> QED
  BY <1>1, <1>2, <1>3 DEF Next

LEMMA RegistryInvHolds == Spec => []RegistryInv
<1> QED
  BY RegistryInvInit, RegistryInvInductive, PTL DEF Spec

\* Whatever reads are in flight and in whatever order they are applied, through
\* boots that fail or are cut short: the registry of a replica that is up is the
\* collection of one moment, and poll ticks do not overlap.
THEOREM RegistriesMirrorTheCollection == Spec => []RegistriesAreSnapshots
<1>1. RegistryInv => TypeOK
  BY DEF RegistryInv, CollectionTyped, ReplicasTyped, ReadsAreSnapshots, TypeOK, Entries, Views,
         Places
<1>2. RegistryInv => RegistryIsSnapshot
  BY DEF RegistryInv, ReadsAreSnapshots, RegistryIsSnapshot
<1>3. RegistryInv => RegistriesAreSnapshots
  BY <1>1, <1>2 DEF RegistriesAreSnapshots
<1> QED
  BY <1>3, RegistryInvHolds, PTL

\* Only administrators change a custom entry: no boot's plan names one, not even
\* one that was created between the boot's read and its writes.
THEOREM BootsSpareCustomEntries == Spec => CustomUntouched
<1> DEFINE Spared == \A m \in Models :
                       Present(m) /\ ~entries[m].isDefault /\ entries'[m] # entries[m]
                       => writes' # writes
<1>1. ASSUME RegistryInv, [Next]_vars PROVE [Spared]_vars
  <2>1. CollectionTyped /\ writes \in Nat /\ \A r \in Replicas : SparesCustom(r) /\ PlanFits(r)
    BY <1>1 DEF RegistryInv, ReplicasTyped
  <2>2. CASE entries' = entries
    BY <2>2
  <2>3. ASSUME NEW r \in Replicas, BootDelete(r) PROVE Spared
    BY <2>1, <2>3 DEF BootDelete, CommitSilently, SparesCustom
  <2>4. ASSUME NEW r \in Replicas, BootSeed(r) PROVE Spared
    BY <2>4 DEF BootSeed, CommitSilently, Seeds
  <2>5. ASSUME NEW r \in Replicas, BootResync(r) PROVE Spared
    <3> SUFFICES ASSUME NEW m \in Models, Present(m), ~entries[m].isDefault
                 PROVE  entries'[m] = entries[m]
      OBVIOUS
    <3>1. PICK task \in plan[r].resync :
            \/ entries' = entries
            \/ /\ entries[task.model].id = task.id
               /\ entries' = [entries EXCEPT ![task.model].triggers = static[r][task.model],
                                             ![task.model].synced = static[r][task.model]]
      BY <2>5 DEF BootResync, Commit
    <3>2. task = [id |-> task.id, model |-> task.model]
      BY <1>1 DEF RegistryInv, ReplicasTyped, Plans, Tasks
    <3>3. entries[task.model].id = task.id => task.model # m
      BY <2>1, <3>2 DEF SparesCustom
    <3> QED
      BY <2>1, <3>1, <3>3 DEF CollectionTyped, Entries
  <2>6. ASSUME NEW r \in Replicas, Admin(r) PROVE Spared
    BY <1>1, <2>1, <2>6, AdminKeepsInv
  <2>7. ASSUME NEW r \in Replicas,
               \/ BootRead(r) \/ BootResynced(r) \/ BootLoad(r) \/ BootDone(r)
               \/ Stop(r) \/ Refresh(r)
        PROVE  entries' = entries
    BY <2>7 DEF BootRead, BootResynced, BootLoad, BootDone, Stop, Refresh, RefreshRead,
                RefreshApply, PollRead, PollApply, collectionVars
  <2> QED
    BY <1>1, <2>2, <2>3, <2>4, <2>5, <2>6, <2>7 DEF Next, Boot, vars
<1> QED
  BY <1>1, RegistryInvHolds, PTL DEF Spec, CustomUntouched

----------------------------------------------------------------------------
(* What a replica runs while its code alone has said anything. *)

\* A replica that declares nothing has never booted.
NeverBooted == \A r \in Replicas : static[r] = NoCode => pc[r] = "down" \/ Models = {}

\* Until an administrator writes, all entries are seeds, as the code made them.
Pristine ==
    writes = 0 => \A m \in Models : Present(m) =>
      entries[m].isDefault /\ entries[m].active /\ entries[m].triggers = entries[m].synced

CodedViews(r, m) ==
    {view \in Views : /\ view[m].triggers = static[r][m]
                      /\ view[m].suppressed <=> static[r][m] # None}

Document(m) == [id |-> entries[m].id, model |-> m]

\* What is left of the orphans: nothing, once they are deleted.
OrphansGo(r, m) ==
    /\ pc[r] = "deleting" =>
         /\ \A t \in plan[r].delete : t.model = m => static[r][m] = None
         /\ Present(m) /\ static[r][m] = None => Document(m) \in plan[r].delete
    /\ pc[r] \in {"resyncing", "seeding", "loading", "loaded", "up"} /\ static[r][m] = None
       => ~Present(m)

\* What does not mirror the code is still to be updated, until all of it does.
DefaultsMirror(r, m) ==
    /\ pc[r] \in {"deleting", "resyncing"} /\ Present(m) /\ static[r][m] # None
         /\ entries[m].triggers # static[r][m]
       => Document(m) \in plan[r].resync
    /\ pc[r] \in {"seeding", "loading", "loaded", "up"} /\ Present(m)
       => entries[m].triggers = static[r][m]

\* What is missing is still to be seeded.
SeedsCome(r, m) ==
    /\ pc[r] \in {"deleting", "resyncing", "seeding"} =>
         (m \in plan[r].seed <=> static[r][m] # None /\ ~Present(m))
    /\ pc[r] \in {"loading", "loaded", "up"} /\ static[r][m] # None => Present(m)

\* The registry, and what is in flight to replace it, stands for the code.
RegistryCoded(r, m) ==
    /\ pc[r] \in {"loaded", "up"} => reads[r] \in Seq(CodedViews(r, m))
    /\ pc[r] = "up" => /\ registry[r] \in CodedViews(r, m)
                       /\ polled[r] # NoRead => polled[r] \in CodedViews(r, m)

Reconciled(r, m) ==
    OrphansGo(r, m) /\ DefaultsMirror(r, m) /\ SeedsCome(r, m) /\ RegistryCoded(r, m)

CodeInv ==
    /\ RegistryInv /\ NeverBooted /\ Pristine
    /\ writes = 0 => \A r \in Replicas : Alone(r) => \A m \in Models : Reconciled(r, m)

LEMMA PristineKept ==
  ASSUME CodeInv, [Next]_vars
  PROVE  Pristine'
<1> SUFFICES ASSUME writes' = 0, NEW m \in Models, Present(m)'
             PROVE  entries'[m].isDefault /\ entries'[m].active
                    /\ entries'[m].triggers = entries'[m].synced
  BY DEF Pristine
<1>1. RegistryInv /\ Pristine /\ CollectionTyped /\ ReplicasTyped /\ writes \in Nat
  BY DEF CodeInv, RegistryInv, ReplicasTyped
<1>2. ASSUME NEW r \in Replicas, Admin(r) PROVE FALSE
  BY <1>1, <1>2, AdminKeepsInv
<1>3. CASE entries'[m] = entries[m] /\ writes' = writes
  BY <1>1, <1>3 DEF Pristine, Present
<1>4. ASSUME NEW r \in Replicas, BootDelete(r) PROVE entries'[m] = entries[m] /\ writes' = writes
  BY <1>4 DEF BootDelete, CommitSilently, Present
<1>5. ASSUME NEW r \in Replicas, BootResync(r)
      PROVE  entries'[m].isDefault /\ entries'[m].active
             /\ entries'[m].triggers = entries'[m].synced
  <2>1. PICK task \in plan[r].resync :
          \/ entries' = entries
          \/ /\ entries[task.model].id = task.id
             /\ entries' = [entries EXCEPT ![task.model].triggers = static[r][task.model],
                                           ![task.model].synced = static[r][task.model]]
    BY <1>5 DEF BootResync, Commit
  <2>2. writes' = writes
    BY <1>5 DEF BootResync
  <2>3. CASE task.model # m
    BY <1>1, <1>3, <2>1, <2>2, <2>3 DEF CollectionTyped, Entries
  <2>4. CASE task.model = m /\ entries' # entries
    <3>1. task.id # 0
      BY <1>1, <1>5, <2>1 DEF RegistryInv, PlanFits
    <3>2. Present(m) /\ entries[m] \in Entry
      BY <1>1, <2>1, <2>4, <3>1, EntryFacts
    <3>3. entries'[m] = [entries[m] EXCEPT !.triggers = static[r][m], !.synced = static[r][m]]
      BY <1>1, <2>1, <2>4 DEF CollectionTyped, Entries
    <3>4. entries[m].isDefault /\ entries[m].active
      BY <1>1, <2>2, <3>2 DEF Pristine
    <3> QED
      BY <3>2, <3>3, <3>4 DEF Entry
  <2> QED
    BY <1>3, <2>2, <2>3, <2>4
<1>6. ASSUME NEW r \in Replicas, BootSeed(r)
      PROVE  entries'[m].isDefault /\ entries'[m].active
             /\ entries'[m].triggers = entries'[m].synced
  <2>1. \/ entries'[m] = entries[m] /\ writes' = writes
        \/ entries'[m] = [id |-> nextId, active |-> TRUE, isDefault |-> TRUE,
                          triggers |-> static[r][m], synced |-> static[r][m]]
    BY <1>6 DEF BootSeed, CommitSilently
  <2> QED
    BY <1>3, <2>1
<1>7. ASSUME NEW r \in Replicas,
             \/ BootRead(r) \/ BootResynced(r) \/ BootLoad(r) \/ BootDone(r)
             \/ Stop(r) \/ Refresh(r)
      PROVE  entries' = entries /\ writes' = writes
  BY <1>7 DEF BootRead, BootResynced, BootLoad, BootDone, Stop, Refresh, RefreshRead,
              RefreshApply, PollRead, PollApply, collectionVars
<1> QED
  BY <1>2, <1>3, <1>4, <1>5, <1>6, <1>7 DEF Next, Boot, vars

LEMMA NeverBootedKept ==
  ASSUME CodeInv, [Next]_vars
  PROVE  NeverBooted'
<1> SUFFICES ASSUME NEW r \in Replicas, static'[r] = NoCode, NEW m \in Models
             PROVE  pc'[r] = "down"
  BY DEF NeverBooted
<1>1. ReplicasTyped /\ NeverBooted
  BY DEF CodeInv, RegistryInv
<1>2. ASSUME NEW s \in Replicas, BootRead(s) PROVE s # r
  <2>1. PICK code \in [Models -> Values] : static' = [static EXCEPT ![s] = code]
    BY <1>2, TriggersConstants DEF BootRead, SetStaticTriggers, Values
  <2>2. code # NoCode
    BY DEF NoCode
  <2> QED
    BY <1>1, <2>1, <2>2 DEF ReplicasTyped
<1>3. ASSUME NEW s \in Replicas, s # r, BootRead(s)
      PROVE  static'[r] = static[r] /\ pc'[r] = pc[r]
  BY <1>1, <1>3 DEF BootRead, SetStaticTriggers, ReplicasTyped
<1>4. ASSUME NEW s \in Replicas, Boot(s) \/ Stop(s) \/ Refresh(s) \/ Admin(s), ~BootRead(s)
      PROVE  /\ static' = static
             /\ pc[r] = "down" => pc'[r] = "down"
  BY <1>1, <1>4 DEF Boot, BootDelete, BootResync, BootResynced, BootSeed, BootLoad, BootDone, Stop,
     Refresh, RefreshRead, RefreshApply, PollRead, PollApply, Admin, Create, Update, RemoveEntry,
     Write, replicaVars, ReplicasTyped
<1>5. CASE UNCHANGED vars
  BY <1>1, <1>5 DEF NeverBooted, vars
<1> QED
  BY <1>1, <1>2, <1>3, <1>4, <1>5 DEF Next, NeverBooted

\* The collection shows the code when its entry is there if and only if the
\* code declares triggers, and mirrors it.
LEMMA ViewCoded ==
  ASSUME RegistryInv, Pristine, writes = 0, NEW r \in Replicas, NEW m \in Models,
         Present(m) <=> static[r][m] # None,
         Present(m) => entries[m].triggers = static[r][m]
  PROVE  View(entries) \in CodedViews(r, m)
<1>1. View(entries) \in Views
  BY ViewTyped DEF RegistryInv, CollectionTyped
<1>2. /\ View(entries)[m].triggers = static[r][m]
      /\ View(entries)[m].suppressed <=> static[r][m] # None
  BY DEF View, Present, Pristine
<1> QED
  BY <1>1, <1>2 DEF CodedViews

\* What is so of one replica and model does not depend on the rest.
LEMMA ReconciledKept ==
  ASSUME NEW r \in Replicas, NEW m \in Models, Reconciled(r, m), entries'[m] = entries[m],
         pc'[r] = pc[r], static'[r] = static[r], plan'[r] = plan[r],
         registry'[r] = registry[r], reads'[r] = reads[r], polled'[r] = polled[r]
  PROVE  Reconciled(r, m)'
<1>1. CodedViews(r, m)' = CodedViews(r, m) /\ Document(m)' = Document(m)
      /\ (Present(m)' <=> Present(m))
  BY DEF CodedViews, Document, Present
<1> QED
  BY <1>1 DEF Reconciled, OrphansGo, DefaultsMirror, SeedsCome, RegistryCoded

\* While r is alone nobody else takes a step that r could notice.
LEMMA OthersAreDown ==
  ASSUME CodeInv, NEW r \in Replicas, NEW m \in Models, NEW s \in Replicas, s # r,
         Boot(s) \/ Stop(s) \/ Refresh(s) \/ Admin(s), Alone(r), Alone(r)', writes' = 0
  PROVE  /\ entries' = entries /\ pc'[r] = pc[r] /\ static'[r] = static[r]
         /\ plan'[r] = plan[r] /\ registry'[r] = registry[r]
         /\ reads'[r] = reads[r] /\ polled'[r] = polled[r]
<1>1. ReplicasTyped /\ NeverBooted /\ static[s] = NoCode /\ static'[s] = NoCode /\ writes \in Nat
  BY DEF CodeInv, RegistryInv, ReplicasTyped, Alone
<1>2. pc[s] = "down"
  BY <1>1 DEF NeverBooted
<1>3. ~BootRead(s)
  <2> SUFFICES ASSUME BootRead(s) PROVE FALSE
    OBVIOUS
  <2>1. PICK code \in [Models -> Values] : static' = [static EXCEPT ![s] = code]
    BY TriggersConstants DEF BootRead, SetStaticTriggers, Values
  <2>2. code # NoCode
    BY DEF NoCode
  <2> QED
    BY <1>1, <2>1, <2>2 DEF ReplicasTyped
<1>4. ~Boot(s) /\ ~Stop(s)
  BY <1>2, <1>3 DEF Boot, BootDelete, BootResync, BootResynced, BootSeed, BootLoad, BootDone, Stop
<1>5. ~Admin(s)
  BY <1>1, AdminKeepsInv DEF CodeInv
<1>6. Refresh(s)
  BY <1>4, <1>5
<1> QED
  BY <1>1, <1>6 DEF Refresh, RefreshRead, RefreshApply, PollRead, PollApply, collectionVars,
     Replace, ReplicasTyped

\* Before a step after which r is alone, it was.
LEMMA AloneBefore ==
  ASSUME CodeInv, NEW r \in Replicas, NEW m \in Models, [Next]_vars, Alone(r)'
  PROVE  Alone(r)
<1> SUFFICES ASSUME NEW s \in Replicas \ {r} PROVE static[s] = NoCode
  BY DEF Alone
<1>1. ReplicasTyped /\ static'[s] = NoCode
  BY DEF CodeInv, RegistryInv, Alone
<1>2. ASSUME NEW q \in Replicas, BootRead(q) PROVE static'[s] = static[s]
  <2>1. PICK code \in [Models -> Values] : static' = [static EXCEPT ![q] = code]
    BY <1>2, TriggersConstants DEF BootRead, SetStaticTriggers, Values
  <2>2. code # NoCode
    BY DEF NoCode
  <2> QED
    BY <1>1, <2>1, <2>2 DEF ReplicasTyped
<1>3. ASSUME NEW q \in Replicas, Boot(q) \/ Stop(q) \/ Refresh(q) \/ Admin(q), ~BootRead(q)
      PROVE  static' = static
  BY <1>3 DEF Boot, BootDelete, BootResync, BootResynced, BootSeed, BootLoad, BootDone, Stop,
     Refresh, RefreshRead, RefreshApply, PollRead, PollApply, Admin, Create, Update, RemoveEntry,
     Write, replicaVars
<1> QED
  BY <1>1, <1>2, <1>3 DEF Next, vars

LEMMA BootReadReconciles ==
  ASSUME CodeInv, NEW r \in Replicas, NEW m \in Models, BootRead(r), writes = 0
  PROVE  Reconciled(r, m)'
<1>1. /\ CollectionTyped /\ ReplicasTyped /\ Pristine
  BY DEF CodeInv, RegistryInv
<1>2. PICK code \in [Models -> Values] : /\ static' = [static EXCEPT ![r] = code]
                                         /\ plan' = [plan EXCEPT ![r] = Plan(entries, code)]
  BY TriggersConstants DEF BootRead, SetStaticTriggers, Values
<1>3. /\ static'[r] = code /\ plan'[r] = Plan(entries, code) /\ pc'[r] = "deleting"
      /\ entries' = entries
  BY <1>1, <1>2 DEF BootRead, ReplicasTyped, collectionVars
<1>4. Present(m) => entries[m].isDefault /\ Mirrors(entries[m])
  BY <1>1 DEF Pristine, Mirrors
<1>5. /\ \A t \in Plan(entries, code).delete : t.model = m => code[m] = None
      /\ Present(m) /\ code[m] = None => Document(m) \in Plan(entries, code).delete
  BY <1>4 DEF Plan, Document, Present
<1>6. Present(m) /\ code[m] # None /\ entries[m].triggers # code[m]
      => Document(m) \in Plan(entries, code).resync
  BY <1>4 DEF Plan, Document, Present
<1>7. m \in Plan(entries, code).seed <=> code[m] # None /\ ~Present(m)
  BY DEF Plan, Present
<1>8. Document(m)' = Document(m) /\ (Present(m)' <=> Present(m))
  BY <1>3 DEF Document, Present
<1>9. OrphansGo(r, m)'
  BY <1>3, <1>5, <1>8 DEF OrphansGo
<1>10. DefaultsMirror(r, m)' /\ SeedsCome(r, m)' /\ RegistryCoded(r, m)'
  BY <1>3, <1>6, <1>7, <1>8 DEF DefaultsMirror, SeedsCome, RegistryCoded
<1> QED
  BY <1>9, <1>10 DEF Reconciled

LEMMA BootDeleteReconciles ==
  ASSUME CodeInv, NEW r \in Replicas, NEW m \in Models, BootDelete(r), Reconciled(r, m)
  PROVE  Reconciled(r, m)'
<1>1. ReplicasTyped
  BY DEF CodeInv, RegistryInv
<1>2. /\ pc[r] = "deleting" /\ pc'[r] = "resyncing"
      /\ UNCHANGED <<static, plan, registry, reads, polled>>
      /\ entries'[m] = IF Document(m) \in plan[r].delete THEN Missing ELSE entries[m]
  BY <1>1 DEF BootDelete, CommitSilently, ReplicasTyped, Document
<1>3. Document(m) \in plan[r].delete => static[r][m] = None
  BY <1>2 DEF Reconciled, OrphansGo, Document
<1>4. CASE Document(m) \in plan[r].delete
  BY <1>2, <1>3, <1>4 DEF Reconciled, OrphansGo, DefaultsMirror, SeedsCome, RegistryCoded, Present
<1>5. CASE Document(m) \notin plan[r].delete
  <2>1. entries'[m] = entries[m] /\ Document(m)' = Document(m) /\ (Present(m)' <=> Present(m))
    BY <1>2, <1>5 DEF Document, Present
  <2> QED
    BY <1>2, <1>5, <2>1 DEF Reconciled, OrphansGo, DefaultsMirror, SeedsCome, RegistryCoded
<1> QED
  BY <1>4, <1>5

LEMMA BootResyncReconciles ==
  ASSUME CodeInv, NEW r \in Replicas, NEW m \in Models, BootResync(r), Reconciled(r, m)
  PROVE  Reconciled(r, m)'
<1>1. ReplicasTyped /\ CollectionTyped /\ PlanFits(r)
  BY DEF CodeInv, RegistryInv
<1>2. PICK task \in plan[r].resync :
        /\ plan' = [plan EXCEPT ![r].resync = @ \ {task}]
        /\ IF entries[task.model].id = task.id
           THEN entries' = [entries EXCEPT ![task.model].triggers = static[r][task.model],
                                           ![task.model].synced = static[r][task.model]]
           ELSE entries' = entries
  BY DEF BootResync, Commit
<1>3. /\ pc[r] = "resyncing" /\ pc' = pc /\ static' = static
      /\ plan'[r].resync = plan[r].resync \ {task} /\ plan'[r].seed = plan[r].seed
  BY <1>1, <1>2 DEF BootResync, ReplicasTyped, Plans
<1>4. task \in Tasks /\ task.id # 0 /\ static[r][task.model] \in Versions
  BY <1>1 DEF PlanFits, ReplicasTyped, Plans
<1>5. RegistryCoded(r, m)'
  BY <1>3 DEF RegistryCoded
<1>6. CASE task = Document(m)
  <2>1. task.model = m /\ task.id = entries[m].id
    BY <1>6 DEF Document
  <2>2. Present(m) /\ entries[m] \in Entry
    BY <1>1, <1>4, <2>1, EntryFacts
  <2>3. entries'[m] = [entries[m] EXCEPT !.triggers = static[r][m], !.synced = static[r][m]]
    BY <1>1, <1>2, <2>1 DEF CollectionTyped, Entries
  <2>4. entries'[m].triggers = static[r][m] /\ entries'[m].id = entries[m].id
    BY <2>2, <2>3 DEF Entry
  <2>5. Present(m)'
    BY <1>4, <2>1, <2>4 DEF Present, Missing
  <2> QED
    BY <1>3, <1>5, <2>2, <2>4, <2>5 DEF Reconciled, OrphansGo, DefaultsMirror, SeedsCome
<1>7. CASE task # Document(m)
  <2>1. entries'[m] = entries[m]
    <3>1. ~(task.model = m /\ task.id = entries[m].id)
      BY <1>4, <1>7 DEF Document, Tasks
    <3> QED
      BY <1>1, <1>2, <3>1 DEF CollectionTyped, Entries
  <2>2. Document(m)' = Document(m) /\ (Present(m)' <=> Present(m))
    BY <2>1 DEF Document, Present
  <2>3. Document(m) \in plan[r].resync => Document(m)' \in plan'[r].resync
    BY <1>3, <1>7, <2>2
  <2> QED
    BY <1>3, <1>5, <2>1, <2>2, <2>3 DEF Reconciled, OrphansGo, DefaultsMirror, SeedsCome
<1> QED
  BY <1>6, <1>7

LEMMA BootSeedReconciles ==
  ASSUME CodeInv, NEW r \in Replicas, NEW m \in Models, BootSeed(r), Reconciled(r, m)
  PROVE  Reconciled(r, m)'
<1>1. ReplicasTyped
  BY DEF CodeInv, RegistryInv
<1>2. PICK inserted \in SUBSET Seeds(r) :
        /\ entries'[m] = IF m \in inserted
                         THEN [id |-> nextId, active |-> TRUE, isDefault |-> TRUE,
                               triggers |-> static[r][m], synced |-> static[r][m]]
                         ELSE entries[m]
        /\ pc' = [pc EXCEPT ![r] = IF inserted = plan[r].seed THEN "loading" ELSE "failed"]
  BY DEF BootSeed, CommitSilently
<1>3. pc[r] = "seeding" /\ static' = static
  BY DEF BootSeed
<1>4. pc'[r] = IF inserted = plan[r].seed THEN "loading" ELSE "failed"
  BY <1>1, <1>2 DEF ReplicasTyped
<1>5. CASE pc'[r] = "failed"
  BY <1>5 DEF Reconciled, OrphansGo, DefaultsMirror, SeedsCome, RegistryCoded
<1>6. CASE pc'[r] = "loading"
  <2>1. inserted = plan[r].seed
    BY <1>4, <1>6
  <2>2. m \in inserted => entries'[m].triggers = static[r][m] /\ Present(m)'
    <3>1. m \in inserted => DOMAIN entries'[m] # DOMAIN Missing
      BY <1>2 DEF Missing
    <3> QED
      BY <1>2, <3>1 DEF Present
  <2>3. m \notin inserted => entries'[m] = entries[m] /\ (Present(m)' <=> Present(m))
    BY <1>2 DEF Present
  <2>4. m \in inserted <=> static[r][m] # None /\ ~Present(m)
    BY <1>3, <2>1 DEF Reconciled, SeedsCome
  <2>5. static[r][m] = None => ~Present(m)
    BY <1>3 DEF Reconciled, OrphansGo
  <2>6. Present(m) => entries[m].triggers = static[r][m]
    BY <1>3 DEF Reconciled, DefaultsMirror
  <2> QED
    BY <1>3, <1>6, <2>2, <2>3, <2>4, <2>5, <2>6 DEF Reconciled, OrphansGo, DefaultsMirror,
       SeedsCome, RegistryCoded
<1> QED
  BY <1>4, <1>5, <1>6

LEMMA BootWaitReconciles ==
  ASSUME CodeInv, NEW r \in Replicas, NEW m \in Models, writes = 0, Reconciled(r, m),
         BootResynced(r) \/ BootLoad(r) \/ BootDone(r)
  PROVE  Reconciled(r, m)'
<1>1. ReplicasTyped /\ RegistryInv /\ Pristine /\ ReadsAreSnapshots(r)
  BY DEF CodeInv, RegistryInv
<1>2. UNCHANGED <<entries, static, plan, polled>>
  BY DEF BootResynced, BootLoad, BootDone, collectionVars
<1>3. /\ (Present(m)' <=> Present(m)) /\ Document(m)' = Document(m)
      /\ CodedViews(r, m)' = CodedViews(r, m)
  BY <1>2 DEF Present, Document, CodedViews
<1>4. pc[r] \in {"loading", "loaded"} => View(entries) \in CodedViews(r, m)
  BY <1>1, ViewCoded DEF Reconciled, OrphansGo, DefaultsMirror, SeedsCome
<1>5. CASE BootResynced(r)
  <2>1. pc[r] = "resyncing" /\ pc'[r] = "seeding" /\ plan[r].resync = {}
    BY <1>1, <1>5 DEF BootResynced, ReplicasTyped
  <2>2. Present(m) => entries[m].triggers = static[r][m]
    BY <2>1 DEF Reconciled, OrphansGo, DefaultsMirror
  <2> QED
    BY <1>2, <1>3, <2>1, <2>2 DEF Reconciled, OrphansGo, DefaultsMirror, SeedsCome, RegistryCoded
<1>6. CASE BootLoad(r)
  <2>1. pc[r] = "loading" /\ pc'[r] = "loaded" /\ reads'[r] = <<View(entries)>>
    BY <1>1, <1>6 DEF BootLoad, ReplicasTyped
  <2>2. RegistryCoded(r, m)'
    BY <1>3, <1>4, <2>1 DEF RegistryCoded
  <2> QED
    BY <1>2, <1>3, <2>1, <2>2 DEF Reconciled, OrphansGo, DefaultsMirror, SeedsCome
<1>7. CASE BootDone(r)
  <2>1. /\ pc[r] = "loaded" /\ pc'[r] = "up" /\ reads'[r] = << >>
        /\ registry'[r] = Head(reads[r])
    BY <1>1, <1>7 DEF BootDone, Replace, ReplicasTyped
  <2>2. reads[r] \in Seq(CodedViews(r, m)) /\ reads[r] # << >> /\ polled[r] = NoRead
    BY <1>1, <2>1 DEF Reconciled, RegistryCoded, ReadsAreSnapshots
  <2>3. Head(reads[r]) \in CodedViews(r, m) /\ << >> \in Seq(CodedViews(r, m))
    BY <2>2
  <2>4. RegistryCoded(r, m)'
    BY <1>2, <1>3, <2>1, <2>2, <2>3 DEF RegistryCoded
  <2> QED
    BY <1>2, <1>3, <2>1, <2>4 DEF Reconciled, OrphansGo, DefaultsMirror, SeedsCome
<1> QED
  BY <1>5, <1>6, <1>7

LEMMA StopReconciles ==
  ASSUME CodeInv, NEW r \in Replicas, NEW m \in Models, Stop(r)
  PROVE  Reconciled(r, m)'
<1>1. pc'[r] = "down"
  BY DEF CodeInv, RegistryInv, ReplicasTyped, Stop
<1> QED
  BY <1>1 DEF Reconciled, OrphansGo, DefaultsMirror, SeedsCome, RegistryCoded

LEMMA RefreshReconciles ==
  ASSUME CodeInv, NEW r \in Replicas, NEW m \in Models, writes = 0, Reconciled(r, m), Refresh(r)
  PROVE  Reconciled(r, m)'
<1>1. ReplicasTyped /\ RegistryInv /\ Pristine /\ ReadsAreSnapshots(r)
  BY DEF CodeInv, RegistryInv
<1>2. UNCHANGED <<entries, static, plan, pc>>
  BY DEF Refresh, RefreshRead, RefreshApply, PollRead, PollApply, collectionVars
<1>3. /\ (Present(m)' <=> Present(m)) /\ Document(m)' = Document(m)
      /\ CodedViews(r, m)' = CodedViews(r, m)
  BY <1>2 DEF Present, Document, CodedViews
<1>4. CASE pc[r] \notin {"loaded", "up"}
  BY <1>2, <1>3, <1>4 DEF Reconciled, OrphansGo, DefaultsMirror, SeedsCome, RegistryCoded
<1>5. CASE pc[r] \in {"loaded", "up"}
  <2>1. View(entries) \in CodedViews(r, m) /\ reads[r] \in Seq(CodedViews(r, m))
    BY <1>1, <1>5, ViewCoded DEF Reconciled, OrphansGo, DefaultsMirror, SeedsCome, RegistryCoded
  <2>2. pc[r] = "up" => /\ registry[r] \in CodedViews(r, m)
                        /\ polled[r] # NoRead => polled[r] \in CodedViews(r, m)
    BY DEF Reconciled, RegistryCoded
  <2>3. RegistryCoded(r, m)'
    <3>1. CASE RefreshRead(r)
      <4>1. reads'[r] = Append(reads[r], View(entries)) /\ UNCHANGED <<registry, polled>>
        BY <1>1, <3>1 DEF RefreshRead, ReplicasTyped
      <4>2. reads'[r] \in Seq(CodedViews(r, m))
        BY <2>1, <4>1
      <4> QED
        BY <1>2, <1>3, <2>2, <4>1, <4>2 DEF RegistryCoded
    <3>2. CASE RefreshApply(r)
      <4>1. PICK i \in DOMAIN reads[r] :
              registry'[r] = reads[r][i] /\ reads'[r] = RemoveAt(reads[r], i)
        BY <1>1, <3>2 DEF RefreshApply, Replace, ReplicasTyped
      <4>2. reads'[r] \in Seq(CodedViews(r, m)) /\ registry'[r] \in CodedViews(r, m)
        BY <2>1, <4>1, RemoveAtTyped
      <4>3. polled' = polled
        BY <3>2 DEF RefreshApply
      <4> QED
        BY <1>2, <1>3, <2>2, <4>2, <4>3 DEF RegistryCoded
    <3>3. CASE PollRead(r)
      <4>1. polled'[r] = View(entries) /\ UNCHANGED <<registry, reads>>
        BY <1>1, <3>3 DEF PollRead, ReplicasTyped
      <4> QED
        BY <1>2, <1>3, <2>1, <2>2, <4>1 DEF RegistryCoded
    <3>4. CASE PollApply(r)
      <4>1. /\ registry'[r] = polled[r] /\ polled[r] # NoRead /\ polled'[r] = NoRead
            /\ reads' = reads /\ pc[r] = "up"
        BY <1>1, <3>4 DEF PollApply, Replace, ReplicasTyped, ReadsAreSnapshots
      <4> QED
        BY <1>2, <1>3, <2>1, <2>2, <4>1 DEF RegistryCoded
    <3> QED
      BY <3>1, <3>2, <3>3, <3>4 DEF Refresh
  <2> QED
    BY <1>2, <1>3, <1>5, <2>3 DEF Reconciled, OrphansGo, DefaultsMirror, SeedsCome
<1> QED
  BY <1>4, <1>5

LEMMA CodeInvInit == Init => CodeInv
<1> SUFFICES ASSUME Init PROVE CodeInv
  OBVIOUS
<1>1. NeverBooted /\ Pristine
  BY DEF Init, NeverBooted, Pristine, Present
<1>2. \A r \in Replicas, m \in Models : Reconciled(r, m)
  BY DEF Init, Reconciled, OrphansGo, DefaultsMirror, SeedsCome, RegistryCoded
<1> QED
  BY <1>1, <1>2, RegistryInvInit DEF CodeInv

LEMMA CodeInvInductive == CodeInv /\ [Next]_vars => CodeInv'
<1> SUFFICES ASSUME CodeInv, [Next]_vars PROVE CodeInv'
  OBVIOUS
<1>1. RegistryInv' /\ NeverBooted' /\ Pristine'
  BY RegistryInvInductive, NeverBootedKept, PristineKept DEF CodeInv
<1>2. ASSUME writes' = 0, NEW r \in Replicas, Alone(r)', NEW m \in Models
      PROVE  Reconciled(r, m)'
  <2>1. ReplicasTyped /\ writes \in Nat /\ Alone(r)
    BY <1>2, AloneBefore DEF CodeInv, RegistryInv, ReplicasTyped
  <2>2. ASSUME NEW s \in Replicas, Boot(s) \/ Stop(s) \/ Refresh(s) \/ Admin(s)
        PROVE  writes = 0
    <3>1. CASE Admin(s)
      BY <1>2, <2>1, <3>1, AdminKeepsInv DEF CodeInv
    <3>2. CASE Boot(s) \/ Stop(s) \/ Refresh(s)
      BY <1>2, <3>2 DEF Boot, BootRead, BootDelete, BootResync, BootResynced, BootSeed, BootLoad,
         BootDone, Stop, Refresh, RefreshRead, RefreshApply, PollRead, PollApply
    <3> QED
      BY <2>2, <3>1, <3>2
  <2>3. ASSUME Boot(r) \/ Stop(r) \/ Refresh(r) \/ Admin(r) PROVE Reconciled(r, m)'
    <3>1. writes = 0 /\ Reconciled(r, m)
      BY <2>1, <2>2, <2>3 DEF CodeInv
    <3>2. ~Admin(r)
      BY <1>2, <2>1, AdminKeepsInv DEF CodeInv
    <3> QED
      BY <2>3, <3>1, <3>2, BootReadReconciles, BootDeleteReconciles, BootResyncReconciles,
         BootSeedReconciles, BootWaitReconciles, StopReconciles, RefreshReconciles DEF Boot
  <2>4. ASSUME NEW s \in Replicas, s # r, Boot(s) \/ Stop(s) \/ Refresh(s) \/ Admin(s)
        PROVE  Reconciled(r, m)'
    <3>1. writes = 0 /\ Reconciled(r, m)
      BY <2>1, <2>2, <2>4 DEF CodeInv
    <3>2. /\ entries' = entries /\ pc'[r] = pc[r] /\ static'[r] = static[r]
          /\ plan'[r] = plan[r] /\ registry'[r] = registry[r]
          /\ reads'[r] = reads[r] /\ polled'[r] = polled[r]
      BY <1>2, <2>1, <2>4, OthersAreDown
    <3> QED
      BY <3>1, <3>2, ReconciledKept
  <2>5. CASE UNCHANGED vars
    <3>1. Reconciled(r, m)
      BY <1>2, <2>1, <2>5 DEF CodeInv, vars
    <3> QED
      BY <2>5, <3>1, ReconciledKept DEF vars
  <2> QED
    BY <2>3, <2>4, <2>5 DEF Next
<1> QED
  BY <1>1, <1>2 DEF CodeInv

\* While nobody has written, a replica that alone has ever booted runs exactly
\* what its code declares, and runs it once: through any number of boots, of any
\* release, cut short anywhere.
THEOREM CodeRunsOnce == Spec => []CodeTakesEffect
<1>1. ASSUME CodeInv PROVE CodeTakesEffect
  <2> SUFFICES ASSUME writes = 0, NEW r \in Replicas, NEW m \in Models, pc[r] = "up", Alone(r)
               PROVE  Effective(r, m) = RunOf(static[r][m])
    BY DEF CodeTakesEffect
  <2>1. /\ registry[r][m].triggers = static[r][m]
        /\ registry[r][m].suppressed <=> static[r][m] # None
    BY <1>1 DEF CodeInv, Reconciled, RegistryCoded, CodedViews
  <2>2. CASE static[r][m] = None
    BY <2>1, <2>2 DEF Effective, MergeTriggers, RunOf
  <2>3. CASE static[r][m] # None
    <3>1. registry[r][m].suppressed /\ registry[r][m].triggers = static[r][m]
      BY <2>1, <2>3
    <3>2. Effective(r, m) = RunOf(None) \o RunOf(static[r][m])
      BY <3>1 DEF Effective, MergeTriggers
    <3>3. RunOf(None) = << >> /\ RunOf(static[r][m]) = <<static[r][m]>>
      BY <2>3 DEF RunOf
    <3> QED
      BY <3>2, <3>3
  <2> QED
    BY <2>2, <2>3
<1> QED
  BY <1>1, CodeInvInit, CodeInvInductive, PTL DEF Spec
=============================================================================
