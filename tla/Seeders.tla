------------------------------ MODULE Seeders ------------------------------
(***************************************************************************)
(* The start of ZanixMongoConnector in each replica of an application: it  *)
(* binds the registered models, connects, and runs and records the seeders *)
(* (connector/models.ts, connector/seeders.ts, database/utils/seeders/ and *)
(* the containers of program/metadata/).  A model may also be bound later, *)
(* from its schema, with a seeder of its own.                              *)
(***************************************************************************)
EXTENDS Naturals, Sequences, SequencesExt

CONSTANTS
    Replicas,
    Models,         \* models registered with registerModel()
    SchemaModels,   \* models bound by getModel(name, schema), one seeder each
    BootSeeders,    \* the seeders of the registered models
    Always,         \* the seeders whose runningMode is "always"
    MaxRestarts,    \* bound: crashes and restarts
    MaxFailures     \* bound: handlers that fail, connections refused

\* The name of a seeder begins with that of its model.
ASSUME SeederConstants ==
    /\ Models \cap SchemaModels = {} /\ "start" \notin SchemaModels
    /\ BootSeeders \in Seq(ToSet(BootSeeders)) /\ IsInjective(BootSeeders)
    /\ ToSet(BootSeeders) \cap SchemaModels = {}
    /\ {MaxRestarts, MaxFailures} \subseteq Nat

VARIABLES
    registered, \* the seeders registered before the start, some or none
    records,    \* the collection of the seed model: unique [name, status]
    program,    \* program[r]: what the metadata containers of r hold
    run,        \* run[r][u]: runAndSaveSeeders() of the start, or of a schema
    succeeded,  \* seeders whose handler has ever succeeded
    completed,  \* seeders that succeeded in a run that came to its end
    reran,      \* completed seeders that were run again
    excused,    \* a handler failed, or two replicas ran seeders at once
    spent       \* how much of MaxRestarts and MaxFailures is spent

vars == <<registered, records, program, run, succeeded, completed, reran, excused, spent>>

Runs == {"start"} \cup SchemaModels

SeedersOf(u) == IF u = "start" THEN registered ELSE <<u>>

Idle == [pc |-> "none", left |-> <<>>, tracked |-> FALSE, data |-> <<>>, done |-> {}]

\* A process that has not started: SeedersContainer and ModelsContainer as
\* registerModel() fills them, and this.seederModel set.
Fresh ==
    [up |-> FALSE, bound |-> {}, tracking |-> TRUE, existInDB |-> {},
     find |-> registered, save |-> <<>>]

Init ==
    /\ registered \in {<<>>, BootSeeders}
    /\ records = {}
    /\ program = [r \in Replicas |-> Fresh]
    /\ run = [r \in Replicas |-> [u \in Runs |-> Idle]]
    /\ succeeded = {} /\ completed = {} /\ reran = {} /\ excused = FALSE
    /\ spent = [restarts |-> 0, failures |-> 0]

\* addDataToQuery() and consumeDataToQuery(): what will be found, or saved.
AddDataToQuery(metadata, action, data) == [metadata EXCEPT ![action] = Append(@, data)]

ConsumeDataToQuery(metadata, action) == [metadata EXCEPT ![action] = <<>>]

ghosts == <<succeeded, completed, reran>>

Fails == spent.failures < MaxFailures /\ spent' = [spent EXCEPT !.failures = @ + 1]

Running(r) == \E u \in Runs : run[r][u].pc \notin {"none", "done"}

Starts(r, u, task) ==
    /\ run' = [run EXCEPT ![r][u] = task]
    /\ excused' = (excused \/ \E o \in Replicas \ {r} : Running(o))

-----------------------------------------------------------------------------
\* initialize(): defineModels(), connect(), then runSeedersOnStart().

\* bindModel(): a model that is bound already stays as it is.
BindModel(metadata, models) == [metadata EXCEPT !.bound = @ \cup models]

DefineModels(r) ==
    /\ program[r].bound = {}
    /\ program' = [program EXCEPT ![r] = BindModel(@, Models)]
    /\ UNCHANGED <<registered, records, run, ghosts, excused, spent>>

\* runAndSaveSeeders() begins with defineSeedModelOnce(), which asks for the
\* success records of what was prepared, unless this.seederModel is unset.
Begin(r, u, find) ==
    LET tracked == program[r].tracking IN
    [Idle EXCEPT !.pc = IF tracked THEN "finding" ELSE "running",
                 !.left = SeedersOf(u), !.tracked = tracked, !.data = find]

Connect(r) ==
    /\ program[r].bound # {} /\ ~program[r].up
    /\ run[r]["start"].pc = "none"
    /\ IF registered = <<>>
       THEN /\ program' = [program EXCEPT ![r].up = TRUE]
            /\ UNCHANGED <<run, excused>>
       ELSE /\ program' = [program EXCEPT ![r] = ConsumeDataToQuery(@, "find")]
            /\ Starts(r, "start", Begin(r, "start", program[r].find))
    /\ UNCHANGED <<registered, records, ghosts, spent>>

\* A refused connection is logged; the connector stays without one.
ConnectFails(r) ==
    /\ program[r].bound # {} /\ ~program[r].up /\ run[r]["start"].pc = "none" /\ Fails
    /\ run' = [run EXCEPT ![r]["start"].pc = "done"]
    /\ UNCHANGED <<registered, records, program, ghosts, excused>>

\* getModel(name, schema) of a ready connector: the model is bound and its
\* seeder prepared and run; a model that is bound already is just returned.
GetModel(r, m) ==
    /\ program[r].up /\ m \notin program[r].bound
    /\ LET prepared == AddDataToQuery(BindModel(program[r], {m}), "find", m) IN
       /\ program' = [program EXCEPT ![r] =
                        IF prepared.tracking THEN ConsumeDataToQuery(prepared, "find") ELSE prepared]
       /\ Starts(r, m, Begin(r, m, prepared.find))
    /\ UNCHANGED <<registered, records, ghosts, spent>>

\* Mutant of Found: the query leaves out the status.
FindsAnyStatus(r, u) ==
    /\ run[r][u].pc = "finding"
    /\ program' = [program EXCEPT
                     ![r].existInDB = @ \cup {s \in ToSet(run[r][u].data) : \E record \in records : record.name = s},
                     ![r].tracking = FALSE]
    /\ run' = [run EXCEPT ![r][u].pc = "running", ![r][u].data = <<>>]
    /\ UNCHANGED <<registered, records, ghosts, excused, spent>>

\* The success records are found, and this.seederModel is unset.
Found(r, u) ==
    /\ run[r][u].pc = "finding"
    /\ program' = [program EXCEPT
                     ![r].existInDB = @ \cup {s \in ToSet(run[r][u].data) : [name |-> s, status |-> "success"] \in records},
                     ![r].tracking = FALSE]
    /\ run' = [run EXCEPT ![r][u].pc = "running", ![r][u].data = <<>>]
    /\ UNCHANGED <<registered, records, ghosts, excused, spent>>

-----------------------------------------------------------------------------
\* seederBaseWrapper() with the processor of mongo.

Current(r, u) == Head(run[r][u].left)

AvoidRun(r, s) == s \notin Always /\ s \in program[r].existInDB

Skip(r, u) ==
    /\ run[r][u].pc = "running" /\ run[r][u].left # <<>> /\ AvoidRun(r, Current(r, u))
    /\ run' = [run EXCEPT ![r][u].left = Tail(@)]
    /\ UNCHANGED <<registered, records, program, ghosts, excused, spent>>

\* onFinish() adds the outcome to what will be saved.
OnFinish(r, s, status) ==
    program' = [program EXCEPT ![r] = AddDataToQuery(@, "save", [name |-> s, status |-> status])]

Handler(r, u, status) ==
    LET s == Current(r, u) IN
    /\ run[r][u].pc = "running" /\ run[r][u].left # <<>> /\ ~AvoidRun(r, s)
    /\ run' = [run EXCEPT ![r][u].left = Tail(@),
                          ![r][u].done = IF status = "success" THEN @ \cup {s} ELSE @]
    /\ OnFinish(r, s, status)
    /\ reran' = IF s \in completed \ Always THEN reran \cup {s} ELSE reran
    /\ UNCHANGED <<registered, records, completed>>

Succeeds(r, u) ==
    /\ Handler(r, u, "success")
    /\ succeeded' = succeeded \cup {Current(r, u)}
    /\ UNCHANGED <<excused, spent>>

HandlerFails(r, u) ==
    /\ Handler(r, u, "failed") /\ Fails /\ excused' = TRUE
    /\ UNCHANGED succeeded

-----------------------------------------------------------------------------
End(r, u) ==
    /\ run' = [run EXCEPT ![r][u] = [Idle EXCEPT !.pc = "done"]]
    /\ completed' = completed \cup run[r][u].done

\* The rest of runAndSaveSeeders(): without a seed model nothing is saved.
Ran(r, u) ==
    /\ run[r][u].pc = "running" /\ run[r][u].left = <<>>
    /\ IF run[r][u].tracked
       THEN /\ run' = [run EXCEPT ![r][u].pc = "saving", ![r][u].data = program[r].save]
            /\ program' = [program EXCEPT ![r] = ConsumeDataToQuery(@, "save")]
            /\ UNCHANGED completed
       ELSE /\ End(r, u)
            /\ program' = [program EXCEPT ![r].up = TRUE]
    /\ UNCHANGED <<registered, records, succeeded, reran, excused, spent>>

\* insertMany(), in order: a duplicate is logged and stops those after it.
Insert(r, u) ==
    LET data == run[r][u].data IN
    /\ run[r][u].pc = "saving"
    /\ IF data # <<>> /\ data[1] \notin records
       THEN /\ records' = records \cup {data[1]}
            /\ run' = [run EXCEPT ![r][u].data = Tail(@)]
            /\ UNCHANGED <<program, completed>>
       ELSE /\ End(r, u)
            /\ program' = [program EXCEPT ![r].up = TRUE]
            /\ UNCHANGED records
    /\ UNCHANGED <<registered, succeeded, reran, excused, spent>>

\* A replica ends, at any instant, and starts again.
Restart(r) ==
    /\ spent.restarts < MaxRestarts /\ spent' = [spent EXCEPT !.restarts = @ + 1]
    /\ program' = [program EXCEPT ![r] = Fresh]
    /\ run' = [run EXCEPT ![r] = [u \in Runs |-> Idle]]
    /\ UNCHANGED <<registered, records, ghosts, excused>>

Step(r) ==
    \/ DefineModels(r) \/ Connect(r)
    \/ \E u \in Runs : Found(r, u) \/ Skip(r, u) \/ Succeeds(r, u) \/ Ran(r, u) \/ Insert(r, u)

Next ==
    \E r \in Replicas :
        \/ Step(r) \/ ConnectFails(r) \/ Restart(r)
        \/ \E m \in SchemaModels : GetModel(r, m)
        \/ \E u \in Runs : HandlerFails(r, u)

Spec == Init /\ [][Next]_vars

-----------------------------------------------------------------------------
Names == ToSet(BootSeeders) \cup SchemaModels

TypeOK ==
    /\ records \subseteq [name : Names, status : {"success", "failed"}]
    /\ \A r \in Replicas :
         /\ program[r].bound \subseteq Models \cup SchemaModels
         /\ program[r].existInDB \cup ToSet(program[r].find) \subseteq Names
         /\ \A u \in Runs : run[r][u].pc \in {"none", "finding", "running", "saving", "done"}
    /\ succeeded \cup completed \cup reran \subseteq Names

\* A seeder is passed over only when it has succeeded, whatever crashes,
\* failures and other replicas did to its record: no data is missing for good.
SkipsOnlyTheDone ==
    /\ \A s \in Names : [name |-> s, status |-> "success"] \in records => s \in succeeded
    /\ \A r \in Replicas : program[r].existInDB \subseteq succeeded

\* docs/DATABASE.md: the seed model tracks which seeders have already run, so
\* restarts don't re-run them.
RestartsDoNotRerun == reran = {}

\* The code keeps that for the registered seeders as long as no handler fails,
\* no two replicas run their seeders at once, and none of the seeders is to run
\* always: the second record of one that is stops those inserted after it.
RerunsHaveAReason ==
    Always \cap ToSet(BootSeeders) = {} /\ reran \cap ToSet(BootSeeders) # {} => excused

\* No seeder's data is missing for good, and none is seeded again for nothing.
SeedersTakeEffect == TypeOK /\ SkipsOnlyTheDone /\ RerunsHaveAReason
=============================================================================
