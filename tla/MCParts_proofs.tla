--------------------------- MODULE MCParts_proofs ---------------------------
(***************************************************************************)
(* Proofs about the parts of MCParts, for any constants that satisfy their *)
(* assumptions: any number of seeders, replicas, restarts and failures; of *)
(* transactions; of callers, connectors and TTLs of the key-value store;   *)
(* of users of a local object; of requests that read and serialize; of     *)
(* documents, writes to them and sizes of a page; of triggers, their       *)
(* actions and conditions; of documents that are transformed, and paths.   *)
(***************************************************************************)
EXTENDS MCParts, TLAPS, FiniteSetTheorems, SequenceTheorems

-----------------------------------------------------------------------------
(***************************************************************************)
(* Seeders.  Typed says more than TypeOK does; Honest, that only what has  *)
(* succeeded is called a success; Starting, what a replica holds until its *)
(* start has ended; Calm, what holds while nothing excuses a rerun.        *)
(***************************************************************************)
Success(s) == [name |-> s, status |-> "success"]

Record == [name : Names, status : {"success", "failed"}]

Program == [up : BOOLEAN, bound : SUBSET (Models \cup SchemaModels), tracking : BOOLEAN,
            existInDB : SUBSET Names, find : Seq(Names), save : Seq(Record)]

Run == [pc : {"none", "finding", "running", "saving", "done"}, left : Seq(Names),
        tracked : BOOLEAN, data : Seq(Names) \cup Seq(Record), done : SUBSET Names]

Typed ==
    /\ registered \in {<<>>, BootSeeders}
    /\ records \subseteq Record
    /\ program \in [Replicas -> Program]
    /\ run \in [Replicas -> [Runs -> Run]]
    /\ \A r \in Replicas, u \in Runs :
         /\ run[r][u].pc = "finding" => run[r][u].data \in Seq(Names)
         /\ run[r][u].pc = "saving" => run[r][u].data \in Seq(Record)
    /\ succeeded \subseteq Names /\ completed \subseteq Names /\ reran \subseteq Names

Honest ==
    /\ \A s \in Names : Success(s) \in records => s \in succeeded
    /\ \A r \in Replicas, s \in Names :
         /\ s \in program[r].existInDB => s \in succeeded
         /\ Success(s) \in ToSet(program[r].save) => s \in succeeded
         /\ \A u \in Runs : run[r][u].pc = "saving" /\ Success(s) \in ToSet(run[r][u].data) => s \in succeeded

\* Until the start of a replica has ended, nothing else has run in it.
StartsAlone(r) ==
    /\ run[r]["start"].pc \in {"finding", "running", "saving"} => ~program[r].up
    /\ ~program[r].up => \A m \in SchemaModels : run[r][m].pc = "none"

\* What is prepared before it, and what it begins with.
Prepared(r) ==
    /\ ~program[r].up /\ run[r]["start"].pc = "none" =>
         program[r].tracking /\ program[r].find = registered /\ program[r].save = <<>>
    /\ run[r]["start"].pc = "finding" =>
         /\ program[r].save = <<>> /\ run[r]["start"].done = {}
         /\ run[r]["start"].data = registered /\ run[r]["start"].left = registered
    /\ run[r]["start"].pc \in {"finding", "running"} => run[r]["start"].tracked

\* A seeder of a schema is the only one of its run.
OfSchemas(r) ==
    \A m \in SchemaModels : ToSet(run[r][m].left) \subseteq {m} /\ run[r][m].done \subseteq {m}

Starting == \A r \in Replicas : StartsAlone(r) /\ Prepared(r) /\ OfSchemas(r)

Boot == ToSet(BootSeeders)

\* The records that a start will insert are new, and each is there once.
ToInsert(q) ==
    /\ IsInjective(q)
    /\ \A i \in DOMAIN q : q[i] \notin records /\ \E s \in Boot : q[i] = Success(s)

\* What a start has to run, found, and ran.
StartRuns(r) ==
    LET task == run[r]["start"] IN
    task.pc = "running" =>
      /\ IsInjective(task.left) /\ ToSet(task.left) \subseteq Boot
      /\ ToInsert(program[r].save)
      /\ \A s \in ToSet(task.left) :
           /\ Success(s) \notin ToSet(program[r].save)
           /\ Success(s) \in records => s \in program[r].existInDB
      /\ \A s \in task.done : Success(s) \in records \cup ToSet(program[r].save)

StartSaves(r) ==
    LET task == run[r]["start"] IN
    task.pc = "saving" =>
      /\ ToInsert(task.data)
      /\ \A s \in task.done : Success(s) \in records \cup ToSet(task.data)

OneRuns == \A r, o \in Replicas : Running(r) /\ Running(o) => r = o

Calm ==
    Always \cap Boot = {} /\ ~excused =>
      /\ OneRuns /\ reran \cap Boot = {}
      /\ \A s \in completed \cap Boot : Success(s) \in records
      /\ \A r \in Replicas : StartRuns(r) /\ StartSaves(r)

SeedersInv == Typed /\ Honest /\ Starting /\ Calm

-----------------------------------------------------------------------------
\* What the head and the tail of a sequence hold, and what is appended.
LEMMA TailFacts ==
  ASSUME NEW S, NEW q \in Seq(S), q # <<>>
  PROVE  /\ Head(q) \in S /\ Tail(q) \in Seq(S)
         /\ ToSet(q) = {Head(q)} \cup ToSet(Tail(q))
         /\ IsInjective(q) => IsInjective(Tail(q)) /\ Head(q) \notin ToSet(Tail(q))
<1> DEFINE t == Tail(q)
<1>1. /\ t \in Seq(S) /\ Len(t) = Len(q) - 1 /\ Len(q) \in Nat \ {0}
      /\ \A i \in 1 .. Len(t) : t[i] = q[i + 1]
      /\ Head(q) = q[1] /\ q[1] \in S
  OBVIOUS
<1>2. DOMAIN q = 1 .. Len(q) /\ DOMAIN t = 1 .. Len(t)
  BY <1>1
<1> HIDE DEF t
<1>3. ToSet(q) \subseteq {Head(q)} \cup ToSet(t)
  <2> SUFFICES ASSUME NEW x \in ToSet(q)
               PROVE  x \in {Head(q)} \cup ToSet(t)
    OBVIOUS
  <2>1. PICK i \in DOMAIN q : x = q[i]
    BY DEF ToSet
  <2>2. CASE i = 1
    BY <1>1, <2>1, <2>2
  <2>3. CASE i # 1
    <3>1. i - 1 \in DOMAIN t /\ t[i - 1] = x
      BY <1>1, <1>2, <2>1, <2>3
    <3> QED
      BY <3>1 DEF ToSet
  <2> QED
    BY <2>2, <2>3
<1>4. {Head(q)} \cup ToSet(t) \subseteq ToSet(q)
  <2>1. 1 \in DOMAIN q
    BY <1>1, <1>2
  <2>2. \A i \in DOMAIN t : i + 1 \in DOMAIN q /\ t[i] = q[i + 1]
    BY <1>1, <1>2
  <2> QED
    BY <1>1, <2>1, <2>2 DEF ToSet
<1>5. ASSUME IsInjective(q)
      PROVE  IsInjective(t) /\ Head(q) \notin ToSet(t)
  <2>1. \A i \in DOMAIN t : i + 1 \in DOMAIN q /\ i + 1 # 1 /\ t[i] = q[i + 1] /\ i \in Int
    BY <1>1, <1>2
  <2>2. 1 \in DOMAIN q
    BY <1>1, <1>2
  <2>3. IsInjective(t)
    BY <1>5, <2>1 DEF IsInjective
  <2>4. Head(q) \notin ToSet(t)
    BY <1>1, <1>5, <2>1, <2>2 DEF IsInjective, ToSet
  <2> QED
    BY <2>3, <2>4
<1> QED
  BY <1>1, <1>3, <1>4, <1>5 DEF t

LEMMA AppendFacts ==
  ASSUME NEW S, NEW q \in Seq(S), NEW e \in S
  PROVE  /\ Append(q, e) \in Seq(S)
         /\ ToSet(Append(q, e)) = ToSet(q) \cup {e}
         /\ IsInjective(q) /\ e \notin ToSet(q) => IsInjective(Append(q, e))
<1> DEFINE a == Append(q, e)
<1>1. /\ a \in Seq(S) /\ Len(a) = Len(q) + 1 /\ Len(q) \in Nat
      /\ \A i \in 1 .. Len(q) : a[i] = q[i]
      /\ a[Len(q) + 1] = e
      /\ DOMAIN q = 1 .. Len(q) /\ DOMAIN a = 1 .. Len(q) + 1
  OBVIOUS
<1> HIDE DEF a
<1>2. ToSet(a) = ToSet(q) \cup {e}
  <2>1. \A i \in DOMAIN a : (i \in DOMAIN q /\ a[i] = q[i]) \/ i = Len(q) + 1
    BY <1>1
  <2>2. \A i \in DOMAIN q : i \in DOMAIN a /\ a[i] = q[i]
    BY <1>1
  <2>3. Len(q) + 1 \in DOMAIN a
    BY <1>1
  <2> QED
    BY <1>1, <2>1, <2>2, <2>3 DEF ToSet
<1>3. ASSUME IsInjective(q), e \notin ToSet(q)
      PROVE  IsInjective(a)
  <2>1. \A i \in DOMAIN q : q[i] # e
    BY <1>3 DEF ToSet
  <2>2. \A i \in DOMAIN a : (i \in DOMAIN q /\ a[i] = q[i]) \/ (i = Len(q) + 1 /\ a[i] = e)
    BY <1>1
  <2> QED
    BY <1>3, <2>1, <2>2 DEF IsInjective
<1> QED
  BY <1>1, <1>2, <1>3 DEF a

LEMMA EmptySequence ==
  ToSet(<<>>) = {} /\ IsInjective(<<>>) /\ <<>> \in Seq(Names) /\ <<>> \in Seq(Record)
BY DEF ToSet, IsInjective

-----------------------------------------------------------------------------
\* The seeders of a start are seeders.
LEMMA Registered ==
  ASSUME Typed
  PROVE  registered \in Seq(Names) /\ ToSet(registered) \subseteq Boot /\ IsInjective(registered)
<1>1. BootSeeders \in Seq(Names)
  BY SeederConstants DEF Names
<1> QED
  BY <1>1, SeederConstants, EmptySequence DEF Typed, Boot

LEMMA FieldsTyped ==
  ASSUME Typed, NEW r \in Replicas
  PROVE  /\ program[r] \in Program
         /\ program[r].up \in BOOLEAN /\ program[r].tracking \in BOOLEAN
         /\ program[r].find \in Seq(Names) /\ program[r].save \in Seq(Record)
         /\ program[r].existInDB \subseteq Names /\ program[r].bound \subseteq Models \cup SchemaModels
         /\ \A u \in Runs :
              /\ run[r][u] \in Run
              /\ run[r][u].pc \in {"none", "finding", "running", "saving", "done"}
              /\ run[r][u].left \in Seq(Names) /\ run[r][u].done \subseteq Names
              /\ run[r][u].tracked \in BOOLEAN
BY DEF Typed, Program, Run

LEMMA InitEstablishes == Init => SeedersInv
<1> SUFFICES ASSUME Init PROVE SeedersInv
  OBVIOUS
<1>1. /\ \A r \in Replicas : program[r] = Fresh
      /\ \A r \in Replicas, u \in Runs : run[r][u] = Idle
  BY DEF Init
<1>0. registered \in Seq(Names)
  <2>1. BootSeeders \in Seq(Names)
    BY SeederConstants DEF Names
  <2> QED
    BY <2>1, EmptySequence DEF Init
<1>2. Fresh \in Program /\ Idle \in Run
  BY <1>0 DEF Fresh, Idle, Program, Run
<1>3. Typed
  BY <1>1, <1>2 DEF Init, Typed, Idle
<1>4. Honest
  BY <1>1, EmptySequence DEF Init, Honest, Fresh, Idle
<1>5. Starting
  BY <1>1, EmptySequence DEF Starting, StartsAlone, Prepared, OfSchemas, Fresh, Idle, Runs
<1>6. Calm
  BY <1>1 DEF Init, Calm, OneRuns, Running, StartRuns, StartSaves, Idle, Runs
<1> QED
  BY <1>3, <1>4, <1>5, <1>6 DEF SeedersInv

-----------------------------------------------------------------------------
\* A step of r keeps what is typed of the others, what they call a success, and
\* what they hold until their start has ended.
LEMMA OthersTyped ==
  ASSUME Typed, NEW r \in Replicas,
         UNCHANGED registered,
         program' = [program EXCEPT ![r] = program'[r]], program'[r] \in Program,
         run' = [run EXCEPT ![r] = run'[r]], run'[r] \in [Runs -> Run],
         \A u \in Runs :
           /\ run'[r][u].pc = "finding" => run'[r][u].data \in Seq(Names)
           /\ run'[r][u].pc = "saving" => run'[r][u].data \in Seq(Record),
         records' \subseteq Record,
         succeeded' \subseteq Names, completed' \subseteq Names, reran' \subseteq Names
  PROVE  /\ Typed'
         /\ \A o \in Replicas \ {r} : program'[o] = program[o] /\ run'[o] = run[o]
<1>1. \A o \in Replicas \ {r} : program'[o] = program[o] /\ run'[o] = run[o]
  BY DEF Typed
<1>2. program' \in [Replicas -> Program] /\ run' \in [Replicas -> [Runs -> Run]]
  BY DEF Typed
<1> QED
  BY <1>1, <1>2 DEF Typed

LEMMA OthersHonest ==
  ASSUME Honest, NEW r \in Replicas,
         \A o \in Replicas \ {r} : program'[o] = program[o] /\ run'[o] = run[o],
         succeeded \subseteq succeeded',
         \A s \in Names :
           /\ Success(s) \in records' => Success(s) \in records \/ s \in succeeded'
           /\ s \in program'[r].existInDB => s \in succeeded'
           /\ Success(s) \in ToSet(program'[r].save) => s \in succeeded'
           /\ \A u \in Runs :
                run'[r][u].pc = "saving" /\ Success(s) \in ToSet(run'[r][u].data) => s \in succeeded'
  PROVE  Honest'
BY DEF Honest, Success

LEMMA OthersStart ==
  ASSUME Starting, NEW r \in Replicas, UNCHANGED registered,
         \A o \in Replicas \ {r} : program'[o] = program[o] /\ run'[o] = run[o],
         StartsAlone(r)', Prepared(r)', OfSchemas(r)'
  PROVE  Starting'
<1> SUFFICES ASSUME NEW o \in Replicas
             PROVE  StartsAlone(o)' /\ Prepared(o)' /\ OfSchemas(o)'
  BY DEF Starting
<1>1. CASE o = r
  BY <1>1
<1>2. CASE o # r
  BY <1>2 DEF Starting, StartsAlone, Prepared, OfSchemas
<1> QED
  BY <1>1, <1>2

\* While nothing excuses a rerun, the others are at rest when records change.
LEMMA OthersCalm ==
  ASSUME Calm, NEW r \in Replicas,
         \A o \in Replicas \ {r} : program'[o] = program[o] /\ run'[o] = run[o],
         excused => excused',
         records \subseteq records', records' # records => Running(r),
         Running(r)' => Running(r) \/ excused' \/ \A o \in Replicas \ {r} : ~Running(o),
         Always \cap Boot = {} /\ ~excused' =>
           /\ reran' \cap Boot \subseteq reran
           /\ \A s \in completed' \cap Boot : s \in completed \/ Success(s) \in records'
           /\ StartRuns(r)' /\ StartSaves(r)'
  PROVE  Calm'
<1> SUFFICES ASSUME Always \cap Boot = {}, ~excused'
             PROVE  /\ OneRuns' /\ reran' \cap Boot = {}
                    /\ \A s \in completed' \cap Boot : Success(s) \in records'
                    /\ \A o \in Replicas : StartRuns(o)' /\ StartSaves(o)'
  BY DEF Calm, Success, Boot
<1>1. /\ OneRuns /\ reran \cap Boot = {}
      /\ \A s \in completed \cap Boot : Success(s) \in records
      /\ \A o \in Replicas : StartRuns(o) /\ StartSaves(o)
  BY DEF Calm
<1>2. \A o \in Replicas \ {r} : Running(o)' <=> Running(o)
  BY DEF Running
<1>3. OneRuns'
  BY <1>1, <1>2 DEF OneRuns
<1>4. ASSUME NEW o \in Replicas \ {r}
      PROVE  StartRuns(o)' /\ StartSaves(o)'
  <2>1. CASE records' = records
    <3>1. StartRuns(o) /\ StartSaves(o) /\ program'[o] = program[o] /\ run'[o] = run[o]
      BY <1>1
    <3> QED
      BY <2>1, <3>1 DEF StartRuns, StartSaves, ToInsert, Success, Boot
  <2>2. CASE records' # records
    <3>1. ~Running(o)
      BY <1>1, <2>2 DEF OneRuns
    <3>2. run'[o]["start"].pc \notin {"running", "saving"}
      BY <3>1 DEF Running, Runs
    <3> QED
      BY <3>2 DEF StartRuns, StartSaves
  <2> QED
    BY <2>1, <2>2
<1> QED
  BY <1>1, <1>3, <1>4

\* Nothing a start runs or saves depends on what else changes.
LEMMA StartKept ==
  ASSUME NEW r \in Replicas, UNCHANGED records,
         run'[r]["start"] = run[r]["start"],
         program'[r].save = program[r].save, program'[r].existInDB = program[r].existInDB
  PROVE  (StartRuns(r) => StartRuns(r)') /\ (StartSaves(r) => StartSaves(r)')
<1> DEFINE saved == program[r].save
           task == run[r]["start"]
           known == program[r].existInDB
<1>1. program'[r].save = saved /\ run'[r]["start"] = task /\ program'[r].existInDB = known
  OBVIOUS
<1>2. \A q : ToInsert(q) => /\ IsInjective(q)
                            /\ \A i \in DOMAIN q : q[i] \notin records' /\ \E s \in Boot : q[i] = Success(s)
  BY DEF ToInsert
<1>3. StartRuns(r) => StartRuns(r)'
  BY <1>1, <1>2 DEF StartRuns, ToInsert, Success, Boot
<1>4. StartSaves(r) => StartSaves(r)'
  BY <1>1, <1>2 DEF StartSaves, ToInsert, Success, Boot
<1> QED
  BY <1>3, <1>4

-----------------------------------------------------------------------------
LEMMA DefineModelsKeepsInv ==
  ASSUME SeedersInv, NEW r \in Replicas, DefineModels(r)
  PROVE  SeedersInv'
<1> USE DEF SeedersInv, DefineModels, ghosts
<1>1. /\ program' = [program EXCEPT ![r] = program'[r]] /\ run' = [run EXCEPT ![r] = run'[r]]
      /\ program'[r] = [program[r] EXCEPT !.bound = @ \cup Models] /\ run'[r] = run[r]
  BY DEF Typed, BindModel
<1>2. program'[r] \in Program /\ run'[r] \in [Runs -> Run]
  <2> DEFINE p == program[r]
           b == p.bound \cup Models
  <2>1. b \in SUBSET (Models \cup SchemaModels) /\ p \in Program
    BY FieldsTyped
  <2>2. [p EXCEPT !.bound = b] \in Program
    <3> HIDE DEF p, b
    <3> QED
      BY <2>1 DEF Program
  <2>3. program'[r] \in Program
    BY <1>1, <2>2
  <2> QED
    BY <1>1, <2>3 DEF Typed
<1>3. /\ program'[r].up = program[r].up /\ program'[r].tracking = program[r].tracking
      /\ program'[r].existInDB = program[r].existInDB
      /\ program'[r].find = program[r].find /\ program'[r].save = program[r].save
  BY <1>1, FieldsTyped DEF Program
<1>4. Typed' /\ \A o \in Replicas \ {r} : program'[o] = program[o] /\ run'[o] = run[o]
  BY <1>1, <1>2, OthersTyped DEF Typed
<1>5. Honest'
  BY <1>1, <1>3, <1>4, OthersHonest DEF Honest
<1>6. Starting'
  <2>1. StartsAlone(r)' /\ Prepared(r)' /\ OfSchemas(r)'
    BY <1>1, <1>3 DEF Starting, StartsAlone, Prepared, OfSchemas
  <2> QED
    BY <1>4, <2>1, OthersStart
<1>7. Running(r)' <=> Running(r)
  BY <1>1 DEF Running
<1>8. ASSUME Always \cap Boot = {}, ~excused
      PROVE  StartRuns(r)' /\ StartSaves(r)'
  <2>1. StartRuns(r) /\ StartSaves(r)
    BY <1>8 DEF Calm
  <2> QED
    BY <1>1, <1>3, <2>1, StartKept
<1>9. Calm'
  BY <1>4, <1>7, <1>8, OthersCalm DEF Boot
<1> QED
  BY <1>4, <1>5, <1>6, <1>9

\* runAndSaveSeeders() begins: with what was prepared, or untracked.
LEMMA BeginFacts ==
  ASSUME Typed, NEW r \in Replicas, NEW u \in Runs, NEW find \in Seq(Names)
  PROVE  /\ Begin(r, u, find) \in Run
         /\ Begin(r, u, find).pc = IF program[r].tracking THEN "finding" ELSE "running"
         /\ Begin(r, u, find).left = SeedersOf(u) /\ Begin(r, u, find).data = find
         /\ Begin(r, u, find).tracked = program[r].tracking /\ Begin(r, u, find).done = {}
<1>1. SeedersOf(u) \in Seq(Names)
  <2>1. \A m \in SchemaModels : <<m>> \in Seq(Names)
    BY DEF Names
  <2> QED
    BY <2>1, Registered DEF SeedersOf, Runs
<1>2. program[r].tracking \in BOOLEAN
  BY FieldsTyped
<1> QED
  BY <1>1, <1>2 DEF Begin, Idle, Run

\* When a run begins in r and nothing excuses it, no other replica runs any.
LEMMA StartsFacts ==
  ASSUME Typed, NEW r \in Replicas, NEW u \in Runs, NEW task \in Run, Starts(r, u, task)
  PROVE  /\ run' = [run EXCEPT ![r] = run'[r]] /\ run'[r] \in [Runs -> Run]
         /\ run'[r][u] = task /\ \A v \in Runs \ {u} : run'[r][v] = run[r][v]
         /\ excused => excused'
         /\ excused' \/ \A o \in Replicas \ {r} : ~Running(o)
BY DEF Starts, Typed

LEMMA ConnectKeepsInv ==
  ASSUME SeedersInv, NEW r \in Replicas, Connect(r)
  PROVE  SeedersInv'
<1> USE DEF SeedersInv, ghosts
<1>1. ~program[r].up /\ run[r]["start"].pc = "none" /\ "start" \in Runs
  BY DEF Connect, Runs
<1>2. program[r].tracking /\ program[r].find = registered /\ program[r].save = <<>>
  BY <1>1 DEF Starting, Prepared
<1>3. UNCHANGED <<registered, records, succeeded, completed, reran>>
  BY DEF Connect
<1>4. CASE registered = <<>>
  <2>1. /\ program' = [program EXCEPT ![r] = program'[r]] /\ run' = [run EXCEPT ![r] = run'[r]]
        /\ program'[r] = [program[r] EXCEPT !.up = TRUE] /\ run' = run /\ excused' = excused
    BY <1>4 DEF Typed, Connect
  <2>2. program'[r] \in Program /\ run'[r] \in [Runs -> Run]
    BY <2>1, FieldsTyped DEF Program, Typed
  <2>3. /\ program'[r].up /\ program'[r].save = program[r].save
        /\ program'[r].existInDB = program[r].existInDB
    BY <2>1, FieldsTyped DEF Program
  <2>4. Typed' /\ \A o \in Replicas \ {r} : program'[o] = program[o] /\ run'[o] = run[o]
    BY <1>3, <2>1, <2>2, OthersTyped DEF Typed
  <2>5. Honest'
    BY <1>3, <2>1, <2>3, <2>4, OthersHonest DEF Honest
  <2>6. Starting'
    BY <1>1, <1>3, <2>1, <2>3, <2>4, OthersStart DEF Starting, StartsAlone, Prepared, OfSchemas
  <2>7. Running(r)' <=> Running(r)
    BY <2>1 DEF Running
  <2>8. StartRuns(r)' /\ StartSaves(r)'
    BY <1>1, <2>1 DEF StartRuns, StartSaves
  <2>9. Calm'
    BY <1>3, <2>1, <2>4, <2>7, <2>8, OthersCalm
  <2> QED
    BY <2>4, <2>5, <2>6, <2>9
<1>5. CASE registered # <<>>
  <2> DEFINE task == Begin(r, "start", program[r].find)
  <2>1. task \in Run /\ task.pc = "finding" /\ task.left = registered /\ task.data = registered
        /\ task.tracked /\ task.done = {} /\ registered \in Seq(Names)
    <3>1. program[r].find \in Seq(Names) /\ registered \in Seq(Names)
      BY <1>2, Registered
    <3>2. SeedersOf("start") = registered
      BY DEF SeedersOf
    <3> QED
      BY <1>1, <1>2, <3>1, <3>2, BeginFacts
  <2>2. /\ program' = [program EXCEPT ![r] = program'[r]]
        /\ program'[r] = [program[r] EXCEPT !.find = <<>>]
        /\ Starts(r, "start", task)
    BY <1>5 DEF Connect, ConsumeDataToQuery, Typed
  <2> HIDE DEF task
  <2>3. /\ run' = [run EXCEPT ![r] = run'[r]] /\ run'[r] \in [Runs -> Run]
        /\ run'[r]["start"] = task /\ \A v \in Runs \ {"start"} : run'[r][v] = run[r][v]
        /\ excused => excused'
        /\ excused' \/ \A o \in Replicas \ {r} : ~Running(o)
    BY <1>1, <2>1, <2>2, StartsFacts
  <2>4. program'[r] \in Program
    BY <2>2, FieldsTyped, EmptySequence DEF Program
  <2>5. /\ ~program'[r].up /\ program'[r].save = <<>>
        /\ program'[r].existInDB = program[r].existInDB
    BY <1>1, <1>2, <2>2, FieldsTyped DEF Program
  <2>6. Typed' /\ \A o \in Replicas \ {r} : program'[o] = program[o] /\ run'[o] = run[o]
    <3>1. \A u \in Runs :
            /\ run'[r][u].pc = "finding" => run'[r][u].data \in Seq(Names)
            /\ run'[r][u].pc = "saving" => run'[r][u].data \in Seq(Record)
      BY <2>1, <2>3 DEF Typed
    <3> QED
      BY <1>3, <2>2, <2>3, <2>4, <3>1, OthersTyped DEF Typed
  <2>7. Honest'
    BY <1>3, <2>1, <2>3, <2>5, <2>6, EmptySequence, OthersHonest DEF Honest
  <2>8. Starting'
    <3>1. \A m \in SchemaModels : run'[r][m] = run[r][m]
      BY <2>3, SeederConstants DEF Runs
    <3>2. StartsAlone(r) /\ OfSchemas(r)
      BY DEF Starting
    <3>3. StartsAlone(r)'
      BY <1>1, <2>5, <3>1, <3>2 DEF StartsAlone
    <3>4. Prepared(r)'
      BY <1>3, <2>1, <2>3, <2>5 DEF Prepared
    <3>5. OfSchemas(r)'
      BY <3>1, <3>2 DEF OfSchemas
    <3> QED
      BY <1>3, <2>6, <3>3, <3>4, <3>5, OthersStart
  <2>9. StartRuns(r)' /\ StartSaves(r)'
    BY <2>1, <2>3 DEF StartRuns, StartSaves
  <2>10. Calm'
    BY <1>3, <2>3, <2>6, <2>9, OthersCalm
  <2> QED
    BY <2>6, <2>7, <2>8, <2>10
<1> QED
  BY <1>4, <1>5

LEMMA ConnectFailsKeepsInv ==
  ASSUME SeedersInv, NEW r \in Replicas, ConnectFails(r)
  PROVE  SeedersInv'
<1> USE DEF SeedersInv, ConnectFails, ghosts
<1>1. "start" \in Runs
  BY DEF Runs
<1>2. /\ program' = [program EXCEPT ![r] = program'[r]] /\ run' = [run EXCEPT ![r] = run'[r]]
      /\ program' = program /\ run'[r]["start"] = [run[r]["start"] EXCEPT !.pc = "done"]
      /\ \A u \in Runs \ {"start"} : run'[r][u] = run[r][u]
      /\ DOMAIN run'[r] = Runs /\ run'[r] = [u \in Runs |-> run'[r][u]]
  BY <1>1 DEF Typed
<1>3. run'[r]["start"] \in Run /\ run'[r]["start"].pc = "done"
  <2>1. run[r]["start"] \in Run
    BY <1>1, FieldsTyped
  <2> QED
    BY <1>2, <2>1, SMTT(30) DEF Run
<1>4. program'[r] \in Program /\ run'[r] \in [Runs -> Run]
  BY <1>2, <1>3 DEF Typed
<1>5. Typed' /\ \A o \in Replicas \ {r} : program'[o] = program[o] /\ run'[o] = run[o]
  BY <1>2, <1>3, <1>4, OthersTyped, SMTT(30) DEF Typed
<1>6. Honest'
  BY <1>2, <1>3, <1>5, OthersHonest DEF Honest
<1>7. \A m \in SchemaModels : run'[r][m] = run[r][m]
  BY <1>2, SeederConstants DEF Runs
<1>8. Starting'
  <2>1. StartsAlone(r) /\ OfSchemas(r) /\ program' = program
    BY DEF Starting
  <2>2. StartsAlone(r)'
    BY <1>3, <1>7, <2>1 DEF StartsAlone
  <2>3. Prepared(r)'
    BY <1>3 DEF Prepared
  <2>4. OfSchemas(r)'
    BY <1>7, <2>1 DEF OfSchemas
  <2> QED
    BY <1>5, <2>2, <2>3, <2>4, OthersStart
<1>9. Running(r)' => Running(r)
  BY <1>2, <1>3 DEF Running
<1>10. StartRuns(r)' /\ StartSaves(r)'
  BY <1>3 DEF StartRuns, StartSaves
<1>11. Calm'
  BY <1>5, <1>9, <1>10, OthersCalm
<1> QED
  BY <1>5, <1>6, <1>8, <1>11

LEMMA GetModelKeepsInv ==
  ASSUME SeedersInv, NEW r \in Replicas, NEW m \in SchemaModels, GetModel(r, m)
  PROVE  SeedersInv'
<1> USE DEF SeedersInv, ghosts
<1> DEFINE prepared == [program[r] EXCEPT !.bound = @ \cup {m}, !.find = Append(@, m)]
           task == Begin(r, m, prepared.find)
<1>1. program[r].up /\ m \in Runs /\ m # "start" /\ m \in Names
  BY SeederConstants DEF GetModel, Runs, Names
<1>2. /\ prepared \in Program /\ prepared.find = Append(program[r].find, m) /\ prepared.up
      /\ prepared.save = program[r].save /\ prepared.existInDB = program[r].existInDB
      /\ prepared.find \in Seq(Names)
  <2>1. Append(program[r].find, m) \in Seq(Names)
    BY <1>1, FieldsTyped, AppendFacts
  <2> QED
    BY <1>1, <2>1, FieldsTyped DEF Program
<1>3. /\ program' = [program EXCEPT ![r] = program'[r]]
      /\ program'[r] \in {prepared, [prepared EXCEPT !.find = <<>>]}
      /\ Starts(r, m, task)
      /\ UNCHANGED <<registered, records, succeeded, completed, reran>>
  <2>1. AddDataToQuery(BindModel(program[r], {m}), "find", m) = prepared
    BY FieldsTyped DEF AddDataToQuery, BindModel, Program
  <2>2. GetModel(r, m) => Starts(r, m, task) /\ program' = [program EXCEPT ![r] =
            IF prepared.tracking THEN [prepared EXCEPT !.find = <<>>] ELSE prepared]
    BY <2>1 DEF GetModel, ConsumeDataToQuery
  <2> HIDE DEF prepared, task
  <2> QED
    BY <2>2 DEF Typed, GetModel
<1>4. task \in Run /\ task.pc \in {"finding", "running"} /\ task.left = <<m>> /\ task.done = {}
      /\ task.data \in Seq(Names)
  <2>1. SeedersOf(m) = <<m>>
    BY <1>1 DEF SeedersOf
  <2> DEFINE find == prepared.find
  <2>2. find \in Seq(Names)
    BY <1>2
  <2> HIDE DEF prepared, find
  <2>3. /\ Begin(r, m, find) \in Run
        /\ Begin(r, m, find).pc \in {"finding", "running"}
        /\ Begin(r, m, find).left = <<m>> /\ Begin(r, m, find).done = {}
        /\ Begin(r, m, find).data = find
    BY <1>1, <2>1, <2>2, BeginFacts
  <2> QED
    BY <2>2, <2>3 DEF find
<1> HIDE DEF prepared, task
<1>5. /\ run' = [run EXCEPT ![r] = run'[r]] /\ run'[r] \in [Runs -> Run]
      /\ run'[r][m] = task /\ \A v \in Runs \ {m} : run'[r][v] = run[r][v]
      /\ excused => excused'
      /\ excused' \/ \A o \in Replicas \ {r} : ~Running(o)
  BY <1>1, <1>3, <1>4, StartsFacts
<1>6. program'[r] \in Program
  <2>1. prepared \in Program /\ <<>> \in Seq(Names)
    BY <1>2, EmptySequence
  <2>2. [prepared EXCEPT !.find = <<>>] \in Program
    BY <2>1 DEF Program
  <2> QED
    BY <1>3, <2>1, <2>2
<1>7. program'[r].up /\ program'[r].save = program[r].save
      /\ program'[r].existInDB = program[r].existInDB
  BY <1>2, <1>3 DEF Program
<1>8. Typed' /\ \A o \in Replicas \ {r} : program'[o] = program[o] /\ run'[o] = run[o]
  <2>1. \A u \in Runs :
          /\ run'[r][u].pc = "finding" => run'[r][u].data \in Seq(Names)
          /\ run'[r][u].pc = "saving" => run'[r][u].data \in Seq(Record)
    BY <1>4, <1>5 DEF Typed
  <2> QED
    BY <1>3, <1>5, <1>6, <2>1, OthersTyped DEF Typed
<1>9. Honest'
  BY <1>3, <1>4, <1>5, <1>7, <1>8, OthersHonest DEF Honest
<1>10. run'[r]["start"] = run[r]["start"] /\ run[r]["start"].pc \notin {"finding", "running", "saving"}
  BY <1>1, <1>5 DEF Runs, Starting, StartsAlone
<1>11. Starting'
  <2>1. ToSet(<<m>>) \subseteq {m}
    BY DEF ToSet
  <2>2. OfSchemas(r)'
    <3> SUFFICES ASSUME NEW n \in SchemaModels
                 PROVE  ToSet(run'[r][n].left) \subseteq {n} /\ run'[r][n].done \subseteq {n}
      BY DEF OfSchemas
    <3>1. CASE n = m
      BY <1>4, <1>5, <2>1, <3>1
    <3>2. CASE n # m
      BY <1>5, <3>2 DEF Runs, Starting, OfSchemas
    <3> QED
      BY <3>1, <3>2
  <2> QED
    BY <1>3, <1>7, <1>8, <1>10, <2>2, OthersStart DEF StartsAlone, Prepared
<1>12. StartRuns(r)' /\ StartSaves(r)'
  BY <1>10 DEF StartRuns, StartSaves
<1>13. Calm'
  BY <1>3, <1>5, <1>8, <1>12, OthersCalm
<1> QED
  BY <1>8, <1>9, <1>11, <1>13

-----------------------------------------------------------------------------
\* One run of r is changed.
LEMMA RunStep ==
  ASSUME Typed, NEW r \in Replicas, NEW u \in Runs, NEW task \in Run,
         run' = [run EXCEPT ![r] = [run[r] EXCEPT ![u] = task]]
  PROVE  /\ run' = [run EXCEPT ![r] = run'[r]] /\ run'[r] \in [Runs -> Run]
         /\ run'[r][u] = task /\ \A v \in Runs \ {u} : run'[r][v] = run[r][v]
BY DEF Typed

\* The run of a schema has begun only after the start has ended.
LEMMA SchemaRuns ==
  ASSUME Starting, NEW r \in Replicas, NEW m \in SchemaModels, run[r][m].pc # "none"
  PROVE  /\ program[r].up /\ run[r]["start"].pc \notin {"finding", "running", "saving"}
         /\ m # "start" /\ m \notin Boot
BY SeederConstants DEF Starting, StartsAlone, Boot

\* A step of the run u of r that leaves it no more than it was: what remains to
\* be shown is about r alone.
LEMMA RunStepKeepsStarting ==
  ASSUME Starting, NEW r \in Replicas, NEW u \in Runs, UNCHANGED registered,
         \A o \in Replicas \ {r} : program'[o] = program[o] /\ run'[o] = run[o],
         \A v \in Runs \ {u} : run'[r][v] = run[r][v],
         run[r][u].pc \in {"finding", "running", "saving"}, run'[r][u].pc \notin {"none", "finding"},
         run'[r][u].pc = "running" =>
           run'[r][u].tracked = run[r][u].tracked /\ run[r][u].pc \in {"finding", "running"},
         program'[r].up = program[r].up \/ (program'[r].up /\ run'[r][u].pc = "done"),
         u \in SchemaModels => ToSet(run'[r][u].left) \subseteq {u} /\ run'[r][u].done \subseteq {u}
  PROVE  Starting'
<1>1. StartsAlone(r) /\ Prepared(r) /\ OfSchemas(r) /\ "start" \notin SchemaModels
      /\ SchemaModels \subseteq Runs /\ "start" \in Runs
  BY SeederConstants DEF Starting, Runs
<1>2. CASE u = "start"
  <2>1. \A m \in SchemaModels : run'[r][m] = run[r][m]
    BY <1>1, <1>2
  <2>2. StartsAlone(r)'
    BY <1>1, <1>2, <2>1 DEF StartsAlone
  <2>3. Prepared(r)'
    BY <1>1, <1>2 DEF Prepared
  <2>4. OfSchemas(r)'
    BY <1>1, <2>1 DEF OfSchemas
  <2> QED
    BY <2>2, <2>3, <2>4, OthersStart
<1>3. CASE u # "start"
  <2>1. u \in SchemaModels /\ run'[r]["start"] = run[r]["start"]
    BY <1>1, <1>3 DEF Runs
  <2>2. program[r].up /\ program'[r].up /\ run[r]["start"].pc \notin {"finding", "running", "saving"}
    BY <2>1, SchemaRuns
  <2>3. StartsAlone(r)' /\ Prepared(r)'
    BY <2>1, <2>2 DEF StartsAlone, Prepared
  <2>4. OfSchemas(r)'
    BY <1>1, <2>1 DEF OfSchemas
  <2> QED
    BY <2>3, <2>4, OthersStart
<1> QED
  BY <1>2, <1>3

LEMMA FoundKeepsInv ==
  ASSUME SeedersInv, NEW r \in Replicas, NEW u \in Runs, Found(r, u)
  PROVE  SeedersInv'
<1> USE DEF SeedersInv, ghosts
<1> DEFINE old == run[r][u]
           p == program[r]
           known == {s \in ToSet(old.data) : Success(s) \in records}
           task == [old EXCEPT !.pc = "running", !.data = <<>>]
           next == [p EXCEPT !.existInDB = @ \cup known, !.tracking = FALSE]
<1>1. /\ old.pc = "finding" /\ old \in Run /\ p \in Program /\ old.data \in Seq(Names)
      /\ program' = [program EXCEPT ![r] = next]
      /\ run' = [run EXCEPT ![r] = [run[r] EXCEPT ![u] = task]]
      /\ UNCHANGED <<registered, records, succeeded, completed, reran, excused>>
  BY FieldsTyped DEF Found, Typed, Success
<1>2. known \subseteq Names /\ \A s \in known : s \in succeeded
  <2>1. ToSet(old.data) \subseteq Names
    BY <1>1 DEF ToSet
  <2> QED
    BY <2>1 DEF Honest
<1>3. /\ task \in Run /\ task.pc = "running" /\ task.left = old.left /\ task.done = old.done
      /\ task.tracked = old.tracked
  <2> HIDE DEF old
  <2> QED
    BY <1>1, EmptySequence DEF Run
<1>4. /\ next \in Program /\ next.up = p.up /\ next.save = p.save
      /\ next.existInDB = p.existInDB \cup known
  <2> HIDE DEF p, known
  <2> QED
    BY <1>1, <1>2 DEF Program
<1>5. program'[r] = next /\ program' = [program EXCEPT ![r] = program'[r]]
  BY <1>1 DEF Typed
<1> HIDE DEF task, next
<1>6. /\ run' = [run EXCEPT ![r] = run'[r]] /\ run'[r] \in [Runs -> Run]
      /\ run'[r][u] = task /\ \A v \in Runs \ {u} : run'[r][v] = run[r][v]
  BY <1>1, <1>3, RunStep
<1>7. Typed' /\ \A o \in Replicas \ {r} : program'[o] = program[o] /\ run'[o] = run[o]
  <2>1. \A v \in Runs :
          /\ run'[r][v].pc = "finding" => run'[r][v].data \in Seq(Names)
          /\ run'[r][v].pc = "saving" => run'[r][v].data \in Seq(Record)
    BY <1>3, <1>6 DEF Typed
  <2> QED
    BY <1>1, <1>4, <1>5, <1>6, <2>1, OthersTyped DEF Typed
<1>8. Honest'
  BY <1>1, <1>2, <1>3, <1>4, <1>5, <1>6, <1>7, OthersHonest DEF Honest
<1>9. Starting'
  <2>1. u \in SchemaModels => ToSet(run'[r][u].left) \subseteq {u} /\ run'[r][u].done \subseteq {u}
    BY <1>3, <1>6 DEF Starting, OfSchemas
  <2>2. program'[r].up = program[r].up
    BY <1>4, <1>5
  <2> QED
    BY <1>1, <1>3, <1>6, <1>7, <2>1, <2>2, RunStepKeepsStarting, ZenonT(30)
<1>10. Running(r)
  BY <1>1 DEF Running
<1>11. StartRuns(r)' /\ StartSaves(r)'
  <2>1. CASE u = "start"
    <3>1. /\ p.save = <<>> /\ old.done = {} /\ old.data = registered /\ old.left = registered
      BY <1>1, <2>1 DEF Starting, Prepared
    <3>2. StartRuns(r)'
      BY <1>1, <1>3, <1>4, <1>5, <1>6, <2>1, <3>1, Registered, EmptySequence
      DEF StartRuns, ToInsert
    <3> QED
      BY <1>3, <1>6, <2>1, <3>2 DEF StartSaves
  <2>2. CASE u # "start"
    <3>1. run'[r]["start"] = run[r]["start"] /\ u \in SchemaModels
      BY <1>6, <2>2 DEF Runs
    <3>2. run'[r]["start"].pc \notin {"running", "saving"}
      BY <1>1, <3>1, SchemaRuns
    <3> QED
      BY <3>2 DEF StartRuns, StartSaves
  <2> QED
    BY <2>1, <2>2
<1>12. Calm'
  BY <1>1, <1>7, <1>10, <1>11, OthersCalm
<1> QED
  BY <1>7, <1>8, <1>9, <1>12

LEMMA SkipKeepsInv ==
  ASSUME SeedersInv, NEW r \in Replicas, NEW u \in Runs, Skip(r, u)
  PROVE  SeedersInv'
<1> USE DEF SeedersInv, ghosts
<1> DEFINE old == run[r][u]
           task == [old EXCEPT !.left = Tail(@)]
<1>1. /\ old.pc = "running" /\ old.left # <<>> /\ old \in Run /\ old.left \in Seq(Names)
      /\ program' = program
      /\ run' = [run EXCEPT ![r] = [run[r] EXCEPT ![u] = task]]
      /\ UNCHANGED <<registered, records, succeeded, completed, reran, excused>>
  BY FieldsTyped DEF Skip, Typed
<1>2. /\ Tail(old.left) \in Seq(Names)
      /\ ToSet(old.left) = {Head(old.left)} \cup ToSet(Tail(old.left))
      /\ IsInjective(old.left) => IsInjective(Tail(old.left))
  BY <1>1, TailFacts
<1>3. /\ task \in Run /\ task.pc = "running" /\ task.left = Tail(old.left) /\ task.done = old.done
      /\ task.tracked = old.tracked
  <2> HIDE DEF old
  <2> QED
    BY <1>1, <1>2 DEF Run
<1>4. program' = [program EXCEPT ![r] = program'[r]] /\ program'[r] \in Program
  BY <1>1 DEF Typed
<1> HIDE DEF task
<1>5. /\ run' = [run EXCEPT ![r] = run'[r]] /\ run'[r] \in [Runs -> Run]
      /\ run'[r][u] = task /\ \A v \in Runs \ {u} : run'[r][v] = run[r][v]
  BY <1>1, <1>3, RunStep
<1>6. Typed' /\ \A o \in Replicas \ {r} : program'[o] = program[o] /\ run'[o] = run[o]
  <2>1. \A v \in Runs :
          /\ run'[r][v].pc = "finding" => run'[r][v].data \in Seq(Names)
          /\ run'[r][v].pc = "saving" => run'[r][v].data \in Seq(Record)
    BY <1>3, <1>5 DEF Typed
  <2> QED
    BY <1>1, <1>4, <1>5, <2>1, OthersTyped DEF Typed
<1>7. Honest'
  BY <1>1, <1>3, <1>5, <1>6, OthersHonest DEF Honest
<1>8. Starting'
  <2>1. u \in SchemaModels => ToSet(run'[r][u].left) \subseteq {u} /\ run'[r][u].done \subseteq {u}
    BY <1>2, <1>3, <1>5 DEF Starting, OfSchemas
  <2>2. /\ run[r][u].pc = "running" /\ run'[r][u].pc = "running"
        /\ run'[r][u].tracked = run[r][u].tracked /\ program'[r].up = program[r].up
        /\ UNCHANGED registered
    BY <1>1, <1>3, <1>5
  <2> QED
    BY <1>5, <1>6, <2>1, <2>2, RunStepKeepsStarting
<1>9. Running(r)
  BY <1>1 DEF Running
<1>10. ASSUME Always \cap Boot = {}, ~excused
       PROVE  StartRuns(r)' /\ StartSaves(r)'
  <2>1. StartRuns(r) /\ StartSaves(r)
    BY <1>10 DEF Calm
  <2>2. CASE u = "start"
    <3>1. StartRuns(r)'
      BY <1>1, <1>2, <1>3, <1>5, <2>1, <2>2 DEF StartRuns, ToInsert, Success, Boot
    <3> QED
      BY <1>3, <1>5, <2>2, <3>1 DEF StartSaves
  <2>3. CASE u # "start"
    <3>1. run'[r]["start"] = run[r]["start"]
      BY <1>5, <2>3 DEF Runs
    <3> QED
      BY <1>1, <2>1, <3>1, StartKept
  <2> QED
    BY <2>2, <2>3
<1>11. Calm'
  BY <1>1, <1>6, <1>9, <1>10, OthersCalm DEF Boot
<1> QED
  BY <1>6, <1>7, <1>8, <1>11

\* seederBaseWrapper() runs the handler of the next seeder, which succeeds or
\* fails, and prepares its record.
LEMMA HandlerFacts ==
  ASSUME SeedersInv, NEW r \in Replicas, NEW u \in Runs,
         NEW status \in {"success", "failed"}, Handler(r, u, status),
         NEW s, s = Current(r, u)
  PROVE  /\ s \in Names /\ s \in ToSet(run[r][u].left) /\ run[r][u].pc = "running"
         /\ program' = [program EXCEPT ![r] = program'[r]] /\ program'[r] \in Program
         /\ program'[r].up = program[r].up /\ program'[r].existInDB = program[r].existInDB
         /\ program'[r].save = Append(program[r].save, [name |-> s, status |-> status])
         /\ ToSet(program'[r].save) = ToSet(program[r].save) \cup {[name |-> s, status |-> status]}
         /\ run' = [run EXCEPT ![r] = run'[r]] /\ run'[r] \in [Runs -> Run]
         /\ run'[r][u].pc = "running" /\ run'[r][u].tracked = run[r][u].tracked
         /\ run'[r][u].left = Tail(run[r][u].left)
         /\ run'[r][u].done = IF status = "success" THEN run[r][u].done \cup {s} ELSE run[r][u].done
         /\ \A v \in Runs \ {u} : run'[r][v] = run[r][v]
<1> USE DEF SeedersInv
<1> DEFINE old == run[r][u]
           p == program[r]
           new == [name |-> s, status |-> status]
           done == IF status = "success" THEN old.done \cup {s} ELSE old.done
           task == [old EXCEPT !.left = Tail(@), !.done = done]
           next == [p EXCEPT !.save = Append(@, new)]
<1>1. /\ old.pc = "running" /\ old.left # <<>> /\ old \in Run /\ old.left \in Seq(Names)
      /\ old.done \subseteq Names /\ p \in Program /\ p.save \in Seq(Record)
  BY FieldsTyped DEF Handler
<1>2. /\ s \in Names /\ s \in ToSet(old.left) /\ Tail(old.left) \in Seq(Names)
  BY <1>1, TailFacts DEF Current
<1>3. new \in Record /\ done \subseteq Names
  BY <1>1, <1>2 DEF Record
<1>4. /\ Append(p.save, new) \in Seq(Record)
      /\ ToSet(Append(p.save, new)) = ToSet(p.save) \cup {new}
  <2> HIDE DEF new
  <2> QED
    BY <1>1, <1>3, AppendFacts
<1>5. program' = [program EXCEPT ![r] = next]
  BY DEF Handler, OnFinish, AddDataToQuery
<1>6. run' = [run EXCEPT ![r] = [run[r] EXCEPT ![u] = task]]
  BY DEF Handler
<1>7. /\ task \in Run /\ task.pc = "running" /\ task.left = Tail(old.left) /\ task.done = done
      /\ task.tracked = old.tracked
  <2> HIDE DEF old, done
  <2> QED
    BY <1>1, <1>2, <1>3 DEF Run
<1>8. /\ next \in Program /\ next.up = p.up /\ next.existInDB = p.existInDB
      /\ next.save = Append(p.save, new)
  <2> HIDE DEF p, new
  <2> QED
    BY <1>1, <1>4 DEF Program
<1> HIDE DEF task, next
<1>9. program'[r] = next /\ program' = [program EXCEPT ![r] = program'[r]]
  BY <1>5 DEF Typed
<1>10. /\ run' = [run EXCEPT ![r] = run'[r]] /\ run'[r] \in [Runs -> Run]
       /\ run'[r][u] = task /\ \A v \in Runs \ {u} : run'[r][v] = run[r][v]
  BY <1>6, <1>7, RunStep
<1> QED
  BY <1>1, <1>2, <1>4, <1>7, <1>8, <1>9, <1>10

LEMMA HandlerKeepsInv ==
  ASSUME SeedersInv, NEW r \in Replicas, NEW u \in Runs,
         Succeeds(r, u) \/ HandlerFails(r, u)
  PROVE  SeedersInv'
<1> USE DEF SeedersInv
<1> DEFINE s == Current(r, u)
<1>1. PICK status \in {"success", "failed"} :
        /\ Handler(r, u, status)
        /\ succeeded' = IF status = "success" THEN succeeded \cup {s} ELSE succeeded
        /\ excused' = IF status = "success" THEN excused ELSE TRUE
  BY DEF Succeeds, HandlerFails
<1> DEFINE new == [name |-> s, status |-> status]
<1>2. /\ s \in Names /\ s \in ToSet(run[r][u].left) /\ run[r][u].pc = "running"
      /\ program' = [program EXCEPT ![r] = program'[r]] /\ program'[r] \in Program
      /\ program'[r].up = program[r].up /\ program'[r].existInDB = program[r].existInDB
      /\ program'[r].save = Append(program[r].save, new)
      /\ ToSet(program'[r].save) = ToSet(program[r].save) \cup {new}
      /\ run' = [run EXCEPT ![r] = run'[r]] /\ run'[r] \in [Runs -> Run]
      /\ run'[r][u].pc = "running" /\ run'[r][u].tracked = run[r][u].tracked
      /\ run'[r][u].left = Tail(run[r][u].left)
      /\ run'[r][u].done = IF status = "success" THEN run[r][u].done \cup {s} ELSE run[r][u].done
      /\ \A v \in Runs \ {u} : run'[r][v] = run[r][v]
  BY <1>1, HandlerFacts
<1>3. /\ UNCHANGED <<registered, records, completed>>
      /\ ~AvoidRun(r, s) /\ reran' = IF s \in completed \ Always THEN reran \cup {s} ELSE reran
      /\ s = Head(run[r][u].left) /\ run[r][u].left # <<>> /\ run[r][u].left \in Seq(Names)
  BY <1>1, FieldsTyped DEF Handler, Current
<1>4. /\ ToSet(run[r][u].left) = {s} \cup ToSet(Tail(run[r][u].left))
      /\ IsInjective(run[r][u].left) =>
           IsInjective(Tail(run[r][u].left)) /\ s \notin ToSet(Tail(run[r][u].left))
  BY <1>3, TailFacts
<1>5. program[r].save \in Seq(Record) /\ new \in Record
  BY <1>2, FieldsTyped DEF Record
<1> HIDE DEF s
<1>6. Typed' /\ \A o \in Replicas \ {r} : program'[o] = program[o] /\ run'[o] = run[o]
  <2>1. \A v \in Runs :
          /\ run'[r][v].pc = "finding" => run'[r][v].data \in Seq(Names)
          /\ run'[r][v].pc = "saving" => run'[r][v].data \in Seq(Record)
    BY <1>2 DEF Typed
  <2>2. succeeded' \subseteq Names /\ completed' \subseteq Names /\ reran' \subseteq Names
        /\ records' \subseteq Record
    BY <1>1, <1>2, <1>3 DEF Typed
  <2> QED
    BY <1>2, <1>3, <2>1, <2>2, OthersTyped
<1>7. Honest'
  <2>1. succeeded \subseteq succeeded'
    BY <1>1
  <2>2. \A t \in Names : Success(t) = new => t \in succeeded'
    BY <1>1 DEF Success
  <2>3. \A t \in Names :
          /\ Success(t) \in records' => Success(t) \in records \/ t \in succeeded'
          /\ t \in program'[r].existInDB => t \in succeeded'
          /\ Success(t) \in ToSet(program'[r].save) => t \in succeeded'
          /\ \A v \in Runs :
               run'[r][v].pc = "saving" /\ Success(t) \in ToSet(run'[r][v].data) => t \in succeeded'
    BY <1>2, <1>3, <2>1, <2>2 DEF Honest
  <2> QED
    BY <1>6, <2>1, <2>3, OthersHonest
<1>8. Starting'
  <2>1. u \in SchemaModels => ToSet(run'[r][u].left) \subseteq {u} /\ run'[r][u].done \subseteq {u}
    BY <1>2, <1>4 DEF Starting, OfSchemas
  <2> QED
    BY <1>2, <1>3, <1>6, <2>1, RunStepKeepsStarting
<1>9. Running(r)
  BY <1>2 DEF Running
<1>10. ASSUME Always \cap Boot = {}, ~excused'
       PROVE  reran' \cap Boot \subseteq reran /\ StartRuns(r)' /\ StartSaves(r)'
  <2>1. /\ StartRuns(r) /\ StartSaves(r) /\ status = "success" /\ new = Success(s)
        /\ \A t \in completed \cap Boot : Success(t) \in records
    BY <1>1, <1>10 DEF Calm, Success
  <2>2. CASE u = "start"
    <3>1. /\ IsInjective(run[r][u].left) /\ ToSet(run[r][u].left) \subseteq Boot
          /\ ToInsert(program[r].save)
          /\ \A t \in ToSet(run[r][u].left) :
               /\ Success(t) \notin ToSet(program[r].save)
               /\ Success(t) \in records => t \in program[r].existInDB
          /\ \A t \in run[r][u].done : Success(t) \in records \cup ToSet(program[r].save)
      BY <1>2, <2>1, <2>2 DEF StartRuns
    <3>2. s \in Boot /\ Success(s) \notin records /\ Success(s) \notin ToSet(program[r].save)
      BY <1>2, <1>3, <1>10, <3>1 DEF AvoidRun
    <3>3. ToInsert(program'[r].save)
      <4>1. IsInjective(program'[r].save)
        BY <1>2, <1>5, <2>1, <3>1, <3>2, AppendFacts DEF ToInsert
      <4>2. \A x \in ToSet(program'[r].save) : x \notin records /\ \E t \in Boot : x = Success(t)
        <5>1. \A x \in ToSet(program[r].save) : x \notin records /\ \E t \in Boot : x = Success(t)
          BY <3>1 DEF ToInsert, ToSet
        <5>2. new \notin records /\ \E t \in Boot : new = Success(t)
          BY <2>1, <3>2
        <5> QED
          BY <1>2, <5>1, <5>2
      <4> QED
        BY <4>1, <4>2 DEF ToInsert, ToSet
    <3>4. ToInsert(program[r].save)'
      BY <1>3, <3>3 DEF ToInsert, Success, Boot
    <3>5. \A t \in ToSet(run'[r][u].left) :
            /\ Success(t) \notin ToSet(program'[r].save)
            /\ Success(t) \in records' => t \in program'[r].existInDB
      BY <1>2, <1>3, <1>4, <2>1, <3>1 DEF Success
    <3>6. \A t \in run'[r][u].done : Success(t) \in records' \cup ToSet(program'[r].save)
      BY <1>2, <1>3, <2>1, <3>1, ZenonT(30)
    <3>7. IsInjective(run'[r][u].left) /\ ToSet(run'[r][u].left) \subseteq Boot
      BY <1>2, <1>4, <3>1
    <3>8. StartRuns(r)'
      BY <2>2, <3>4, <3>5, <3>6, <3>7 DEF StartRuns, Success, Boot
    <3>9. StartSaves(r)'
      BY <1>2, <2>2 DEF StartSaves
    <3>10. reran' = reran
      BY <1>3, <2>1, <3>2
    <3> QED
      BY <3>8, <3>9, <3>10
  <2>3. CASE u # "start"
    <3>1. run'[r]["start"] = run[r]["start"] /\ u \in SchemaModels
      BY <1>2, <2>3 DEF Runs
    <3>2. run'[r]["start"].pc \notin {"running", "saving"} /\ u \notin Boot
      BY <1>2, <3>1, SchemaRuns
    <3>3. s = u
      BY <1>2, <3>1, SMTT(30) DEF Starting, OfSchemas
    <3> QED
      BY <1>3, <3>2, <3>3 DEF StartRuns, StartSaves
  <2> QED
    BY <2>2, <2>3
<1>11. Calm'
  <2>1. excused => excused'
    BY <1>1
  <2> QED
    BY <1>3, <1>6, <1>9, <1>10, <2>1, OthersCalm DEF Boot
<1> QED
  BY <1>6, <1>7, <1>8, <1>11

-----------------------------------------------------------------------------
\* A run ends: what it did is completed.
LEMMA EndFacts ==
  ASSUME Typed, NEW r \in Replicas, NEW u \in Runs, End(r, u)
  PROVE  /\ run' = [run EXCEPT ![r] = run'[r]] /\ run'[r] \in [Runs -> Run]
         /\ run'[r][u].pc = "done" /\ run'[r][u].left = <<>> /\ run'[r][u].done = {}
         /\ \A v \in Runs \ {u} : run'[r][v] = run[r][v]
         /\ completed' = completed \cup run[r][u].done /\ completed' \subseteq Names
<1> DEFINE task == [Idle EXCEPT !.pc = "done"]
<1>1. task \in Run /\ task.pc = "done" /\ task.left = <<>> /\ task.done = {}
  BY EmptySequence DEF Idle, Run
<1>2. run' = [run EXCEPT ![r] = [run[r] EXCEPT ![u] = task]]
  BY DEF End
<1>3. completed' = completed \cup run[r][u].done /\ run[r][u].done \subseteq Names
      /\ completed \subseteq Names
  BY FieldsTyped DEF End, Typed
<1> HIDE DEF task
<1>4. /\ run' = [run EXCEPT ![r] = run'[r]] /\ run'[r] \in [Runs -> Run]
      /\ run'[r][u] = task /\ \A v \in Runs \ {u} : run'[r][v] = run[r][v]
  BY <1>1, <1>2, RunStep
<1>5. completed' \subseteq Names
  BY <1>3
<1> QED
  BY <1>1, <1>3, <1>4, <1>5

\* Whatever it saved, the connector is ready.
LEMMA EndKeepsInv ==
  ASSUME SeedersInv, NEW r \in Replicas, NEW u \in Runs, End(r, u),
         run[r][u].pc \in {"running", "saving"},
         program' = [program EXCEPT ![r].up = TRUE],
         UNCHANGED <<registered, records, succeeded, reran, excused>>,
         Always \cap Boot = {} /\ ~excused /\ u = "start" =>
           \A s \in run[r][u].done : Success(s) \in records
  PROVE  SeedersInv'
<1> USE DEF SeedersInv
<1> DEFINE p == program[r]
           next == [p EXCEPT !.up = TRUE]
<1>1. p \in Program /\ program' = [program EXCEPT ![r] = next]
  BY FieldsTyped
<1>2. next \in Program /\ next.up /\ next.save = p.save /\ next.existInDB = p.existInDB
  <2> HIDE DEF p
  <2> QED
    BY <1>1 DEF Program
<1> HIDE DEF next
<1>3. program'[r] = next /\ program' = [program EXCEPT ![r] = program'[r]]
  BY <1>1 DEF Typed
<1>4. /\ run' = [run EXCEPT ![r] = run'[r]] /\ run'[r] \in [Runs -> Run]
      /\ run'[r][u].pc = "done" /\ run'[r][u].left = <<>> /\ run'[r][u].done = {}
      /\ \A v \in Runs \ {u} : run'[r][v] = run[r][v]
      /\ completed' = completed \cup run[r][u].done /\ completed' \subseteq Names
  BY EndFacts
<1>5. Typed' /\ \A o \in Replicas \ {r} : program'[o] = program[o] /\ run'[o] = run[o]
  <2>1. \A v \in Runs :
          /\ run'[r][v].pc = "finding" => run'[r][v].data \in Seq(Names)
          /\ run'[r][v].pc = "saving" => run'[r][v].data \in Seq(Record)
    BY <1>4 DEF Typed
  <2>2. records' \subseteq Record /\ succeeded' \subseteq Names /\ reran' \subseteq Names
    BY DEF Typed
  <2> QED
    BY <1>2, <1>3, <1>4, <2>1, <2>2, OthersTyped
<1>6. Honest'
  BY <1>2, <1>3, <1>4, <1>5, OthersHonest DEF Honest
<1>7. Starting'
  <2>1. u \in SchemaModels => ToSet(run'[r][u].left) \subseteq {u} /\ run'[r][u].done \subseteq {u}
    BY <1>4, EmptySequence
  <2>2. program'[r].up
    BY <1>2, <1>3
  <2> QED
    BY <1>4, <1>5, <2>1, <2>2, RunStepKeepsStarting
<1>8. Running(r)
  BY DEF Running
<1>9. ASSUME Always \cap Boot = {}, ~excused
      PROVE  /\ \A s \in completed' \cap Boot : s \in completed \/ Success(s) \in records'
             /\ StartRuns(r)' /\ StartSaves(r)'
  <2>1. CASE u = "start"
    BY <1>4, <1>9, <2>1 DEF StartRuns, StartSaves
  <2>2. CASE u # "start"
    <3>1. run'[r]["start"] = run[r]["start"] /\ u \in SchemaModels
      BY <1>4, <2>2 DEF Runs
    <3>2. run'[r]["start"].pc \notin {"running", "saving"} /\ u \notin Boot
      BY <3>1, SchemaRuns
    <3>3. run[r][u].done \subseteq {u}
      BY <3>1 DEF Starting, OfSchemas
    <3> QED
      BY <1>4, <3>2, <3>3 DEF StartRuns, StartSaves
  <2> QED
    BY <2>1, <2>2
<1>10. Calm'
  BY <1>5, <1>8, <1>9, OthersCalm DEF Boot
<1> QED
  BY <1>5, <1>6, <1>7, <1>10

LEMMA RanKeepsInv ==
  ASSUME SeedersInv, NEW r \in Replicas, NEW u \in Runs, Ran(r, u)
  PROVE  SeedersInv'
<1> USE DEF SeedersInv
<1>1. /\ run[r][u].pc = "running"
      /\ UNCHANGED <<registered, records, succeeded, reran, excused>>
  BY DEF Ran
<1>2. CASE ~run[r][u].tracked
  <2>1. u # "start"
    BY <1>1, <1>2 DEF Starting, Prepared
  <2>2. End(r, u) /\ program' = [program EXCEPT ![r].up = TRUE]
    BY <1>2 DEF Ran
  <2> QED
    BY <1>1, <2>1, <2>2, EndKeepsInv
<1>3. CASE run[r][u].tracked
  <2> DEFINE old == run[r][u]
             p == program[r]
             saved == p.save
             task == [old EXCEPT !.pc = "saving", !.data = saved]
             next == [p EXCEPT !.save = <<>>]
  <2>1. old \in Run /\ p \in Program /\ saved \in Seq(Record)
        /\ program' = [program EXCEPT ![r] = next]
        /\ run' = [run EXCEPT ![r] = [run[r] EXCEPT ![u] = task]]
        /\ completed' = completed
    <3>1. old \in Run /\ p \in Program /\ saved \in Seq(Record)
      BY FieldsTyped
    <3>2. program' = [program EXCEPT ![r] = next] /\ completed' = completed
      BY <1>3 DEF Ran, ConsumeDataToQuery
    <3>3. run' = [run EXCEPT ![r] = [run[r] EXCEPT ![u] = task]]
      BY <1>3, ZenonT(30) DEF Ran, Typed
    <3> QED
      BY <3>1, <3>2, <3>3
  <2>2. task \in Run /\ task.pc = "saving" /\ task.data = saved /\ task.left = old.left /\ task.done = old.done
    <3> HIDE DEF old, saved
    <3> QED
      BY <2>1 DEF Run
  <2>3. next \in Program /\ next.up = p.up /\ next.save = <<>> /\ next.existInDB = p.existInDB
    <3> HIDE DEF p
    <3> QED
      BY <2>1, EmptySequence DEF Program
  <2> HIDE DEF task, next
  <2>4. program'[r] = next /\ program' = [program EXCEPT ![r] = program'[r]]
    BY <2>1 DEF Typed
  <2>5. /\ run' = [run EXCEPT ![r] = run'[r]] /\ run'[r] \in [Runs -> Run]
        /\ run'[r][u] = task /\ \A v \in Runs \ {u} : run'[r][v] = run[r][v]
    BY <2>1, <2>2, RunStep
  <2>6. Typed' /\ \A o \in Replicas \ {r} : program'[o] = program[o] /\ run'[o] = run[o]
    <3>1. \A v \in Runs :
            /\ run'[r][v].pc = "finding" => run'[r][v].data \in Seq(Names)
            /\ run'[r][v].pc = "saving" => run'[r][v].data \in Seq(Record)
      BY <2>1, <2>2, <2>5 DEF Typed
    <3>2. records' \subseteq Record /\ succeeded' \subseteq Names /\ completed' \subseteq Names
          /\ reran' \subseteq Names
      BY <1>1, <2>1 DEF Typed
    <3> QED
      BY <1>1, <2>3, <2>4, <2>5, <3>1, <3>2, OthersTyped
  <2>7. Honest'
    <3>1. \A s \in Names :
            /\ s \in program'[r].existInDB => s \in succeeded
            /\ Success(s) \notin ToSet(program'[r].save)
            /\ \A v \in Runs :
                 run'[r][v].pc = "saving" /\ Success(s) \in ToSet(run'[r][v].data) => s \in succeeded
      BY <2>2, <2>3, <2>4, <2>5, EmptySequence DEF Honest
    <3> QED
      BY <1>1, <2>6, <3>1, OthersHonest
  <2>8. Starting'
    <3>1. u \in SchemaModels => ToSet(run'[r][u].left) \subseteq {u} /\ run'[r][u].done \subseteq {u}
      BY <2>2, <2>5 DEF Starting, OfSchemas
    <3>2. run'[r][u].pc = "saving" /\ program'[r].up = program[r].up
      BY <2>2, <2>3, <2>4, <2>5
    <3> QED
      BY <1>1, <2>5, <2>6, <3>1, <3>2, RunStepKeepsStarting
  <2>9. Running(r)
    BY <1>1 DEF Running
  <2>10. ASSUME Always \cap Boot = {}, ~excused
         PROVE  StartRuns(r)' /\ StartSaves(r)'
    <3>1. StartRuns(r) /\ StartSaves(r)
      BY <2>10 DEF Calm
    <3>2. CASE u = "start"
      <4>1. /\ ToInsert(saved)
            /\ \A s \in old.done : Success(s) \in records \cup ToSet(saved)
        BY <1>1, <3>1, <3>2 DEF StartRuns
      <4>2. run'[r]["start"].pc = "saving" /\ run'[r]["start"].data = saved
            /\ run'[r]["start"].done = old.done
        BY <2>2, <2>5, <3>2
      <4> HIDE DEF saved, old
      <4>3. ToInsert(run[r]["start"].data)'
        BY <1>1, <4>1, <4>2 DEF ToInsert, Success, Boot
      <4> QED
        BY <1>1, <4>1, <4>2, <4>3 DEF StartRuns, StartSaves, Success
    <3>3. CASE u # "start"
      <4>1. run'[r]["start"] = run[r]["start"] /\ u \in SchemaModels
        BY <2>5, <3>3 DEF Runs
      <4>2. run'[r]["start"].pc \notin {"running", "saving"}
        BY <1>1, <4>1, SchemaRuns
      <4> QED
        BY <4>2 DEF StartRuns, StartSaves
    <3> QED
      BY <3>2, <3>3
  <2>11. Calm'
    BY <1>1, <2>1, <2>6, <2>9, <2>10, OthersCalm DEF Boot
  <2> QED
    BY <2>6, <2>7, <2>8, <2>11
<1> QED
  BY <1>2, <1>3

LEMMA InsertKeepsInv ==
  ASSUME SeedersInv, NEW r \in Replicas, NEW u \in Runs, Insert(r, u)
  PROVE  SeedersInv'
<1> USE DEF SeedersInv
<1> DEFINE old == run[r][u]
           data == old.data
<1>1. /\ old.pc = "saving" /\ old \in Run /\ data \in Seq(Record)
      /\ UNCHANGED <<registered, succeeded, reran, excused>>
      /\ u = "start" => ~program[r].up
  <2>1. u = "start" /\ old.pc = "saving" => ~program[r].up
    BY DEF Starting, StartsAlone
  <2> QED
    BY <2>1, FieldsTyped DEF Insert, Typed
\* The record is there, or none is left.
<1>2. CASE data = <<>> \/ data[1] \in records
  <2>1. End(r, u) /\ program' = [program EXCEPT ![r].up = TRUE] /\ records' = records
    BY <1>2 DEF Insert
  <2>2. ASSUME Always \cap Boot = {}, ~excused, u = "start"
        PROVE  \A s \in old.done : Success(s) \in records
    <3>1. ToInsert(data) /\ \A s \in old.done : Success(s) \in records \cup ToSet(data)
      BY <1>1, <2>2 DEF Calm, StartSaves
    <3>2. CASE data = <<>>
      BY <3>1, <3>2, EmptySequence
    <3>3. CASE data # <<>>
      <4>1. 1 \in DOMAIN data
        BY <1>1, <3>3
      <4> QED
        BY <1>2, <3>1, <3>3, <4>1 DEF ToInsert
    <3> QED
      BY <3>2, <3>3
  <2> QED
    BY <1>1, <2>1, <2>2, EndKeepsInv DEF Boot
<1>3. CASE data # <<>> /\ data[1] \notin records
  <2> DEFINE rest == Tail(data)
             task == [old EXCEPT !.data = rest]
             first == data[1]
  <2>1. /\ records' = records \cup {first} /\ program' = program /\ completed' = completed
        /\ run' = [run EXCEPT ![r] = [run[r] EXCEPT ![u] = task]]
    BY <1>3 DEF Insert
  <2>2. /\ first \in Record /\ Tail(data) \in Seq(Record) /\ first = Head(data)
        /\ ToSet(data) = {first} \cup ToSet(Tail(data))
        /\ IsInjective(data) => IsInjective(Tail(data)) /\ first \notin ToSet(Tail(data))
    <3>1. first = Head(data)
      BY <1>1, <1>3
    <3> QED
      BY <1>1, <1>3, <3>1, TailFacts
  <2>3. /\ task \in Run /\ task.pc = "saving" /\ task.data = Tail(data)
        /\ task.left = old.left /\ task.done = old.done
    <3>1. rest \in Seq(Record)
      BY <2>2
    <3>2. /\ task \in Run /\ task.pc = "saving" /\ task.data = rest
          /\ task.left = old.left /\ task.done = old.done
      <4> HIDE DEF old, rest
      <4> QED
        BY <1>1, <3>1 DEF Run
    <3> QED
      BY <3>2
  <2>4. program' = [program EXCEPT ![r] = program'[r]] /\ program'[r] \in Program
    BY <2>1 DEF Typed
  <2> HIDE DEF task, first
  <2>5. /\ run' = [run EXCEPT ![r] = run'[r]] /\ run'[r] \in [Runs -> Run]
        /\ run'[r][u] = task /\ \A v \in Runs \ {u} : run'[r][v] = run[r][v]
    BY <2>1, <2>3, RunStep
  <2>6. Typed' /\ \A o \in Replicas \ {r} : program'[o] = program[o] /\ run'[o] = run[o]
    <3>1. \A v \in Runs :
            /\ run'[r][v].pc = "finding" => run'[r][v].data \in Seq(Names)
            /\ run'[r][v].pc = "saving" => run'[r][v].data \in Seq(Record)
      BY <2>2, <2>3, <2>5 DEF Typed
    <3>2. records' \subseteq Record /\ succeeded' \subseteq Names /\ completed' \subseteq Names
          /\ reran' \subseteq Names
      BY <1>1, <2>1, <2>2 DEF Typed
    <3> QED
      BY <1>1, <2>4, <2>5, <3>1, <3>2, OthersTyped
  <2>7. Honest'
    <3>1. \A s \in Names : Success(s) \in ToSet(data) => s \in succeeded
      BY <1>1 DEF Honest
    <3>2. \A s \in Names :
            /\ Success(s) \in records' => Success(s) \in records \/ s \in succeeded'
            /\ s \in program'[r].existInDB => s \in succeeded'
            /\ Success(s) \in ToSet(program'[r].save) => s \in succeeded'
            /\ \A v \in Runs :
                 run'[r][v].pc = "saving" /\ Success(s) \in ToSet(run'[r][v].data) => s \in succeeded'
      BY <1>1, <2>1, <2>2, <2>3, <2>5, <3>1 DEF Honest
    <3> QED
      BY <1>1, <2>6, <3>2, OthersHonest
  <2>8. Starting'
    <3>1. u \in SchemaModels => ToSet(run'[r][u].left) \subseteq {u} /\ run'[r][u].done \subseteq {u}
      BY <2>3, <2>5 DEF Starting, OfSchemas
    <3>2. run'[r][u].pc = "saving" /\ program'[r].up = program[r].up
      BY <2>1, <2>3, <2>5
    <3> QED
      BY <1>1, <2>5, <2>6, <3>1, <3>2, RunStepKeepsStarting
  <2>9. Running(r)
    BY <1>1 DEF Running
  <2>10. ASSUME Always \cap Boot = {}, ~excused
         PROVE  StartRuns(r)' /\ StartSaves(r)'
    <3>1. CASE u = "start"
      <4>1. ToInsert(data) /\ \A s \in old.done : Success(s) \in records \cup ToSet(data)
        BY <1>1, <2>10, <3>1 DEF Calm, StartSaves
      <4>2. run'[r]["start"].pc = "saving" /\ run'[r]["start"].data = Tail(data)
            /\ run'[r]["start"].done = old.done
        BY <2>3, <2>5, <3>1
      <4>3. \A x \in ToSet(Tail(data)) : x \notin records' /\ \E s \in Boot : x = Success(s)
        BY <2>1, <2>2, <4>1 DEF ToInsert, ToSet
      <4>4. ToInsert(run[r]["start"].data)'
        BY <2>2, <4>1, <4>2, <4>3 DEF ToInsert, ToSet, Success, Boot
      <4>5. \A s \in old.done : Success(s) \in records' \cup ToSet(Tail(data))
        BY <2>1, <2>2, <4>1
      <4> QED
        BY <4>2, <4>4, <4>5 DEF StartRuns, StartSaves, Success
    <3>2. CASE u # "start"
      <4>1. run'[r]["start"] = run[r]["start"] /\ u \in SchemaModels
        BY <2>5, <3>2 DEF Runs
      <4>2. run'[r]["start"].pc \notin {"running", "saving"}
        BY <1>1, <4>1, SchemaRuns
      <4> QED
        BY <4>2 DEF StartRuns, StartSaves
    <3> QED
      BY <3>1, <3>2
  <2>11. Calm'
    BY <1>1, <2>1, <2>6, <2>9, <2>10, OthersCalm DEF Boot
  <2> QED
    BY <2>6, <2>7, <2>8, <2>11
<1> QED
  BY <1>2, <1>3

LEMMA RestartKeepsInv ==
  ASSUME SeedersInv, NEW r \in Replicas, Restart(r)
  PROVE  SeedersInv'
<1> USE DEF SeedersInv, ghosts
<1>1. /\ program' = [program EXCEPT ![r] = program'[r]] /\ program'[r] = Fresh
      /\ run' = [run EXCEPT ![r] = run'[r]] /\ run'[r] = [u \in Runs |-> Idle]
      /\ UNCHANGED <<registered, records, succeeded, completed, reran, excused>>
  BY DEF Restart, Typed
<1>2. Fresh \in Program /\ Idle \in Run /\ \A u \in Runs : run'[r][u] = Idle
  <2>1. registered \in Seq(Names)
    BY Registered
  <2> QED
    BY <1>1, <2>1, EmptySequence DEF Fresh, Idle, Program, Run
<1>3. Typed' /\ \A o \in Replicas \ {r} : program'[o] = program[o] /\ run'[o] = run[o]
  <2>1. \A v \in Runs :
          /\ run'[r][v].pc = "finding" => run'[r][v].data \in Seq(Names)
          /\ run'[r][v].pc = "saving" => run'[r][v].data \in Seq(Record)
    BY <1>2 DEF Idle
  <2> QED
    BY <1>1, <1>2, <2>1, OthersTyped DEF Typed
<1>4. Honest'
  BY <1>1, <1>2, <1>3, EmptySequence, OthersHonest DEF Honest, Fresh, Idle
<1>5. Starting'
  <2>1. Fresh' = Fresh
    BY <1>1 DEF Fresh
  <2>2. StartsAlone(r)' /\ Prepared(r)' /\ OfSchemas(r)'
    BY <1>1, <1>2, EmptySequence DEF StartsAlone, Prepared, OfSchemas, Fresh, Idle, Runs
  <2> QED
    BY <1>1, <1>3, <2>2, OthersStart
<1>6. ~Running(r)' /\ StartRuns(r)' /\ StartSaves(r)'
  BY <1>2 DEF Running, StartRuns, StartSaves, Idle, Runs
<1>7. Calm'
  BY <1>1, <1>3, <1>6, OthersCalm
<1> QED
  BY <1>3, <1>4, <1>5, <1>7

\* When nothing of the seeders changes.
LEMMA SeedersStill ==
  ASSUME SeedersInv, UNCHANGED vars
  PROVE  SeedersInv'
<1> USE DEF SeedersInv, vars
<1>1. Typed'
  BY DEF Typed
<1>2. Honest'
  BY DEF Honest, Success
<1>3. Starting'
  BY DEF Starting, StartsAlone, Prepared, OfSchemas
<1>4. Calm'
  <2>1. \A r \in Replicas : (StartRuns(r) => StartRuns(r)') /\ (StartSaves(r) => StartSaves(r)')
    BY StartKept
  <2> QED
    BY <2>1 DEF Calm, OneRuns, Running, Success, Boot
<1> QED
  BY <1>1, <1>2, <1>3, <1>4

LEMMA SeedersNextKeepsInv == SeedersInv /\ [Next]_vars => SeedersInv'
<1> SUFFICES ASSUME SeedersInv, [Next]_vars
             PROVE  SeedersInv'
  OBVIOUS
<1>1. CASE UNCHANGED vars
  BY <1>1, SeedersStill
<1>2. ASSUME NEW r \in Replicas, Step(r)
      PROVE  SeedersInv'
  BY <1>2, DefineModelsKeepsInv, ConnectKeepsInv, FoundKeepsInv, SkipKeepsInv, HandlerKeepsInv,
     RanKeepsInv, InsertKeepsInv DEF Step
<1>3. ASSUME NEW r \in Replicas, ConnectFails(r) \/ Restart(r)
      PROVE  SeedersInv'
  BY <1>3, ConnectFailsKeepsInv, RestartKeepsInv
<1>4. ASSUME NEW r \in Replicas, NEW m \in SchemaModels, GetModel(r, m)
      PROVE  SeedersInv'
  BY <1>4, GetModelKeepsInv
<1>5. ASSUME NEW r \in Replicas, NEW u \in Runs, HandlerFails(r, u)
      PROVE  SeedersInv'
  BY <1>5, HandlerKeepsInv
<1> QED
  BY <1>1, <1>2, <1>3, <1>4, <1>5 DEF Next

LEMMA SeedersInvImplies == SeedersInv => SeedersTakeEffect
<1> SUFFICES ASSUME SeedersInv PROVE SeedersTakeEffect
  OBVIOUS
<1> USE DEF SeedersInv
<1>1. TypeOK
  <2>1. \A r \in Replicas :
          /\ program[r].bound \subseteq Models \cup SchemaModels
          /\ program[r].existInDB \cup ToSet(program[r].find) \subseteq Names
          /\ \A u \in Runs : run[r][u].pc \in {"none", "finding", "running", "saving", "done"}
    BY FieldsTyped DEF ToSet
  <2> QED
    BY <2>1 DEF TypeOK, Typed, Record
<1>2. SkipsOnlyTheDone
  BY FieldsTyped DEF SkipsOnlyTheDone, Honest, Success
<1>3. RerunsHaveAReason
  BY DEF RerunsHaveAReason, Calm, Boot
<1> QED
  BY <1>1, <1>2, <1>3 DEF SeedersTakeEffect

\* Whatever crashes, failures and other replicas do, a seeder is passed over
\* only when it has succeeded; one that completed is run again only if a handler
\* failed, two replicas ran seeders at once or one is to run always.
THEOREM SeedersRunOnce == PartsSpec => []SeedersTakeEffect
<1>1. PartsInit => SeedersInv
  BY InitEstablishes DEF PartsInit
<1>2. SeedersInv /\ [PartsNext]_partsVars => SeedersInv'
  BY SeedersNextKeepsInv DEF PartsNext, partsVars
<1>3. SeedersInv => SeedersTakeEffect
  BY SeedersInvImplies
<1> QED
  BY <1>1, <1>2, <1>3, PTL DEF PartsSpec

-----------------------------------------------------------------------------
(***************************************************************************)
(* Transactions.  While the sessions nest, those that have not ended stand *)
(* in the order in which they began, and each keeps what Model.create was  *)
(* under it.                                                               *)
(***************************************************************************)
Phases == {"none", "starting", "leaked", "open", "committing", "aborting", "rejected", "committed", "aborted"}

Transaction == [pc : Phases, original : {"mongoose", "override"}, pending : BOOLEAN, during : SUBSET Callers]

TransactionsTyped ==
    /\ create \in {"mongoose", "override"}
    /\ txn \in [Callers -> Transaction]
    /\ stored \subseteq Callers /\ overlapped \in BOOLEAN

\* What create is while the sessions of S have not ended.
CreateUnder(S) == IF S = {} THEN "mongoose" ELSE "override"

Nested ==
    ~overlapped =>
      /\ create = CreateUnder(T!InSession)
      /\ \A c \in T!InSession :
           /\ txn[c].during \subseteq T!InSession \ {c}
           /\ txn[c].original = CreateUnder(txn[c].during)
           /\ \A o \in T!InSession \ {c} : o \in txn[c].during \/ c \in txn[o].during

TransactionsInv == TransactionsTyped /\ Nested /\ T!Atomic

LEMMA TransactionsInit == T!TransactionsInit => TransactionsInv
<1> SUFFICES ASSUME T!TransactionsInit PROVE TransactionsInv
  OBVIOUS
<1> USE DEF T!TransactionsInit
<1>1. T!Session \in Transaction /\ \A c \in Callers : txn[c] = T!Session
  BY DEF T!Session, Transaction, Phases
<1>2. T!InSession = {}
  BY <1>1 DEF T!InSession, T!Session
<1> QED
  BY <1>1, <1>2 DEF TransactionsInv, TransactionsTyped, Nested, CreateUnder, T!Atomic, T!Session

\* A transaction of c that is open or over goes on: only its fields change.
LEMMA TransactionStep ==
  ASSUME TransactionsTyped, NEW c \in Callers, NEW t \in Transaction,
         txn' = [txn EXCEPT ![c] = t]
  PROVE  /\ txn' \in [Callers -> Transaction] /\ txn'[c] = t
         /\ \A o \in Callers \ {c} : txn'[o] = txn[o]
BY DEF TransactionsTyped

\* A step that neither begins nor ends a session.
LEMMA SameSessions ==
  ASSUME TransactionsInv, NEW c \in Callers, NEW t \in Transaction,
         txn' = [txn EXCEPT ![c] = t],
         t.original = txn[c].original, t.during = txn[c].during,
         c \in T!InSession <=> t.pc \in {"open", "committing", "aborting", "rejected"},
         create' = create, overlapped' = overlapped
  PROVE  Nested'
<1>1. /\ txn' \in [Callers -> Transaction] /\ txn'[c] = t
      /\ \A o \in Callers \ {c} : txn'[o] = txn[o]
  BY TransactionStep DEF TransactionsInv
<1>2. T!InSession' = T!InSession
  BY <1>1 DEF T!InSession
<1>3. \A o \in Callers : txn'[o].original = txn[o].original /\ txn'[o].during = txn[o].during
  BY <1>1
<1>4. T!InSession \subseteq Callers
  BY DEF T!InSession
<1> QED
  BY <1>2, <1>3, <1>4 DEF TransactionsInv, Nested, CreateUnder

LEMMA EndSessionKeeps ==
  ASSUME TransactionsInv, NEW c \in Callers, NEW outcome \in {"committed", "aborted"},
         c \in T!InSession, T!EndSession(c, outcome)
  PROVE  /\ Nested' /\ create' \in {"mongoose", "override"} /\ overlapped' \in BOOLEAN
         /\ txn' \in [Callers -> Transaction]
         /\ txn'[c].pc = outcome /\ txn'[c].pending = txn[c].pending
         /\ \A o \in Callers \ {c} : txn'[o] = txn[o]
         /\ overlapped => overlapped'
<1> USE DEF TransactionsInv
<1> DEFINE old == txn[c]
           t == [old EXCEPT !.pc = outcome]
<1>1. old \in Transaction /\ txn' = [txn EXCEPT ![c] = t]
  BY DEF TransactionsTyped, T!EndSession
<1>2. t \in Transaction /\ t.pc = outcome /\ t.pending = old.pending
  <2> HIDE DEF old
  <2> QED
    BY <1>1 DEF Transaction, Phases
<1> HIDE DEF t
<1>3. /\ txn' \in [Callers -> Transaction] /\ txn'[c] = t
      /\ \A o \in Callers \ {c} : txn'[o] = txn[o]
  BY <1>1, <1>2, TransactionStep
<1>4. create' \in {"mongoose", "override"} /\ create' = old.original
      /\ overlapped' \in BOOLEAN /\ (overlapped => overlapped')
  BY <1>1 DEF T!EndSession, TransactionsTyped, Transaction
<1>5. T!InSession' = T!InSession \ {c}
  BY <1>2, <1>3 DEF T!InSession
<1>6. Nested'
  <2> SUFFICES ASSUME ~overlapped'
               PROVE  /\ create' = CreateUnder(T!InSession \ {c})
                      /\ \A o \in T!InSession \ {c} :
                           /\ txn[o].during \subseteq (T!InSession \ {c}) \ {o}
                           /\ txn[o].original = CreateUnder(txn[o].during)
                           /\ \A d \in (T!InSession \ {c}) \ {o} : d \in txn[o].during \/ o \in txn[d].during
    <3>1. \A o \in T!InSession \ {c} : txn'[o] = txn[o]
      BY <1>3 DEF T!InSession
    <3> QED
      BY <1>5, <3>1 DEF Nested, CreateUnder
  <2>1. ~overlapped /\ \A o \in T!InSession : c \notin txn[o].during
    BY <1>4 DEF T!EndSession
  <2>2. txn[c].during = T!InSession \ {c}
    BY <2>1 DEF Nested
  <2>3. /\ txn[c].original = CreateUnder(txn[c].during)
        /\ \A o \in T!InSession :
             /\ txn[o].during \subseteq T!InSession \ {o}
             /\ txn[o].original = CreateUnder(txn[o].during)
             /\ \A d \in T!InSession \ {o} : d \in txn[o].during \/ o \in txn[d].during
    BY <2>1 DEF Nested
  <2>4. create' = CreateUnder(T!InSession \ {c})
    BY <1>4, <2>2, <2>3
  <2> QED
    BY <2>1, <2>3, <2>4
<1> QED
  BY <1>2, <1>3, <1>4, <1>6

LEMMA TransactionsStepKeepsInv ==
  ASSUME TransactionsInv, NEW c \in Callers,
         \/ T!StartSession(c) \/ T!StartTransaction(c) \/ T!Create(c)
         \/ T!Commit(c) \/ T!Committed(c) \/ T!CommitFails(c) \/ T!Abort(c) \/ T!Aborted(c)
  PROVE  TransactionsInv'
<1> USE DEF TransactionsInv
<1> DEFINE old == txn[c]
<1>0. old \in Transaction /\ old.pc \in Phases /\ old.pending \in BOOLEAN
  BY DEF TransactionsTyped, Transaction
<1>1. CASE T!StartTransaction(c) /\ ReplicaSet
  <2> DEFINE t == [old EXCEPT !.pc = "open", !.original = create, !.during = T!InSession]
  <2>1. txn' = [txn EXCEPT ![c] = t] /\ create' = "override" /\ old.pc = "starting"
        /\ UNCHANGED <<stored, overlapped>>
    BY <1>1 DEF T!StartTransaction
  <2>2. T!InSession \subseteq Callers /\ c \notin T!InSession
    BY <2>1 DEF T!InSession
  <2>3. /\ t \in Transaction /\ t.pc = "open" /\ t.original = create /\ t.during = T!InSession
        /\ t.pending = old.pending
    <3> DEFINE sessions == T!InSession
    <3> HIDE DEF old, sessions
    <3> QED
      BY <1>0, <2>2 DEF Transaction, Phases, TransactionsTyped
  <2> HIDE DEF t
  <2>4. /\ txn' \in [Callers -> Transaction] /\ txn'[c] = t
        /\ \A o \in Callers \ {c} : txn'[o] = txn[o]
    BY <2>1, <2>3, TransactionStep
  <2>5. T!InSession' = T!InSession \cup {c}
    BY <2>3, <2>4 DEF T!InSession
  <2>6. Nested'
    <3>1. \A o \in T!InSession : txn'[o] = txn[o]
      BY <2>2, <2>4
    <3>2. ~overlapped => create = CreateUnder(T!InSession)
      BY DEF Nested
    <3> QED
      BY <2>1, <2>2, <2>3, <2>4, <2>5, <3>1, <3>2 DEF Nested, CreateUnder
  <2>7. T!Atomic'
    BY <2>1, <2>3, <2>4 DEF T!Atomic
  <2> QED
    BY <2>1, <2>4, <2>6, <2>7 DEF TransactionsTyped
<1>2. ASSUME NEW t \in Transaction, txn' = [txn EXCEPT ![c] = t],
             t.original = old.original, t.during = old.during,
             c \in T!InSession <=> t.pc \in {"open", "committing", "aborting", "rejected"},
             old.pc # "committed", t.pc # "committed", stored' = stored,
             UNCHANGED <<create, overlapped>>
      PROVE  TransactionsInv'
  <2>1. /\ txn' \in [Callers -> Transaction] /\ txn'[c] = t
        /\ \A o \in Callers \ {c} : txn'[o] = txn[o]
    BY <1>2, TransactionStep
  <2>2. Nested'
    BY <1>2, SameSessions
  <2>3. T!Atomic'
    BY <1>2, <2>1 DEF T!Atomic
  <2> QED
    BY <1>2, <2>1, <2>2, <2>3 DEF TransactionsTyped
<1>3. ASSUME NEW pc \in Phases \ {"committed"}, NEW p \in BOOLEAN,
             txn' = [txn EXCEPT ![c] = [old EXCEPT !.pc = pc, !.pending = p]],
             c \in T!InSession <=> pc \in {"open", "committing", "aborting", "rejected"},
             old.pc # "committed", UNCHANGED <<create, stored, overlapped>>
      PROVE  TransactionsInv'
  <2> DEFINE t == [old EXCEPT !.pc = pc, !.pending = p]
  <2>1. /\ t \in Transaction /\ t.pc = pc /\ t.original = old.original /\ t.during = old.during
    <3> HIDE DEF old
    <3> QED
      BY <1>0 DEF Transaction
  <2> HIDE DEF t, old
  <2> QED
    BY <1>2, <1>3, <2>1 DEF t
<1>4. CASE T!Committed(c) \/ T!Aborted(c)
  <2>1. PICK outcome \in {"committed", "aborted"} :
          /\ T!EndSession(c, outcome) /\ c \in T!InSession
          /\ stored' = IF outcome = "committed" /\ txn[c].pending THEN stored \cup {c} ELSE stored
    BY <1>4 DEF T!Committed, T!Aborted, T!InSession
  <2>2. /\ Nested' /\ create' \in {"mongoose", "override"} /\ overlapped' \in BOOLEAN
        /\ txn' \in [Callers -> Transaction]
        /\ txn'[c].pc = outcome /\ txn'[c].pending = txn[c].pending
        /\ \A o \in Callers \ {c} : txn'[o] = txn[o]
        /\ overlapped => overlapped'
    BY <2>1, EndSessionKeeps
  <2>3. txn[c].pc # "committed"
    BY <2>1 DEF T!InSession
  <2>4. T!Atomic'
    BY <2>1, <2>2, <2>3 DEF T!Atomic
  <2> QED
    BY <2>1, <2>2, <2>4 DEF TransactionsTyped
<1>5. CASE T!Create(c) /\ create = "override"
  <2>1. txn' = [txn EXCEPT ![c] = [old EXCEPT !.pc = "open", !.pending = TRUE]] /\ old.pc = "open"
        /\ UNCHANGED <<create, stored, overlapped>>
    <3>1. [old EXCEPT !.pc = "open", !.pending = TRUE] = [old EXCEPT !.pending = TRUE] /\ old.pc = "open"
      BY <1>0, <1>5 DEF T!Create, Transaction
    <3> QED
      BY <1>5, <3>1 DEF T!Create
  <2>2. c \in T!InSession
    BY <2>1 DEF T!InSession
  <2> QED
    BY <1>3, <2>1, <2>2 DEF Phases
\* In a session that nests, create is an override.
<1>6. CASE T!Create(c) /\ create # "override"
  <2>1. c \in T!InSession /\ UNCHANGED <<txn, create, overlapped>> /\ stored' = stored \cup {c}
    BY <1>6 DEF T!Create, T!InSession
  <2>2. overlapped
    BY <1>6, <2>1 DEF Nested, CreateUnder
  <2> QED
    BY <2>1, <2>2 DEF TransactionsTyped, Nested, T!Atomic
<1>7. CASE T!StartSession(c) \/ T!Commit(c) \/ T!Abort(c) \/ T!CommitFails(c)
           \/ (T!StartTransaction(c) /\ ~ReplicaSet)
  <2> DEFINE To(pc, p) ==
               /\ txn' = [txn EXCEPT ![c] = [old EXCEPT !.pc = pc, !.pending = p]]
               /\ old.pc \in {"open", "committing"} <=> pc \in {"open", "committing", "aborting", "rejected"}
               /\ old.pc \in {"none", "starting", "open", "committing"}
  <2>1. PICK pc \in Phases \ {"committed"}, p \in BOOLEAN : To(pc, p)
    <3>1. \A pc \in Phases : [old EXCEPT !.pc = pc] = [old EXCEPT !.pc = pc, !.pending = old.pending]
      BY <1>0 DEF Transaction
    <3>2. CASE T!StartSession(c)
      <4>1. To("starting", old.pending)
        BY <3>1, <3>2 DEF T!StartSession, Phases
      <4> QED
        BY <1>0, <4>1 DEF Phases
    <3>3. CASE T!Commit(c)
      <4>1. To("committing", old.pending)
        BY <3>1, <3>3 DEF T!Commit, Phases
      <4> QED
        BY <1>0, <4>1 DEF Phases
    <3>4. CASE T!Abort(c)
      <4>1. To("aborting", FALSE)
        BY <3>4 DEF T!Abort, TransactionsTyped
      <4> QED
        BY <4>1 DEF Phases
    <3>5. CASE T!CommitFails(c)
      <4>1. To("aborting", FALSE) \/ To("rejected", FALSE)
        BY <3>5 DEF T!CommitFails, TransactionsTyped
      <4> QED
        BY <4>1 DEF Phases
    <3>6. CASE T!StartTransaction(c) /\ ~ReplicaSet
      <4>1. To("leaked", old.pending)
        BY <3>1, <3>6 DEF T!StartTransaction, Phases
      <4> QED
        BY <1>0, <4>1 DEF Phases
    <3> QED
      BY <1>7, <3>2, <3>3, <3>4, <3>5, <3>6
  <2>2. UNCHANGED <<create, stored, overlapped>>
    BY <1>7 DEF T!StartSession, T!Commit, T!Abort, T!CommitFails, T!StartTransaction
  <2>3. c \in T!InSession <=> old.pc \in {"open", "committing"}
    BY <2>1 DEF T!InSession
  <2> QED
    BY <1>3, <2>1, <2>2, <2>3
<1> QED
  BY <1>1, <1>4, <1>5, <1>6, <1>7

\* In their part.
InTransactions == part = "transactions" => TransactionsInv

\* A transaction stores its document exactly when it commits, and once every
\* session has ended Model.create is that of mongoose, as long as sessions nest:
\* for any number of transactions.
THEOREM SessionsNest == PartsSpec => []TransactionsAreIsolated
<1>1. PartsInit => InTransactions
  BY TransactionsInit DEF PartsInit, InTransactions
<1>2. InTransactions /\ [PartsNext]_partsVars => InTransactions'
  <2> SUFFICES ASSUME InTransactions, [PartsNext]_partsVars, part' = "transactions"
               PROVE  TransactionsInv'
    BY DEF InTransactions
  <2>1. part = "transactions" /\ TransactionsInv
    BY DEF PartsNext, partsVars, InTransactions
  <2>2. CASE UNCHANGED transactionVars
    BY <2>1, <2>2 DEF transactionVars, TransactionsInv, TransactionsTyped, Nested, CreateUnder,
                      T!InSession, T!Atomic
  <2>3. CASE T!TransactionsNext
    BY <2>1, <2>3, TransactionsStepKeepsInv DEF T!TransactionsNext
  <2> QED
    BY <2>1, <2>2, <2>3 DEF PartsNext, partsVars
<1>3. InTransactions => TransactionsAreIsolated
  BY DEF InTransactions, TransactionsAreIsolated, TransactionsInv, Nested, CreateUnder,
         T!TransactionsAreIsolated, T!CreateRestored
<1> QED
  BY <1>1, <1>2, <1>3, PTL DEF PartsSpec

-----------------------------------------------------------------------------
(***************************************************************************)
(* The key-value store.  The columns of a row are those of the TTL it was  *)
(* last given; with all callers on one connector, whoever is in the lock   *)
(* is alone in it, and has read what was last set there.                   *)
(***************************************************************************)
Row == [value : Nat, expirationTime : Nat, ttl : Int]

KVTyped ==
    /\ row = Absent \/ row \in Row
    /\ now \in Nat \ {0} /\ promised \in Nat /\ sets \in Nat /\ locked \in Nat /\ lost \in BOOLEAN
    /\ worker \in [Workers -> [of : Connectors, pc : {"out", "in"}, read : Nat]]

Promised ==
    row # Absent =>
      /\ promised = 0 <=> row.ttl <= 0
      /\ promised # 0 => row.expirationTime = promised

OneConnector == \A v, w \in Workers : worker[v].of = worker[w].of

Alone ==
    OneConnector =>
      /\ ~lost
      /\ \A w \in Workers : worker[w].pc = "in" =>
           worker[w].read = locked /\ \A o \in Workers \ {w} : worker[o].pc = "out"

KVInv == KVTyped /\ Promised /\ Alone

LEMMA KVInitInv == K!KVInit => KVInv
<1> SUFFICES ASSUME K!KVInit PROVE KVInv
  OBVIOUS
<1>1. worker \in [Workers -> [of : Connectors, pc : {"out", "in"}, read : Nat]]
      /\ \A w \in Workers : worker[w].pc = "out"
  BY DEF K!KVInit
<1>2. KVTyped
  <2>1. row = Absent /\ now = 1 /\ promised = 0 /\ sets = 0 /\ locked = 0 /\ lost = FALSE
    BY DEF K!KVInit
  <2>2. row = Absent \/ row \in Row
    BY <2>1
  <2>3. now \in Nat \ {0} /\ promised \in Nat /\ sets \in Nat /\ locked \in Nat
    BY <2>1
  <2>4. lost \in BOOLEAN
    BY <2>1
  <2> QED
    BY <1>1, <2>2, <2>3, <2>4, Zenon DEF KVTyped
<1>3. Promised /\ Alone
  BY <1>1 DEF K!KVInit, Promised, Alone
<1> QED
  BY <1>2, <1>3 DEF KVInv

\* A set() gives the row the columns, and the promise, of its TTL.
LEMMA WriteKeeps ==
  ASSUME KVTyped, NEW e \in Nat, NEW t \in Int, NEW columns,
         columns.expirationTime = e, columns.ttl = t, K!Write(columns), promised' \in Nat,
         promised' = 0 <=> t <= 0, promised' # 0 => e = promised'
  PROVE  row' \in Row /\ sets' \in Nat /\ Promised'
<1>1. row' = [value |-> sets + 1, expirationTime |-> e, ttl |-> t] /\ sets' = sets + 1
  BY DEF K!Write
<1>2. row' \in Row /\ row'.ttl = t /\ row'.expirationTime = e
  BY <1>1 DEF KVTyped, Row
<1> QED
  BY <1>1, <1>2 DEF KVTyped, Promised

LEMMA GivenColumns ==
  ASSUME KVTyped, NEW t \in Int
  PROVE  /\ K!Given(t).expirationTime = IF t > 0 THEN now + t ELSE 0
         /\ K!Given(t).expirationTime \in Nat /\ K!Given(t).ttl = t
BY DEF K!Given, KVTyped

LEMMA KVStepKeepsInv == KVInv /\ K!KVNext => KVInv'
<1> SUFFICES ASSUME KVInv, K!KVNext
             PROVE  KVInv'
  OBVIOUS
<1> USE DEF KVInv
<1>1. ASSUME UNCHANGED <<worker, locked, lost>>
      PROVE  Alone'
  BY <1>1 DEF Alone, OneConnector
<1>2. CASE K!SetKeepTTL
  <2>1. CASE row = Absent
    <3>1. K!Kept.expirationTime = 0 /\ K!Kept.ttl = 0
      BY <2>1 DEF K!Kept
    <3>2. row' \in Row /\ sets' \in Nat /\ Promised'
      BY <1>2, <2>1, <3>1, WriteKeeps DEF K!SetKeepTTL
    <3> QED
      BY <1>1, <1>2, <2>1, <3>2 DEF K!SetKeepTTL, KVTyped
  <2>2. CASE row # Absent
    <3>1. /\ K!Kept.expirationTime = row.expirationTime /\ K!Kept.ttl = row.ttl
          /\ row.expirationTime \in Nat /\ row.ttl \in Int
      BY <2>2 DEF K!Kept, KVTyped, Row
    <3>2. promised' = promised /\ promised \in Nat /\ K!Write(K!Kept)
      BY <1>2, <2>2 DEF K!SetKeepTTL, KVTyped
    <3>3. (promised = 0 <=> row.ttl <= 0) /\ (promised # 0 => row.expirationTime = promised)
      BY <2>2 DEF Promised
    <3>4. row' \in Row /\ sets' \in Nat /\ Promised'
      BY <3>1, <3>2, <3>3, WriteKeeps
    <3> QED
      BY <1>1, <1>2, <2>2, <3>4 DEF K!SetKeepTTL, KVTyped
  <2> QED
    BY <2>1, <2>2
<1>3. CASE K!SetTTL
  <2>1. PICK t \in TTLs : K!Write(K!Given(t)) /\ promised' = IF t > 0 THEN now + t ELSE 0
    BY <1>3 DEF K!SetTTL
  <2>2. t \in Int /\ promised' \in Nat
    BY <2>1, PartConstants DEF KVTyped
  <2>3. promised' = K!Given(t).expirationTime /\ (promised' = 0 <=> t <= 0)
    BY <2>1, <2>2, GivenColumns DEF KVTyped
  <2>4. row' \in Row /\ sets' \in Nat /\ Promised'
    BY <2>1, <2>2, <2>3, GivenColumns, WriteKeeps
  <2> QED
    BY <1>1, <1>3, <2>2, <2>4 DEF K!SetTTL, KVTyped
<1>4. CASE K!DeleteKey
  BY <1>1, <1>4 DEF K!DeleteKey, KVTyped, Promised
<1>5. CASE K!Tick
  BY <1>1, <1>5 DEF K!Tick, KVTyped, Promised
<1>6. ASSUME NEW w \in Workers, K!LockAndGet(w)
      PROVE  KVInv'
  <2> DEFINE old == worker[w]
             new == [old EXCEPT !.pc = "in", !.read = locked]
  <2>1. worker' = [worker EXCEPT ![w] = new] /\ old.pc = "out"
        /\ UNCHANGED <<row, now, promised, locked, lost, sets>>
    BY <1>6 DEF K!LockAndGet, KVTyped
  <2>2. new \in [of : Connectors, pc : {"out", "in"}, read : Nat] /\ new.of = old.of
        /\ new.pc = "in" /\ new.read = locked
    <3>1. old \in [of : Connectors, pc : {"out", "in"}, read : Nat] /\ locked \in Nat
      BY DEF KVTyped
    <3> HIDE DEF old
    <3> QED
      BY <3>1
  <2> HIDE DEF new
  <2>3. worker'[w] = new /\ \A o \in Workers \ {w} : worker'[o] = worker[o]
    BY <2>1 DEF KVTyped
  <2>4. KVTyped' /\ Promised'
    BY <2>1, <2>2 DEF KVTyped, Promised
  <2>5. OneConnector => \A o \in Workers : worker[o].pc = "out"
    BY <1>6 DEF K!LockAndGet, K!Free, OneConnector
  <2>6. OneConnector' => OneConnector
    BY <2>2, <2>3 DEF OneConnector
  <2> QED
    BY <2>1, <2>2, <2>3, <2>4, <2>5, <2>6 DEF Alone
<1>7. ASSUME NEW w \in Workers, K!SetAndUnlock(w)
      PROVE  KVInv'
  <2> DEFINE old == worker[w]
             new == [old EXCEPT !.pc = "out", !.read = 0]
  <2>1. worker' = [worker EXCEPT ![w] = new] /\ old.pc = "in" /\ K!Write(K!Given(0))
        /\ promised' = 0 /\ locked' = sets + 1 /\ lost' = (lost \/ locked # old.read) /\ now' = now
    BY <1>7 DEF K!SetAndUnlock, KVTyped
  <2>2. new \in [of : Connectors, pc : {"out", "in"}, read : Nat] /\ new.of = old.of /\ new.pc = "out"
    <3>1. old \in [of : Connectors, pc : {"out", "in"}, read : Nat]
      BY DEF KVTyped
    <3> HIDE DEF old
    <3> QED
      BY <3>1
  <2> HIDE DEF new
  <2>3. worker'[w] = new /\ \A o \in Workers \ {w} : worker'[o] = worker[o]
    BY <2>1 DEF KVTyped
  <2>4. row' \in Row /\ sets' \in Nat /\ Promised'
    BY <2>1, GivenColumns, WriteKeeps
  <2>5. KVTyped'
    BY <2>1, <2>2, <2>4 DEF KVTyped
  <2>6. OneConnector' => OneConnector
    BY <2>2, <2>3 DEF OneConnector
  <2> QED
    BY <2>1, <2>2, <2>3, <2>4, <2>5, <2>6 DEF Alone
<1> QED
  BY <1>2, <1>3, <1>4, <1>5, <1>6, <1>7 DEF K!KVNext

InKV == part = "kv" => KVInv

\* A key is read exactly until the end of the TTL it was last given, whatever
\* TTLs are given and kept; the callers of one connector never lose an update
\* made under the lock, however many they are.
THEOREM KeysLiveTheirTTL == PartsSpec => []KeyKeepsItsPromises
<1>1. PartsInit => InKV
  BY KVInitInv DEF PartsInit, InKV
<1>2. InKV /\ [PartsNext]_partsVars => InKV'
  <2> SUFFICES ASSUME InKV, [PartsNext]_partsVars, part' = "kv"
               PROVE  KVInv'
    BY DEF InKV
  <2>1. part = "kv" /\ KVInv
    BY DEF PartsNext, partsVars, InKV
  <2>2. CASE UNCHANGED kvVars
    BY <2>1, <2>2 DEF kvVars, KVInv, KVTyped, Promised, Alone, OneConnector
  <2>3. CASE K!KVNext
    BY <2>1, <2>3, KVStepKeepsInv
  <2> QED
    BY <2>1, <2>2, <2>3 DEF PartsNext, partsVars
<1>3. InKV => KeyKeepsItsPromises
  <2> SUFFICES ASSUME KVInv
               PROVE  K!LivesItsTTL /\ K!LocksSerialize
    BY DEF InKV, KeyKeepsItsPromises, K!KeyKeepsItsPromises
  <2>1. K!LivesItsTTL
    <3> SUFFICES ASSUME row # Absent
                 PROVE  K!Value = Absent <=> promised # 0 /\ now > promised
      BY DEF K!LivesItsTTL
    <3>1. row.value \in Nat /\ row.expirationTime \in Nat /\ row.ttl \in Int
          /\ promised \in Nat /\ now \in Nat
      BY DEF KVInv, KVTyped, Row
    <3>2. K!Expired <=> promised # 0 /\ now > promised
      BY <3>1 DEF KVInv, Promised, K!Expired
    <3> QED
      BY <3>1, <3>2, PartConstants DEF K!Value
  <2>2. K!LocksSerialize
    BY DEF KVInv, Alone, OneConnector, K!LocksSerialize
  <2> QED
    BY <2>1, <2>2
<1> QED
  BY <1>1, <1>2, <1>3, PTL DEF PartsSpec

-----------------------------------------------------------------------------
(***************************************************************************)
(* Local objects.  While a key has been put at most once, the files are    *)
(* those of that put as far as it has come, or deleted; and whoever is in  *)
(* a get() has seen the object as it is now.                               *)
(***************************************************************************)
Putting == {"put", "bytes", "meta", "filling"}

Filled == Contents \cup {NoFile}

Call == [pc : Putting \cup {"idle", "get", "gotMeta", "got", "delete", "deleted"},
         content : Filled, result : Contents \cup {"created", "rejected", NoFile}]

LocalTyped ==
    /\ bytes \in Contents \cup {"created", NoFile} /\ meta \in Contents \cup {"created", NoFile}
    /\ user \in [Users -> Call]
    /\ \A u \in Users : user[u].pc \in Putting => user[u].content \in Contents
    /\ puts \in Nat
    /\ visible \in [Users -> SUBSET Filled]

\* How far the put of u has come.
PutStands(u) ==
    /\ user[u].pc = "put" => bytes = NoFile /\ meta = NoFile
    /\ user[u].pc = "bytes" => bytes \in {"created", NoFile} /\ meta = NoFile
    /\ user[u].pc = "meta" => bytes \in Filled /\ meta = NoFile
    /\ user[u].pc = "filling" => bytes \in Filled /\ meta \in {"created", NoFile}

OnePut ==
    puts <= 1 =>
      /\ puts = 0 => bytes = NoFile /\ meta = NoFile /\ \A u \in Users : user[u].pc \notin Putting
      /\ \A u, o \in Users : user[u].pc \in Putting /\ user[o].pc \in Putting => u = o
      /\ \A u \in Users : PutStands(u)
      /\ meta \in Contents => bytes \in Filled /\ \A u \in Users : user[u].pc \notin Putting
      /\ \A u \in Users :
           user[u].pc = "gotMeta" =>
             /\ bytes \in visible[u] \cup {NoFile} /\ bytes \in Filled
             /\ \A o \in Users : user[o].pc \notin Putting
             /\ puts = 1

Reads ==
    \A u \in Users :
      /\ user[u].pc \in {"get", "gotMeta", "got"} => L!Object(bytes, meta) \in visible[u]
      /\ puts <= 1 /\ user[u].pc = "got" => user[u].result \in visible[u] \cup {"rejected"}

LocalInv == LocalTyped /\ OnePut /\ Reads

LEMMA LocalInitInv == L!LocalInit => LocalInv
<1> SUFFICES ASSUME L!LocalInit PROVE LocalInv
  OBVIOUS
<1>1. \A u \in Users : user[u] = L!Resting /\ L!Resting.pc = "idle"
  BY DEF L!LocalInit, L!Resting
<1>0. L!Resting \in Call
  BY DEF L!Resting, Call, Filled
<1>2. LocalTyped
  BY <1>0, <1>1 DEF L!LocalInit, LocalTyped, Putting
<1>3. OnePut
  BY <1>1, PartConstants DEF L!LocalInit, OnePut, PutStands, Putting
<1>4. Reads
  BY <1>1 DEF Reads
<1> QED
  BY <1>2, <1>3, <1>4 DEF LocalInv

\* A step of the call of u.
LEMMA UserStep ==
  ASSUME LocalTyped, NEW u \in Users, NEW t \in Call, user' = [user EXCEPT ![u] = t],
         t.pc \in Putting => t.content \in Contents
  PROVE  /\ user' \in [Users -> Call]
         /\ \A o \in Users : user'[o].pc \in Putting => user'[o].content \in Contents
         /\ user'[u] = t
         /\ \A o \in Users \ {u} : user'[o] = user[o]
BY DEF LocalTyped

\* The program counter of a call moves.
CallPc == Putting \cup {"idle", "get", "gotMeta", "got", "delete", "deleted"}

LEMMA PcMoves ==
  ASSUME NEW old \in Call, NEW pc \in CallPc
  PROVE  /\ [old EXCEPT !.pc = pc] \in Call
         /\ [old EXCEPT !.pc = pc].pc = pc /\ [old EXCEPT !.pc = pc].content = old.content
BY DEF Call, CallPc

LEMMA RestingFields ==
  ASSUME NEW content \in Filled,
         NEW t, t \in {L!Resting, [L!Resting EXCEPT !.pc = "get"],
                       [L!Resting EXCEPT !.pc = "put", !.content = content]}
  PROVE  /\ t \in Call
         /\ t = L!Resting => t.pc = "idle"
         /\ t = [L!Resting EXCEPT !.pc = "get"] => t.pc = "get"
         /\ t = [L!Resting EXCEPT !.pc = "put", !.content = content] => t.pc = "put" /\ t.content = content
<1>1. L!Resting \in Call /\ L!Resting.pc = "idle"
  BY DEF L!Resting, Call, Filled
<1> QED
  BY <1>1 DEF Call, Putting

\* A file of the key is created, filled or removed: whoever is in a get() sees it.
LEMMA FilesKeep ==
  ASSUME LocalInv, NEW u \in Users, NEW from, NEW to, L!At(u, from, to),
         from \in Putting \cup {"delete", "deleted"},
         to \in Putting \cup {"idle", "deleted"}, to \in Putting => from \in Putting,
         NEW b \in Contents \cup {"created", NoFile}, NEW m \in Contents \cup {"created", NoFile},
         L!Files(b, m), puts' = puts
  PROVE  /\ LocalTyped' /\ Reads'
         /\ user[u].pc = from /\ user'[u].pc = to /\ user'[u].content = user[u].content
         /\ bytes' = b /\ meta' = m
         /\ \A o \in Users \ {u} : user'[o] = user[o]
         /\ \A o \in Users : user[o].pc # "idle" => visible[o] \subseteq visible'[o]
<1> USE DEF LocalInv
<1> DEFINE t == [user[u] EXCEPT !.pc = to]
<1>1. user' = [user EXCEPT ![u] = t] /\ user[u].pc = from /\ user[u] \in Call
      /\ user[u].result \in Contents \cup {"created", "rejected", NoFile}
  BY DEF L!At, LocalTyped, Call
<1>2. t \in Call /\ t.pc = to /\ t.content = user[u].content
  BY <1>1, PcMoves DEF Putting, CallPc
<1> HIDE DEF t
<1>3. /\ user' \in [Users -> Call] /\ user'[u] = t
      /\ \A o \in Users : user'[o].pc \in Putting => user'[o].content \in Contents
      /\ user'[u].pc = to /\ \A o \in Users \ {u} : user'[o] = user[o]
  <2>1. t.pc \in Putting => t.content \in Contents
    BY <1>1, <1>2 DEF LocalTyped
  <2> QED
    BY <1>1, <1>2, <2>1, UserStep
<1>4. user'[u].content = user[u].content
  BY <1>2, <1>3
<1>5. /\ bytes' = b /\ meta' = m /\ visible' \in [Users -> SUBSET Filled]
      /\ \A o \in Users : user[o].pc # "idle" => visible'[o] = visible[o] \cup {L!Object(bytes', meta')}
  BY DEF L!Files, L!Object, LocalTyped, Filled
<1>6. LocalTyped'
  BY <1>3, <1>5 DEF LocalTyped
<1>7. Reads'
  <2> SUFFICES ASSUME NEW o \in Users, user'[o].pc \in {"get", "gotMeta", "got"}
               PROVE  /\ L!Object(bytes', meta') \in visible'[o]
                      /\ puts <= 1 /\ user'[o].pc = "got" => user'[o].result \in visible'[o] \cup {"rejected"}
    BY DEF Reads, L!Object
  <2>1. o # u /\ user'[o] = user[o]
    BY <1>3 DEF Putting
  <2> QED
    BY <1>5, <2>1 DEF Reads
<1> QED
  BY <1>1, <1>3, <1>4, <1>5, <1>6, <1>7

LEMMA WriteFilesKeepsInv ==
  ASSUME LocalInv, NEW u \in Users, L!WriteFiles(u), puts' = puts
  PROVE  LocalInv'
<1> USE DEF LocalInv
<1>1. /\ user[u].pc \in Putting => user[u].content \in Contents
      /\ bytes \in Contents \cup {"created", NoFile} /\ meta \in Contents \cup {"created", NoFile}
  BY DEF LocalTyped
<1>2. /\ puts <= 1 /\ user[u].pc \in Putting =>
           /\ \A o \in Users \ {u} : user[o].pc \notin Putting /\ user[o].pc # "gotMeta"
           /\ PutStands(u) /\ puts # 0
  BY DEF OnePut
<1>3. CASE L!At(u, "put", "bytes") /\ L!Files("created", meta)
  <2>1. /\ LocalTyped' /\ Reads'
        /\ user[u].pc = "put" /\ user'[u].pc = "bytes"
        /\ bytes' = "created" /\ meta' = meta
        /\ \A o \in Users \ {u} : user'[o] = user[o]
    BY <1>1, <1>3, FilesKeep DEF Putting
  <2>2. OnePut'
    BY <1>2, <2>1, PartConstants DEF OnePut, PutStands, Putting
  <2> QED
    BY <2>1, <2>2
<1>4. CASE L!At(u, "bytes", "meta") /\ L!Files(user[u].content, meta)
  <2>1. user[u].pc = "bytes" /\ user[u].content \in Contents
    BY <1>1, <1>4 DEF L!At, Putting
  <2>2. /\ LocalTyped' /\ Reads'
        /\ user'[u].pc = "meta"
        /\ bytes' \in Contents /\ meta' = meta
        /\ \A o \in Users \ {u} : user'[o] = user[o]
    BY <1>1, <1>4, <2>1, FilesKeep DEF Putting
  <2>3. OnePut'
    BY <1>2, <2>1, <2>2, PartConstants DEF OnePut, PutStands, Putting, Filled
  <2> QED
    BY <2>2, <2>3
<1>5. CASE L!At(u, "meta", "filling") /\ L!Files(bytes, "created")
  <2>1. /\ LocalTyped' /\ Reads'
        /\ user[u].pc = "meta" /\ user'[u].pc = "filling"
        /\ bytes' = bytes /\ meta' = "created"
        /\ \A o \in Users \ {u} : user'[o] = user[o]
    BY <1>1, <1>5, FilesKeep DEF Putting
  <2>2. OnePut'
    BY <1>2, <2>1, PartConstants DEF OnePut, PutStands, Putting, Filled
  <2> QED
    BY <2>1, <2>2
<1>6. CASE L!At(u, "filling", "idle") /\ L!Files(bytes, user[u].content)
  <2>1. user[u].pc = "filling" /\ user[u].content \in Contents
    BY <1>1, <1>6 DEF L!At, Putting
  <2>2. /\ LocalTyped' /\ Reads'
        /\ user'[u].pc = "idle"
        /\ bytes' = bytes /\ meta' \in Contents
        /\ \A o \in Users \ {u} : user'[o] = user[o]
    BY <1>1, <1>6, <2>1, FilesKeep DEF Putting
  <2>3. OnePut'
    BY <1>2, <2>1, <2>2, PartConstants DEF OnePut, PutStands, Putting, Filled
  <2> QED
    BY <2>2, <2>3
<1> QED
  BY <1>3, <1>4, <1>5, <1>6 DEF L!WriteFiles

LEMMA DeleteKeepsInv ==
  ASSUME LocalInv, NEW u \in Users, L!Delete(u), puts' = puts
  PROVE  LocalInv'
<1> USE DEF LocalInv
<1>1. CASE L!At(u, "idle", "delete") /\ UNCHANGED <<bytes, meta, visible>>
  <2> DEFINE t == [user[u] EXCEPT !.pc = "delete"]
  <2>1. user' = [user EXCEPT ![u] = t] /\ user[u] \in Call
        /\ user[u].result \in Contents \cup {"created", "rejected", NoFile}
    BY <1>1 DEF L!At, LocalTyped, Call
  <2>2. t \in Call /\ t.pc = "delete"
    BY <2>1, PcMoves DEF CallPc
  <2> HIDE DEF t
  <2>3. /\ user' \in [Users -> Call] /\ user'[u].pc = "delete"
        /\ \A o \in Users : user'[o].pc \in Putting => user'[o].content \in Contents
        /\ \A o \in Users \ {u} : user'[o] = user[o]
    BY <2>1, <2>2, UserStep DEF Putting
  <2>4. LocalTyped'
    BY <1>1, <2>3 DEF LocalTyped
  <2>5. OnePut'
    BY <1>1, <2>3 DEF OnePut, PutStands, Putting
  <2>6. Reads'
    BY <1>1, <2>3 DEF Reads, L!Object
  <2> QED
    BY <2>4, <2>5, <2>6
<1>2. CASE L!At(u, "delete", "deleted") /\ L!Files(NoFile, meta)
  <2>1. /\ LocalTyped' /\ Reads'
        /\ user[u].pc = "delete" /\ user'[u].pc = "deleted"
        /\ bytes' = NoFile /\ meta' = meta
        /\ \A o \in Users \ {u} : user'[o] = user[o]
        /\ \A o \in Users : user[o].pc # "idle" => visible[o] \subseteq visible'[o]
    BY <1>2, FilesKeep, ZenonT(30) DEF LocalTyped, Putting
  <2>2. OnePut'
    BY <2>1 DEF OnePut, PutStands, Putting, Filled
  <2> QED
    BY <2>1, <2>2
<1>3. CASE L!At(u, "deleted", "idle") /\ L!Files(bytes, NoFile)
  <2>1. /\ LocalTyped' /\ Reads'
        /\ user[u].pc = "deleted" /\ user'[u].pc = "idle"
        /\ bytes' = bytes /\ meta' = NoFile
        /\ \A o \in Users \ {u} : user'[o] = user[o]
        /\ \A o \in Users : user[o].pc # "idle" => visible[o] \subseteq visible'[o]
    BY <1>3, FilesKeep, ZenonT(30) DEF LocalTyped, Putting
  <2>2. OnePut'
    BY <2>1, PartConstants DEF OnePut, PutStands, Putting, Filled
  <2> QED
    BY <2>1, <2>2
<1> QED
  BY <1>1, <1>2, <1>3 DEF L!Delete

\* A step of u that leaves the files, and the puts begun, alone.
LEMMA CallStep ==
  ASSUME LocalInv, NEW u \in Users, NEW t \in Call, user' = [user EXCEPT ![u] = t],
         t.pc \in {"idle", "get", "gotMeta", "got"},
         UNCHANGED <<bytes, meta, puts>>, NEW seen \in SUBSET Filled, visible' = [visible EXCEPT ![u] = seen],
         t.pc \in {"get", "gotMeta", "got"} => L!Object(bytes, meta) \in seen,
         puts <= 1 /\ t.pc = "got" => t.result \in seen \cup {"rejected"},
         puts <= 1 /\ t.pc = "gotMeta" => meta \in Contents
  PROVE  LocalInv'
<1> USE DEF LocalInv
<1>1. /\ user' \in [Users -> Call] /\ user'[u] = t
      /\ \A o \in Users : user'[o].pc \in Putting => user'[o].content \in Contents
      /\ \A o \in Users \ {u} : user'[o] = user[o]
  BY UserStep DEF Putting
<1>2. visible'[u] = seen /\ \A o \in Users \ {u} : visible'[o] = visible[o]
      /\ visible' \in [Users -> SUBSET Filled]
  BY DEF LocalTyped
<1>3. LocalTyped'
  BY <1>1, <1>2 DEF LocalTyped
<1>4. ASSUME t.pc = "gotMeta", puts <= 1
      PROVE  /\ bytes \in seen \cup {NoFile} /\ bytes \in Filled
             /\ \A o \in Users : user[o].pc \notin Putting
             /\ puts = 1
  <2>1. meta \in Contents /\ puts \in Nat
    BY <1>4 DEF LocalTyped
  <2>2. bytes \in Filled /\ puts # 0 /\ \A o \in Users : user[o].pc \notin Putting
    BY <1>4, <2>1, PartConstants DEF OnePut
  <2>3. bytes \in Contents => L!Object(bytes, meta) = bytes
    BY <2>1 DEF L!Object
  <2> QED
    BY <1>4, <2>1, <2>2, <2>3 DEF Filled
<1>5. OnePut'
  BY <1>1, <1>2, <1>4 DEF OnePut, PutStands, Putting
<1>6. Reads'
  BY <1>1, <1>2 DEF Reads, L!Object
<1> QED
  BY <1>3, <1>5, <1>6

LEMMA CallsKeepInv ==
  ASSUME LocalInv, NEW u \in Users,
         \/ L!StartGet(u) \/ L!ReadMeta(u) \/ L!ReadBytes(u) \/ L!Return(u) \/ L!Crash(u)
  PROVE  LocalInv'
<1> USE DEF LocalInv
<1>0. /\ NoFile \in Filled /\ visible = [visible EXCEPT ![u] = visible[u]]
      /\ visible[u] \in SUBSET Filled /\ L!Object(bytes, meta) \in Filled
  BY DEF Filled, LocalTyped, L!Object
<1>1. CASE L!StartGet(u)
  <2> DEFINE t == [L!Resting EXCEPT !.pc = "get"]
             seen == {L!Object(bytes, meta)}
  <2>1. t \in Call /\ t.pc = "get"
    BY <1>0, RestingFields
  <2>2. user' = [user EXCEPT ![u] = t] /\ visible' = [visible EXCEPT ![u] = seen]
        /\ UNCHANGED <<bytes, meta, puts>>
    BY <1>1 DEF L!StartGet
  <2>3. seen \in SUBSET Filled /\ L!Object(bytes, meta) \in seen
    BY <1>0
  <2> HIDE DEF t, seen
  <2> QED
    BY <2>1, <2>2, <2>3, CallStep
<1>2. CASE L!ReadMeta(u)
  <2> DEFINE pc == IF meta \in Contents THEN "gotMeta" ELSE "got"
             result == IF meta = "created" THEN "rejected" ELSE NoFile
             t == [user[u] EXCEPT !.pc = pc, !.result = result]
  <2>1. user' = [user EXCEPT ![u] = t] /\ UNCHANGED <<bytes, meta, puts, visible>>
        /\ L!Object(bytes, meta) \in visible[u] /\ user[u] \in Call
    BY <1>2 DEF L!ReadMeta, Reads, LocalTyped
  <2>2. pc = "got" => result \in visible[u] \cup {"rejected"}
    <3>1. meta = NoFile => L!Object(bytes, meta) = NoFile
      BY PartConstants DEF L!Object
    <3> QED
      BY <2>1, <3>1 DEF LocalTyped
  <2>3. pc \in {"gotMeta", "got"} /\ (pc = "gotMeta" => meta \in Contents)
        /\ result \in Contents \cup {"created", "rejected", NoFile}
    OBVIOUS
  <2> HIDE DEF pc, result
  <2>4. t \in Call /\ t.pc = pc /\ t.result = result
    <3>1. pc \in CallPc
      BY <2>3 DEF CallPc
    <3> DEFINE old == user[u]
    <3>2. old \in Call /\ t = [old EXCEPT !.pc = pc, !.result = result]
      BY <2>1
    <3> HIDE DEF t, old
    <3> QED
      BY <2>3, <3>1, <3>2 DEF Call, CallPc
  <2> HIDE DEF t
  <2> QED
    BY <1>0, <2>1, <2>2, <2>3, <2>4, CallStep
<1>3. CASE L!ReadBytes(u)
  <2> DEFINE t == [user[u] EXCEPT !.pc = "got", !.result = bytes]
  <2>1. user' = [user EXCEPT ![u] = t] /\ UNCHANGED <<bytes, meta, puts, visible>>
        /\ L!Object(bytes, meta) \in visible[u] /\ user[u] \in Call
        /\ bytes \in Contents \cup {"created", NoFile}
    BY <1>3 DEF L!ReadBytes, Reads, LocalTyped
  <2>2. puts <= 1 => bytes \in visible[u]
    <3>1. bytes = NoFile => L!Object(bytes, meta) = NoFile
      BY PartConstants DEF L!Object
    <3> QED
      BY <1>3, <2>1, <3>1 DEF OnePut, L!ReadBytes
  <2>3. t \in Call /\ t.pc = "got" /\ t.result = bytes
    <3>1. "got" \in CallPc /\ bytes \in Contents \cup {"created", "rejected", NoFile}
      BY <2>1 DEF CallPc
    <3> DEFINE old == user[u]
    <3>2. old \in Call /\ t = [old EXCEPT !.pc = "got", !.result = bytes]
      BY <2>1
    <3> HIDE DEF t, old
    <3> QED
      BY <3>1, <3>2 DEF Call, CallPc
  <2> HIDE DEF t
  <2> QED
    BY <1>0, <2>1, <2>2, <2>3, CallStep
<1>4. CASE L!Return(u) \/ L!Crash(u)
  <2>1. PICK seen \in {{}, visible[u]} :
          /\ user' = [user EXCEPT ![u] = L!Resting] /\ visible' = [visible EXCEPT ![u] = seen]
          /\ UNCHANGED <<bytes, meta, puts>>
    BY <1>0, <1>4 DEF L!Return, L!Crash
  <2>2. L!Resting \in Call /\ L!Resting.pc = "idle"
    BY <1>0, RestingFields
  <2>3. seen \in SUBSET Filled
    BY <1>0
  <2> QED
    BY <2>1, <2>2, <2>3, CallStep
<1> QED
  BY <1>1, <1>2, <1>3, <1>4

LEMMA StartPutKeepsInv ==
  ASSUME LocalInv, NEW u \in Users, L!StartPut(u)
  PROVE  LocalInv'
<1> USE DEF LocalInv
<1>1. PICK content \in Contents :
        user' = [user EXCEPT ![u] = [L!Resting EXCEPT !.pc = "put", !.content = content]]
  BY DEF L!StartPut
<1> DEFINE t == [L!Resting EXCEPT !.pc = "put", !.content = content]
<1>2. t \in Call /\ t.pc = "put" /\ t.content = content /\ user' = [user EXCEPT ![u] = t]
  BY <1>1, RestingFields DEF Filled
<1> HIDE DEF t
<1>3. /\ user' \in [Users -> Call] /\ user'[u].pc = "put"
      /\ \A o \in Users : user'[o].pc \in Putting => user'[o].content \in Contents
      /\ \A o \in Users \ {u} : user'[o] = user[o]
  BY <1>2, UserStep
<1>4. puts' = puts + 1 /\ puts \in Nat /\ UNCHANGED <<bytes, meta, visible>>
  BY DEF L!StartPut, LocalTyped
<1>5. LocalTyped'
  BY <1>3, <1>4 DEF LocalTyped
<1>6. OnePut'
  BY <1>3, <1>4, PartConstants DEF OnePut, PutStands, Putting
<1>7. Reads'
  BY <1>3, <1>4 DEF Reads, L!Object
<1> QED
  BY <1>5, <1>6, <1>7

InLocal == part = "local" => LocalInv

\* A get() of a key that is put once returns what the object was at one instant
\* of the call, or rejects: whatever puts, gets and deletes it overlaps, and
\* wherever processes end.
THEOREM GetsAreAtomic == PartsSpec => []GetIsAtomic
<1>1. PartsInit => InLocal
  BY LocalInitInv DEF PartsInit, InLocal
<1>2. InLocal /\ [PartsNext]_partsVars => InLocal'
  <2> SUFFICES ASSUME InLocal, [PartsNext]_partsVars, part' = "local"
               PROVE  LocalInv'
    BY DEF InLocal
  <2>1. part = "local" /\ LocalInv
    BY DEF PartsNext, partsVars, InLocal
  <2>2. CASE UNCHANGED localVars
    BY <2>1, <2>2 DEF localVars, LocalInv, LocalTyped, OnePut, PutStands, Reads, L!Object
  <2>3. CASE L!LocalNext
    BY <2>1, <2>3, StartPutKeepsInv, CallsKeepInv, WriteFilesKeepsInv, DeleteKeepsInv DEF L!LocalNext
  <2> QED
    BY <2>1, <2>2, <2>3 DEF PartsNext, partsVars
<1>3. InLocal => GetIsAtomic
  BY DEF InLocal, LocalInv, Reads, GetIsAtomic, L!GetIsAtomic
<1> QED
  BY <1>1, <1>2, <1>3, PTL DEF PartsSpec

-----------------------------------------------------------------------------
(***************************************************************************)
(* Serialization.  No text of the field has the virtual mask that a        *)
(* protected one is shown under: the seals the policies put on a text and  *)
(* take off it are of other keys.  And the store tells the getters of a    *)
(* plain read about access only after one of them threw.                   *)
(***************************************************************************)
Strategies == {"none", "mask", "encrypt", "hash"}
Levels == {"none", "public", "protected", "private", "internal"}
TextLabels == {"none", "other", "v0"}
SealKeys == {"DATA_SECRET_KEY", "DATA_AES_KEY", "no key", "symmetric"} \X TextLabels
FieldSeals == [by : {"mask", "garbled", "encrypt", "hash"}, key : SealKeys, under : TextLabels]
FieldTexts == [plain : {"value"}, seals : Seq(FieldSeals), label : TextLabels]

Virtual == <<"virtual", "none">>

Sessions == {"none", "untyped", "anonymous", "user"}
Stores == [session : Sessions, useDataAccessGet : BOOLEAN]
Waiting == [given : {"none", "anonymous", "user"}, in : Stores]

SerializationTyped ==
    /\ schema \in J!PreprocessSchema
    /\ store \in Stores /\ (pending # Nothing => pending \in Waiting)

ToldAfterThrow == store.useDataAccessGet => threw

SerializationInv == SerializationTyped /\ ToldAfterThrow /\ J!AccessIsForSerialization

\* A seal of one of the policies makes no other text of a text of the field.
LEMMA SealedTexts ==
  ASSUME NEW t \in FieldTexts, NEW by \in {"mask", "garbled", "encrypt", "hash"},
         NEW key \in SealKeys, NEW label \in TextLabels
  PROVE  J!Sealed(t, by, key, label) \in FieldTexts
<1> DEFINE seal == [by |-> by, key |-> key, under |-> t.label]
<1>1. t.plain = "value" /\ t.seals \in Seq(FieldSeals) /\ t.label \in TextLabels
  BY DEF FieldTexts
<1>2. seal \in FieldSeals
  BY <1>1 DEF FieldSeals
<1> HIDE DEF seal
<1>3. Append(t.seals, seal) \in Seq(FieldSeals)
  BY <1>1, <1>2
<1>4. J!Sealed(t, by, key, label) = [plain |-> t.plain, seals |-> Append(t.seals, seal), label |-> label]
  BY DEF J!Sealed, seal
<1> QED
  BY <1>1, <1>3, <1>4 DEF FieldTexts

LEMMA UnsealedTexts ==
  ASSUME NEW t \in FieldTexts, t.seals # << >>
  PROVE  J!Unsealed(t) \in FieldTexts
<1> DEFINE s == t.seals
           n == Len(s)
<1>1. t.plain = "value" /\ s \in Seq(FieldSeals)
  BY DEF FieldTexts
<1> HIDE DEF s
<1>2. n \in Nat \ {0} /\ s[n] \in FieldSeals
  BY <1>1 DEF s
<1>3. SubSeq(s, 1, n - 1) \in Seq(FieldSeals)
  BY <1>1, <1>2
<1>4. s[n].under \in TextLabels
  BY <1>2 DEF FieldSeals
<1> QED
  BY <1>1, <1>3, <1>4 DEF J!Unsealed, J!Outer, FieldTexts, s

\* The virtual mask can be told from all that is in the document.
LEMMA VirtualIsOther ==
  ASSUME NEW t \in FieldTexts
  PROVE  J!Sealed(t, "mask", Virtual, t.label) \notin FieldTexts
<1> DEFINE s == t.seals
           seal == [by |-> "mask", key |-> Virtual, under |-> t.label]
<1>1. s \in Seq(FieldSeals)
  BY DEF FieldTexts
<1>2. J!Sealed(t, "mask", Virtual, t.label).seals = Append(s, seal)
  BY DEF J!Sealed
<1>3. seal \notin FieldSeals
  BY DEF FieldSeals, SealKeys, Virtual
<1> HIDE DEF s, seal
<1>4. /\ Len(Append(s, seal)) = Len(s) + 1 /\ Append(s, seal)[Len(s) + 1] = seal
      /\ Len(s) + 1 \in 1 .. Len(s) + 1 /\ Len(s) \in Nat
  BY <1>1
<1>5. Append(s, seal) \notin Seq(FieldSeals)
  <2> SUFFICES ASSUME Append(s, seal) \in Seq(FieldSeals) PROVE FALSE
    OBVIOUS
  <2>1. Append(s, seal)[Len(s) + 1] \in FieldSeals
    BY <1>4
  <2> QED
    BY <1>3, <1>4, <2>1
<1> QED
  BY <1>2, <1>5 DEF FieldTexts

\* What the document has, and what its protection makes of it.
LEMMA PolicyFacts ==
  ASSUME NEW strategy
  PROVE  /\ J!Policy(strategy).activeVersion = "v0"
         /\ \A v : /\ J!HasVariant(J!Policy(strategy), v)
                   /\ J!Variant(J!Policy(strategy), v) = [strategy |-> strategy, type |-> "symmetric"]
<1> DEFINE option == [strategy |-> strategy, type |-> "symmetric"]
           configs == [v \in {"default"} |-> option]
<1>1. "activeVersion" \notin DOMAIN option
  OBVIOUS
<1> HIDE DEF option
<1>2. J!Policy(strategy) = [activeVersion |-> "v0", versionConfigs |-> configs]
  BY <1>1 DEF J!Policy, J!NormalizeDataProtection, option
<1>3. J!Policy(strategy).activeVersion = "v0" /\ J!Policy(strategy).versionConfigs = configs
  BY <1>2
<1>4. DOMAIN configs = {"default"} /\ configs["default"] = option
  OBVIOUS
<1> HIDE DEF configs
<1>5. \A v : J!HasVariant(J!Policy(strategy), v) /\ J!Variant(J!Policy(strategy), v) = option
  BY <1>3, <1>4 DEF J!HasVariant, J!Variant
<1> QED
  BY <1>3, <1>5 DEF option

LEMMA MaskKeys ==
  ASSUME NEW v \in TextLabels, J!MaskKey(v, J!Environment)[1] # "missing"
  PROVE  J!MaskKey(v, J!Environment) \in SealKeys
BY DEF J!MaskKey, SealKeys

LEMMA RawTexts ==
  ASSUME schema \in J!PreprocessSchema
  PROVE  J!Raw \in FieldTexts
<1> DEFINE p == J!PlainText("value")
           policy == J!Policy(schema.protection)
<1>1. p \in FieldTexts
  BY DEF J!PlainText, FieldTexts, TextLabels
<1>2. schema.protection \in Strategies
  BY DEF J!PreprocessSchema, Strategies
<1> HIDE DEF p
<1>3. /\ policy.activeVersion = "v0" /\ J!Variant(policy, "v0").strategy = schema.protection
      /\ J!Variant(policy, "v0").type = "symmetric"
  BY PolicyFacts
<1> HIDE DEF policy
<1>4. schema.protection = "mask" => J!Mask(p, "v0", J!Environment) \in FieldTexts
  BY <1>1, MaskKeys, SealedTexts DEF J!Mask, TextLabels
<1>5. schema.protection = "encrypt" => J!Encrypt(p, "symmetric", "v0", J!Environment) \in FieldTexts
  BY <1>1, SealedTexts DEF J!Encrypt, SealKeys, TextLabels
<1>6. schema.protection = "hash" => J!Hash(p) \in FieldTexts
  BY <1>1, SealedTexts DEF J!Hash, SealKeys, TextLabels
<1>7. J!Raw = IF schema.protection = "none" THEN p ELSE J!Protect(policy, p, J!Environment)
  BY DEF J!Raw, p, policy
<1> QED
  BY <1>1, <1>2, <1>3, <1>4, <1>5, <1>6, <1>7 DEF J!Protect, Strategies

LEMMA ReadTexts ==
  ASSUME NEW t \in FieldTexts
  PROVE  /\ J!ExtractVersion(t).message \in FieldTexts
         /\ J!ExtractVersion(t).version \in TextLabels
<1>1. [t EXCEPT !.label = "none"] \in FieldTexts
  BY DEF FieldTexts, TextLabels
<1>2. t.label \in TextLabels
  BY DEF FieldTexts
<1> QED
  BY <1>1, <1>2 DEF J!ExtractVersion, TextLabels

LEMMA GetterTexts ==
  ASSUME NEW t \in FieldTexts, NEW strategy \in Strategies \ {"none"}
  PROVE  LET a == J!Accessor(J!Policy(strategy), t) IN
         /\ a.text \in FieldTexts /\ a.version \in TextLabels /\ a.type = "symmetric"
         /\ a.method \in {"unmask", "decrypt", "verify"}
<1> DEFINE read == J!ExtractVersion(t)
           variant == [strategy |-> strategy, type |-> "symmetric"]
<1>1. read.message \in FieldTexts /\ read.version \in TextLabels
  BY ReadTexts
<1> HIDE DEF read
<1>2. J!Accessor(J!Policy(strategy), t) = J!WithMethod(variant, read)
  BY PolicyFacts DEF J!Accessor, read
<1> QED
  BY <1>1, <1>2 DEF J!WithMethod, Strategies

LEMMA DecodedTexts ==
  ASSUME schema \in J!PreprocessSchema
  PROVE  J!Decoded \in FieldTexts \cup {Nothing}
<1> DEFINE t == J!Raw
           policy == J!Policy(schema.protection)
           a == J!Accessor(policy, t)
<1>1. t \in FieldTexts /\ schema.protection \in Strategies
  BY RawTexts DEF J!PreprocessSchema, Strategies
<1>2. CASE schema.protection = "none" \/ t = Nothing
  BY <1>1, <1>2 DEF J!Decoded, J!Unprotect
<1>3. CASE schema.protection # "none" /\ t # Nothing
  <2>1. /\ a.text \in FieldTexts /\ a.version \in TextLabels /\ a.type = "symmetric"
        /\ a.method \in {"unmask", "decrypt", "verify"}
    BY <1>1, <1>3, GetterTexts
  <2>2. J!Decoded = CASE a.method = "unmask" -> J!Unmask(a.text, a.version, J!Environment)
                      [] a.method = "decrypt" -> J!Decrypt(a.text, a.type, a.version, J!Environment)
                      [] a.method \in {"verify", "none"} -> Nothing
    BY <1>3 DEF J!Decoded, J!Unprotect
  <2> HIDE DEF t, policy, a
  <2>3. J!Unmask(a.text, a.version, J!Environment) \in FieldTexts
    <3> DEFINE key == J!MaskKey(a.version, J!Environment)
    <3>1. key[1] # "missing" => key \in SealKeys
      BY <2>1, MaskKeys
    <3>2. key[1] # "missing" => J!Sealed(a.text, "garbled", key, "none") \in FieldTexts
      BY <2>1, <3>1, SealedTexts DEF TextLabels
    <3>3. J!IsSealed(a.text, "mask", key) => J!Unsealed(a.text) \in FieldTexts
      BY <2>1, UnsealedTexts DEF J!IsSealed
    <3> QED
      BY <2>1, <3>2, <3>3 DEF J!Unmask
  <2>4. J!Decrypt(a.text, a.type, a.version, J!Environment) \in FieldTexts
    BY <2>1, UnsealedTexts DEF J!Decrypt, J!IsSealed
  <2> QED
    BY <2>1, <2>2, <2>3, <2>4
<1> QED
  BY <1>2, <1>3

\* The texts that are withheld are texts of the field.
LEMMA WithheldTexts ==
  ASSUME schema \in J!PreprocessSchema
  PROVE  J!Withheld \subseteq FieldTexts \cup {Nothing}
<1>1. J!Raw \in FieldTexts /\ J!Decoded \in FieldTexts \cup {Nothing} /\ schema.protection \in Strategies
  BY RawTexts, DecodedTexts DEF J!PreprocessSchema, Strategies
<1>2. schema.protection # "none" => J!DataProtectionGetter.text \in FieldTexts
  BY <1>1, GetterTexts DEF J!DataProtectionGetter
<1> QED
  BY <1>1, <1>2 DEF J!Withheld

\* What the policy of access lets through.
LEMMA AccessKeepsThePolicy ==
  ASSUME schema \in J!PreprocessSchema,
         NEW raw \in {J!Raw, J!Decoded}, NEW session \in Sessions
  PROVE  LET text == J!Access(schema.access, raw, session) IN
         /\ schema.access = "internal" \/ session = "none" => text = Nothing
         /\ session = "anonymous" =>
              /\ schema.access = "private" => text = Nothing
              /\ schema.access = "protected" => text \notin J!Withheld \ {Nothing}
<1>1. raw \in FieldTexts \cup {Nothing}
  BY RawTexts, DecodedTexts
<1> DEFINE masked == J!Sealed(raw, "mask", Virtual, raw.label)
<1>2. raw # Nothing => masked \notin J!Withheld \ {Nothing}
  BY <1>1, WithheldTexts, VirtualIsOther
<1> HIDE DEF masked
<1>3. J!Access("protected", raw, "anonymous") = IF raw = Nothing THEN Nothing ELSE masked
  BY DEF J!Access, masked, Virtual
<1> QED
  BY <1>2, <1>3 DEF J!Access

-----------------------------------------------------------------------------
\* What a serialization is given goes through the policy of access.
LEMMA ShowsTheAllowed ==
  ASSUME schema \in J!PreprocessSchema, J!HasDataAccess, NEW raw \in {J!Raw, J!Decoded},
         NEW given \in {"none", "anonymous", "user"}, NEW in \in Stores
  PROVE  LET session == J!Effective(given, in)
             text == J!BaseTransformations(raw, given, in).text IN
         /\ schema.access = "internal" \/ session = "none" => text = Nothing
         /\ session = "anonymous" =>
              /\ schema.access = "private" => text = Nothing
              /\ schema.access = "protected" => text \notin J!Withheld \ {Nothing}
<1> DEFINE session == J!Effective(given, in)
           told == [in EXCEPT !.useDataAccessGet = TRUE]
<1>1. told.useDataAccessGet = TRUE /\ told.session = in.session /\ session \in Sessions
  BY DEF J!Effective, Stores, Sessions
<1>2. CASE J!ByGetters(given, in)
  <2>1. session = told.session
    BY <1>1, <1>2 DEF J!ByGetters, J!Effective
  <2>2. J!BaseTransformations(raw, given, in) = J!Getter(told)
    BY <1>2 DEF J!BaseTransformations, J!TransformByDataAccess
  <2> HIDE DEF told
  <2>3. J!Getter(told) = J!DataAccessGetter(told)
    BY <1>1 DEF J!Getter, J!DataPoliciesGetter
  <2>4. J!BaseTransformations(raw, given, in).text = J!Access(schema.access, J!Raw, session)
    BY <2>1, <2>2, <2>3 DEF J!DataAccessGetter, J!Value
  <2> HIDE DEF session
  <2> QED
    BY <1>1, <2>4, AccessKeepsThePolicy DEF session
<1>3. CASE ~J!ByGetters(given, in)
  <2>1. J!BaseTransformations(raw, given, in).text = J!Access(schema.access, raw, session)
    BY <1>3 DEF J!BaseTransformations, J!TransformByDataAccess, J!Value
  <2> QED
    BY <1>1, <2>1, AccessKeepsThePolicy
<1> QED
  BY <1>2, <1>3

LEMMA SerializationInitInv == J!SerializationInit => SerializationInv
<1> SUFFICES ASSUME J!SerializationInit PROVE SerializationInv
  OBVIOUS
<1>1. store \in Stores /\ schema \in J!PreprocessSchema /\ pending = Nothing /\ shown = Nothing
  BY DEF J!SerializationInit, Stores, Sessions
<1>2. ToldAfterThrow
  BY DEF J!SerializationInit, ToldAfterThrow
<1> QED
  BY <1>1, <1>2 DEF SerializationInv, SerializationTyped, J!AccessIsForSerialization,
     J!NothingBeyondThePolicy, J!ReadsIgnoreTheAccess

\* Something is shown, by a serialization.
LEMMA SerializationShows ==
  ASSUME SerializationInv, NEW raw \in {J!Raw, J!Decoded},
         NEW given \in {"none", "anonymous", "user"}, NEW in \in Stores,
         J!Shows("toJSON", J!Effective(given, in), J!BaseTransformations(raw, given, in)),
         UNCHANGED schema
  PROVE  J!AccessIsForSerialization'
<1> DEFINE session == J!Effective(given, in)
           got == J!BaseTransformations(raw, given, in)
<1>1. shown' = [by |-> "toJSON", session |-> session, got |-> got]
  BY DEF J!Shows
<1>2. J!HasDataAccess =>
        /\ schema.access = "internal" \/ session = "none" => got.text = Nothing
        /\ session = "anonymous" =>
             /\ schema.access = "private" => got.text = Nothing
             /\ schema.access = "protected" => got.text \notin J!Withheld \ {Nothing}
  BY ShowsTheAllowed DEF SerializationInv, SerializationTyped
<1> HIDE DEF session, got
<1>3. shown'.by = "toJSON" /\ shown'.session = session /\ shown'.got = got
  BY <1>1
<1>4. J!Withheld' = J!Withheld /\ (J!HasDataAccess' <=> J!HasDataAccess)
  BY DEF J!Withheld, J!Raw, J!Decoded, J!DataProtectionGetter, J!HasDataAccess
<1> QED
  BY <1>2, <1>3, <1>4 DEF J!AccessIsForSerialization, J!NothingBeyondThePolicy, J!ReadsIgnoreTheAccess

\* Nothing more is shown.
LEMMA SameShown ==
  ASSUME SerializationInv, UNCHANGED <<schema, shown>>, threw => threw'
  PROVE  J!AccessIsForSerialization'
<1>1. /\ J!Withheld' = J!Withheld /\ (J!HasDataAccess' <=> J!HasDataAccess)
      /\ J!DataProtectionGetter' = J!DataProtectionGetter
  BY DEF J!Withheld, J!Raw, J!Decoded, J!DataProtectionGetter, J!HasDataAccess
<1> QED
  BY <1>1 DEF SerializationInv, J!AccessIsForSerialization, J!NothingBeyondThePolicy, J!ReadsIgnoreTheAccess

LEMMA SerializationNextKeepsInv == SerializationInv /\ J!SerializationNext => SerializationInv'
<1> SUFFICES ASSUME SerializationInv, J!SerializationNext PROVE SerializationInv'
  OBVIOUS
<1> USE DEF SerializationInv, SerializationTyped
<1>1. CASE J!UseALS
  <2>1. store' \in Stores /\ store'.useDataAccessGet = FALSE
    BY <1>1 DEF J!UseALS, Stores, Sessions
  <2>2. UNCHANGED <<schema, pending, shown, threw>>
    BY <1>1 DEF J!UseALS
  <2> QED
    BY <2>1, <2>2, SameShown DEF ToldAfterThrow
<1>2. CASE J!Read
  <2>1. /\ shown' = [by |-> "read", session |-> store.session, got |-> J!Getter(store)]
        /\ UNCHANGED <<schema, store, pending, threw>>
    BY <1>2 DEF J!Read, J!Shows
  <2>2. schema.protection # "none" /\ ~threw => J!Getter(store) = J!DataProtectionGetter
    BY DEF J!Getter, J!DataPoliciesGetter, ToldAfterThrow
  <2>3. shown'.by = "read" /\ shown'.got = J!Getter(store)
    BY <2>1
  <2>4. J!DataProtectionGetter' = J!DataProtectionGetter
    BY <2>1 DEF J!DataProtectionGetter, J!Raw
  <2>5. J!AccessIsForSerialization'
    BY <2>1, <2>2, <2>3, <2>4 DEF J!AccessIsForSerialization, J!NothingBeyondThePolicy, J!ReadsIgnoreTheAccess
  <2> QED
    BY <2>1, <2>5 DEF ToldAfterThrow
<1>3. CASE J!TransformResolves
  <2>1. pending \in Waiting /\ pending' = Nothing /\ UNCHANGED <<schema, store, threw>>
    BY <1>3 DEF J!TransformResolves
  <2>2. pending.given \in {"none", "anonymous", "user"} /\ pending.in \in Stores
    BY <2>1 DEF Waiting
  <2>3. J!AccessIsForSerialization'
    <3>1. CASE UNCHANGED shown
      BY <2>1, <3>1, SameShown
    <3>2. CASE J!Shows("toJSON", J!Effective(pending.given, pending.in),
                       J!BaseTransformations(J!Decoded, pending.given, pending.in))
      BY <2>1, <2>2, <3>2, SerializationShows
    <3> QED
      BY <1>3, <3>1, <3>2 DEF J!TransformResolves
  <2> QED
    BY <2>1, <2>3 DEF ToldAfterThrow
<1>4. ASSUME NEW given \in {"none", "anonymous", "user"}, J!ToJSON(given)
      PROVE  SerializationInv'
  <2>1. UNCHANGED <<schema, store, pending, threw>>
    BY <1>4 DEF J!ToJSON
  <2>2. J!AccessIsForSerialization'
    BY <1>4, <2>1, SerializationShows DEF J!ToJSON
  <2> QED
    BY <2>1, <2>2 DEF ToldAfterThrow
<1>5. ASSUME NEW given \in {"none", "anonymous", "user"}, J!ToJSONThrows(given)
      PROVE  SerializationInv'
  <2>1. threw' = TRUE /\ UNCHANGED <<schema, pending, shown>> /\ store' \in Stores
    BY <1>5 DEF J!ToJSONThrows, Stores
  <2> QED
    BY <2>1, SameShown DEF ToldAfterThrow
<1>6. ASSUME NEW given \in {"none", "anonymous", "user"}, J!AwaitTransform(given)
      PROVE  SerializationInv'
  <2>1. pending' \in Waiting /\ UNCHANGED <<schema, store, shown, threw>>
    BY <1>6 DEF J!AwaitTransform, Waiting
  <2> QED
    BY <2>1, SameShown DEF ToldAfterThrow
<1> QED
  BY <1>1, <1>2, <1>3, <1>4, <1>5, <1>6 DEF J!SerializationNext

InSerialization == part = "serialization" => SerializationInv

\* However often a request enters the store, reads and serializes, nobody is shown
\* more of a field than its policy gives the session, at once or after a transform
\* that took its time; and a plain read is none of the policy's business.
THEOREM AccessGovernsSerialization == PartsSpec => []AccessIsForSerialization
<1>1. PartsInit => InSerialization
  BY SerializationInitInv DEF PartsInit, InSerialization
<1>2. InSerialization /\ [PartsNext]_partsVars => InSerialization'
  <2> SUFFICES ASSUME InSerialization, [PartsNext]_partsVars, part' = "serialization"
               PROVE  SerializationInv'
    BY DEF InSerialization
  <2>1. part = "serialization" /\ SerializationInv
    BY DEF PartsNext, partsVars, InSerialization
  <2>2. CASE UNCHANGED serializationVars
    BY <2>1, <2>2, SameShown DEF serializationVars, SerializationInv, SerializationTyped, ToldAfterThrow
  <2>3. CASE J!SerializationNext
    BY <2>1, <2>3, SerializationNextKeepsInv
  <2> QED
    BY <2>1, <2>2, <2>3 DEF PartsNext, partsVars
<1>3. InSerialization => AccessIsForSerialization
  BY DEF InSerialization, SerializationInv, AccessIsForSerialization
<1> QED
  BY <1>1, <1>2, <1>3, PTL DEF PartsSpec

-----------------------------------------------------------------------------
(***************************************************************************)
(* Pagination.  A document has its rank among those found: a page ends at  *)
(* a rank, and whatever comes up to its last document is on it or before   *)
(* it.  The walk by cursor has seen what was there up to the cursor        *)
(* (CursorSees); the one by pages, while nobody writes, what comes up to   *)
(* the rank of its page (PagesSee).                                        *)
(***************************************************************************)

\* The document of a rank.
Ranked(ids, i) == CHOOSE id \in ids : P!Rank(id, ids) = i

\* The numbers of documents in Pagination are those of FiniteSets here.
LEMMA SameCardinality ==
  ASSUME NEW S
  PROVE  P!Cardinality(S) = Cardinality(S)
BY DEF P!Cardinality, Cardinality

\* The documents of a set are ranked from one to their number, in their order.
LEMMA Ranks ==
  ASSUME NEW ids \in SUBSET Nat, IsFiniteSet(ids)
  PROVE  /\ Cardinality(ids) \in Nat
         /\ \A x \in ids : P!Rank(x, ids) \in 1 .. Cardinality(ids)
         /\ \A x, y \in ids : x < y => P!Rank(x, ids) < P!Rank(y, ids)
         /\ \A i \in 1 .. Cardinality(ids) : \E x \in ids : P!Rank(x, ids) = i
<1> DEFINE n == Cardinality(ids)
           upto(x) == {other \in ids : other <= x}
           f == [x \in ids |-> P!Rank(x, ids)]
<1>1. n \in Nat
  BY FS_CardinalityType
<1>2. ASSUME NEW x \in ids
      PROVE  /\ IsFiniteSet(upto(x)) /\ upto(x) \subseteq ids /\ x \in upto(x)
             /\ P!Rank(x, ids) = Cardinality(upto(x)) /\ P!Rank(x, ids) \in 1 .. n
  <2>1. upto(x) \in SUBSET ids /\ x \in upto(x)
    OBVIOUS
  <2>2. P!Rank(x, ids) = Cardinality(upto(x))
    BY SameCardinality DEF P!Rank
  <2> HIDE DEF upto
  <2>3. IsFiniteSet(upto(x)) /\ Cardinality(upto(x)) <= n
    BY <2>1, FS_Subset
  <2>4. Cardinality(upto(x)) \in Nat /\ Cardinality(upto(x)) # 0
    BY <2>1, <2>3, FS_CardinalityType, FS_EmptySet
  <2> QED
    BY <1>1, <2>1, <2>2, <2>3, <2>4
<1>3. ASSUME NEW x \in ids, NEW y \in ids, x < y
      PROVE  P!Rank(x, ids) < P!Rank(y, ids)
  <2>1. upto(x) \in SUBSET upto(y) /\ y \notin upto(x)
    <3>1. x \in Nat /\ y \in Nat /\ \A z \in ids : z \in Nat
      OBVIOUS
    <3>2. \A z \in upto(x) : z \in upto(y)
      BY <1>3, <3>1
    <3>3. ~(y <= x)
      BY <1>3, <3>1
    <3>4. y \notin upto(x)
      BY <3>3
    <3> HIDE DEF upto
    <3> QED
      BY <3>2, <3>4
  <2> HIDE DEF upto
  <2>2. Cardinality(upto(x)) <= Cardinality(upto(y)) /\ Cardinality(upto(x)) # Cardinality(upto(y))
    BY <1>2, <2>1, FS_Subset
  <2> HIDE DEF n
  <2> QED
    BY <1>1, <1>2, <2>2
<1>4. f \in Injection(ids, 1 .. n)
  <2>1. f \in [ids -> 1 .. n]
    BY <1>2
  <2>2. IsInjective(f)
    <3> SUFFICES ASSUME NEW x \in ids, NEW y \in ids, f[x] = f[y] PROVE x = y
      BY DEF IsInjective
    <3>1. P!Rank(x, ids) = P!Rank(y, ids)
      OBVIOUS
    <3>2. P!Rank(x, ids) \in 1 .. n
      BY <1>2
    <3>3. x \in Nat /\ y \in Nat
      OBVIOUS
    <3> HIDE DEF n, f
    <3>4. ~(x < y) /\ ~(y < x)
      BY <1>1, <1>3, <3>1, <3>2
    <3> QED
      BY <3>3, <3>4
  <2> QED
    BY <2>1, <2>2 DEF Injection
<1>5. f \in Surjection(ids, 1 .. n)
  <2>1. IsFiniteSet(1 .. n) /\ Cardinality(1 .. n) = n
    BY <1>1, FS_Interval
  <2> HIDE DEF f
  <2> QED
    BY <1>4, <2>1, FS_Injection
<1>6. \A i \in 1 .. n : \E x \in ids : P!Rank(x, ids) = i
  BY <1>5 DEF Surjection
<1> QED
  BY <1>1, <1>2, <1>3, <1>6

\* The first of them are those of the first ranks, each at its own.
LEMMA TheFirst ==
  ASSUME NEW ids \in SUBSET Nat, IsFiniteSet(ids), NEW n \in Nat
  PROVE  LET f == P!FirstOf(ids, n) IN
         /\ f \in Seq(ids)
         /\ Len(f) = IF n < Cardinality(ids) THEN n ELSE Cardinality(ids)
         /\ \A i \in 1 .. Len(f) : /\ f[i] = Ranked(ids, i)
                                   /\ P!Rank(f[i], ids) = i
         /\ \A i, j \in 1 .. Len(f) : i < j => f[i] < f[j]
         /\ \A x \in ids : P!Rank(x, ids) <= Len(f) => f[P!Rank(x, ids)] = x
<1> DEFINE c == Cardinality(ids)
           m == IF n < c THEN n ELSE c
           f == P!FirstOf(ids, n)
<1>1. /\ c \in Nat
      /\ \A x \in ids : P!Rank(x, ids) \in 1 .. c
      /\ \A x, y \in ids : x < y => P!Rank(x, ids) < P!Rank(y, ids)
      /\ \A i \in 1 .. c : \E x \in ids : P!Rank(x, ids) = i
  BY Ranks
<1> HIDE DEF c
<1>2. P!Min({n, c}) = m
  <2>1. m \in {n, c} /\ \A y \in {n, c} : m =< y
    BY <1>1
  <2>2. ASSUME NEW x \in {n, c}, \A y \in {n, c} : x =< y PROVE x = m
    BY <1>1, <2>2
  <2> HIDE DEF m
  <2> QED
    BY <2>1, <2>2 DEF P!Min
<1>3. m \in Nat /\ m <= c
  BY <1>1
<1> HIDE DEF m
<1>4. ASSUME NEW i \in 1 .. m PROVE Ranked(ids, i) \in ids /\ P!Rank(Ranked(ids, i), ids) = i
  <2>1. \E x \in ids : P!Rank(x, ids) = i
    BY <1>1, <1>3
  <2> QED
    BY <2>1 DEF Ranked
<1>5. f = [i \in 1 .. m |-> Ranked(ids, i)]
  BY <1>2, SameCardinality DEF P!FirstOf, Ranked, c
<1> HIDE DEF f
<1>6. f \in Seq(ids) /\ Len(f) = m /\ \A i \in 1 .. m : f[i] = Ranked(ids, i)
  BY <1>3, <1>4, <1>5
<1>7. \A i \in 1 .. m : f[i] \in ids /\ P!Rank(f[i], ids) = i
  BY <1>4, <1>6
<1>8. ASSUME NEW i \in 1 .. m, NEW j \in 1 .. m, i < j PROVE f[i] < f[j]
  <2>1. f[i] \in Nat /\ f[j] \in Nat
    BY <1>7
  <2>2. f[i] \in ids /\ f[j] \in ids /\ P!Rank(f[i], ids) = i /\ P!Rank(f[j], ids) = j
    BY <1>7
  <2>3. i \in Nat /\ j \in Nat /\ f[i] # f[j]
    BY <1>3, <1>8, <2>2
  <2>4. ~(f[j] < f[i])
    <3>1. f[j] < f[i] => P!Rank(f[j], ids) < P!Rank(f[i], ids)
      BY <1>1, <2>2
    <3> QED
      BY <1>8, <2>2, <2>3, <3>1
  <2> QED
    BY <2>1, <2>3, <2>4
<1>9. ASSUME NEW x \in ids, P!Rank(x, ids) <= m PROVE f[P!Rank(x, ids)] = x
  <2> DEFINE r == P!Rank(x, ids)
  <2>1. r \in 1 .. m
    BY <1>1, <1>3, <1>9
  <2>2. f[r] \in ids /\ P!Rank(f[r], ids) = r
    BY <1>7, <2>1
  <2>3. x \in Nat /\ r = P!Rank(x, ids)
    OBVIOUS
  <2> HIDE DEF r
  <2>4. f[r] \in Nat
    BY <2>2
  <2>5. r \in Nat
    BY <1>3, <2>1
  <2>6. /\ f[r] < x => P!Rank(f[r], ids) < P!Rank(x, ids)
        /\ x < f[r] => P!Rank(x, ids) < P!Rank(f[r], ids)
    BY <1>1, <2>2
  <2>7. f[r] = x
    BY <2>2, <2>3, <2>6, <2>4, <2>5
  <2> QED
    BY <2>3, <2>7
<1> QED
  BY <1>6, <1>7, <1>8, <1>9 DEF f, m, c

\* What is left of a longer beginning comes after a shorter one.
LEMMA PageAfterPage ==
  ASSUME NEW ids \in SUBSET Nat, IsFiniteSet(ids), NEW skip \in Nat, NEW n \in Nat
  PROVE  LET f == P!FirstOf(ids, skip + n) IN
         P!FirstOf(ids, skip) \o SubSeq(f, skip + 1, Len(f)) = f
<1> DEFINE c == Cardinality(ids)
           f == P!FirstOf(ids, skip + n)
           g == P!FirstOf(ids, skip)
           rest == SubSeq(f, skip + 1, Len(f))
<1>1. c \in Nat
  BY FS_CardinalityType
<1>2. /\ f \in Seq(ids) /\ Len(f) = IF skip + n < c THEN skip + n ELSE c
      /\ g \in Seq(ids) /\ Len(g) = IF skip < c THEN skip ELSE c
  BY TheFirst
<1>3. /\ \A i \in 1 .. Len(f) : f[i] = Ranked(ids, i)
      /\ \A i \in 1 .. Len(g) : g[i] = Ranked(ids, i)
  BY TheFirst
<1> HIDE DEF f, g, c
<1>4. Len(g) <= Len(f) /\ Len(f) \in Nat /\ Len(g) \in Nat
  BY <1>1, <1>2
<1>5. \A i \in 1 .. Len(g) : g[i] = f[i]
  BY <1>3, <1>4
<1>6. /\ rest \in Seq(ids) /\ Len(rest) = Len(f) - Len(g)
      /\ \A i \in 1 .. Len(rest) : rest[i] = f[Len(g) + i]
  <2>1. CASE skip < c
    BY <1>1, <1>2, <1>4, <2>1
  <2>2. CASE ~(skip < c)
    BY <1>1, <1>2, <1>4, <2>2
  <2> QED
    BY <2>1, <2>2
<1> HIDE DEF rest
<1>7. g \in Seq(ids) /\ rest \in Seq(ids)
  BY <1>2, <1>6
<1>8. /\ g \o rest \in Seq(ids) /\ Len(g \o rest) = Len(g) + Len(rest)
       /\ \A i \in 1 .. Len(g) + Len(rest) :
            (g \o rest)[i] = IF i <= Len(g) THEN g[i] ELSE rest[i - Len(g)]
  BY <1>7, ConcatProperties, Zenon
<1>9. g \o rest \in Seq(ids) /\ Len(g \o rest) = Len(f)
  BY <1>4, <1>6, <1>8
<1>10. ASSUME NEW i \in 1 .. Len(f) PROVE (g \o rest)[i] = f[i]
  <2>1. CASE i <= Len(g)
    BY <1>4, <1>5, <1>6, <1>8, <2>1
  <2>2. CASE Len(g) < i
    <3>1. i - Len(g) \in 1 .. Len(rest) /\ i > Len(g) /\ i \in 1 .. Len(g) + Len(rest)
      BY <1>4, <1>6, <2>2
    <3>2. (g \o rest)[i] = rest[i - Len(g)]
      BY <1>4, <1>8, <3>1
    <3> QED
      BY <1>4, <1>6, <3>1, <3>2
  <2>3. i <= Len(g) \/ Len(g) < i
    BY <1>4
  <2> QED
    BY <2>1, <2>2, <2>3
<1> QED
  BY <1>2, <1>9, <1>10, SeqEqual DEF f, g, rest

-----------------------------------------------------------------------------
Begins(s, t) == Len(s) <= Len(t) /\ \A i \in 1 .. Len(s) : s[i] = t[i]

\* What a prefix is, letter by letter.
LEMMA PrefixLetters ==
  ASSUME NEW S, NEW s \in Seq(S), NEW t \in Seq(S)
  PROVE  P!IsPrefix(s, t) <=> Begins(s, t)
<1> DEFINE a == SubSeq(s, 1, Len(s))
           b == SubSeq(t, 1, Len(s))
<1> DEFINE same == \A i \in 1 .. Len(s) : s[i] = t[i]
<1>1. P!IsPrefix(s, t) <=> Len(s) <= Len(t) /\ a = b
  BY DEF P!IsPrefix
<1>2. SUFFICES ASSUME Len(s) <= Len(t) PROVE a = b <=> same
  BY <1>1, Zenon DEF Begins
<1>3. /\ a \in Seq(S) /\ Len(a) = Len(s) /\ \A i \in 1 .. Len(s) : a[i] = s[i]
      /\ b \in Seq(S) /\ Len(b) = Len(s) /\ \A i \in 1 .. Len(s) : b[i] = t[i]
  BY <1>2
<1> HIDE DEF a, b
<1>4. ASSUME \A i \in 1 .. Len(s) : s[i] = t[i] PROVE a = b
  <2>1. \A i \in 1 .. Len(a) : a[i] = b[i]
    BY <1>3, <1>4
  <2> QED
    BY <1>3, <2>1, SeqEqual
<1>5. ASSUME a = b PROVE \A i \in 1 .. Len(s) : s[i] = t[i]
  BY <1>3, <1>5
<1> QED
  BY <1>4, <1>5

MaskLetters == Nat \X (STRING \cup {"v1"})

\* The letters of a masked text.
LEMMA MaskedLetters ==
  ASSUME NEW w \in Seq(STRING)
  PROVE  /\ P!Masked(w) \in Seq(MaskLetters)
         /\ Len(P!Masked(w)) = Len(w) + 1
         /\ P!Masked(w)[1] = <<0, "v1">>
         /\ \A i \in 1 .. Len(w) : P!Masked(w)[i + 1] = <<i, w[i]>>
<1> DEFINE head == <<<<0, "v1">>>>
           tail == [i \in DOMAIN w |-> <<i, w[i]>>]
<1>1. DOMAIN w = 1 .. Len(w) /\ Len(w) \in Nat /\ \A i \in 1 .. Len(w) : w[i] \in STRING
  OBVIOUS
<1>2. \A i \in 1 .. Len(w) : <<i, w[i]>> \in MaskLetters
  BY <1>1 DEF MaskLetters
<1>3. /\ tail \in Seq(MaskLetters) /\ Len(tail) = Len(w)
      /\ \A i \in 1 .. Len(w) : tail[i] = <<i, w[i]>>
  BY <1>1, <1>2
<1>4. head \in Seq(MaskLetters) /\ Len(head) = 1 /\ head[1] = <<0, "v1">>
  <2>1. <<0, "v1">> \in MaskLetters
    BY DEF MaskLetters
  <2> QED
    BY <2>1
<1>5. P!Masked(w) = head \o tail
  BY DEF P!Masked
<1> HIDE DEF head, tail
<1>6. /\ head \o tail \in Seq(MaskLetters) /\ Len(head \o tail) = Len(head) + Len(tail)
      /\ \A i \in 1 .. Len(head) + Len(tail) :
           (head \o tail)[i] = IF i <= Len(head) THEN head[i] ELSE tail[i - Len(head)]
  <2>1. head \in Seq(MaskLetters) /\ tail \in Seq(MaskLetters)
    BY <1>3, <1>4
  <2> QED
    BY <2>1, ConcatProperties, Zenon
<1>7. Len(head \o tail) = Len(w) + 1 /\ (head \o tail)[1] = <<0, "v1">>
  BY <1>1, <1>3, <1>4, <1>6
<1>8. ASSUME NEW i \in 1 .. Len(w) PROVE (head \o tail)[i + 1] = <<i, w[i]>>
  <2>1. i + 1 \in 1 .. Len(head) + Len(tail) /\ ~(i + 1 <= Len(head)) /\ (i + 1) - Len(head) = i
    BY <1>1, <1>3, <1>4
  <2>2. (head \o tail)[i + 1] = tail[i]
    BY <1>6, <2>1
  <2> QED
    BY <1>3, <2>2
<1> QED
  BY <1>5, <1>6, <1>7, <1>8

\* Masking keeps prefixes, and tells texts apart.
LEMMA MaskKeepsPrefixes ==
  ASSUME NEW s \in Seq(STRING), NEW w \in Seq(STRING)
  PROVE  /\ P!IsPrefix(P!Masked(s), P!Masked(w)) <=> P!IsPrefix(s, w)
         /\ P!Masked(s) = P!Masked(w) <=> s = w
<1> DEFINE m == P!Masked(s)
           n == P!Masked(w)
<1>1. /\ m \in Seq(MaskLetters) /\ Len(m) = Len(s) + 1 /\ m[1] = <<0, "v1">>
      /\ n \in Seq(MaskLetters) /\ Len(n) = Len(w) + 1 /\ n[1] = <<0, "v1">>
  BY MaskedLetters
<1>2. /\ \A i \in 1 .. Len(s) : m[i + 1] = <<i, s[i]>>
      /\ \A i \in 1 .. Len(w) : n[i + 1] = <<i, w[i]>>
  BY MaskedLetters
<1> HIDE DEF m, n
<1>3. /\ P!IsPrefix(m, n) <=> Begins(m, n)
      /\ P!IsPrefix(s, w) <=> Begins(s, w)
  BY <1>1, PrefixLetters, Zenon
<1>4. /\ P!IsPrefix(m, n) <=> Len(m) <= Len(n) /\ \A i \in 1 .. Len(m) : m[i] = n[i]
      /\ P!IsPrefix(s, w) <=> Len(s) <= Len(w) /\ \A i \in 1 .. Len(s) : s[i] = w[i]
  BY <1>3, Zenon DEF Begins
<1>5. Len(s) \in Nat /\ Len(w) \in Nat
  OBVIOUS
<1>6. ASSUME P!IsPrefix(m, n) PROVE P!IsPrefix(s, w)
  <2>1. Len(s) <= Len(w)
    BY <1>1, <1>4, <1>5, <1>6
  <2>2. ASSUME NEW i \in 1 .. Len(s) PROVE s[i] = w[i]
    <3>1. i + 1 \in 1 .. Len(m) /\ i \in 1 .. Len(w)
      BY <1>1, <1>5, <2>1
    <3>2. m[i + 1] = n[i + 1]
      BY <1>4, <1>6, <3>1
    <3>3. <<i, s[i]>> = <<i, w[i]>>
      BY <1>2, <3>1, <3>2
    <3> QED
      BY <3>3
  <2> QED
    BY <1>4, <2>1, <2>2
<1>7. ASSUME P!IsPrefix(s, w) PROVE P!IsPrefix(m, n)
  <2>1. Len(m) <= Len(n)
    BY <1>1, <1>4, <1>5, <1>7
  <2>2. ASSUME NEW i \in 1 .. Len(m) PROVE m[i] = n[i]
    <3>1. CASE i = 1
      BY <1>1, <3>1
    <3>2. CASE i # 1
      <4> DEFINE j == i - 1
      <4>1. j \in 1 .. Len(s) /\ j \in 1 .. Len(w) /\ i = j + 1
        BY <1>1, <1>4, <1>5, <1>7, <3>2
      <4> HIDE DEF j
      <4>2. s[j] = w[j]
        BY <1>4, <1>7, <4>1
      <4> QED
        BY <1>2, <4>1, <4>2
    <3> QED
      BY <3>1, <3>2
  <2> QED
    BY <1>4, <2>1, <2>2
<1>8. ASSUME m = n PROVE s = w
  <2>1. P!IsPrefix(m, n)
    BY <1>4, <1>8, <1>1
  <2>2. P!IsPrefix(s, w)
    BY <1>6, <2>1
  <2>3. Len(s) = Len(w)
    BY <1>1, <1>5, <1>8
  <2> QED
    BY <1>4, <2>2, <2>3, SeqEqual
<1> QED
  BY <1>6, <1>7, <1>8 DEF m, n

QueryFits ==
    /\ query.strategy \in {"none", "mask", "hash"} /\ query.kind \in {"page", "cursor"}
    /\ query.search \in Seq(STRING) /\ query.field.op \in {"any", "eq", "in", "regex"}
    /\ query.field.op = "eq" => query.field.value \in Seq(STRING)
    /\ query.field.op = "in" => query.field.value \subseteq Seq(STRING)
    /\ query.field.op # "any" => query.search = <<>> /\ query.useDataPolicies

\* Documents are numbered from one: no cursor stands before the first.
LEMMA IdsOfWords ==
  /\ P!Ids \subseteq Nat \ {0} /\ IsFiniteSet(P!Ids)
  /\ \A id \in P!Ids : Words[id] \in Seq(STRING)
<1>1. Words \in Seq(Seq(STRING))
  BY PaginationConstants
<1>2. Len(Words) \in Nat /\ P!Ids = 1 .. Len(Words)
  BY <1>1 DEF P!Ids
<1>3. IsFiniteSet(1 .. Len(Words))
  BY <1>2, FS_Interval
<1> QED
  BY <1>1, <1>2, <1>3

\* What is stored is found by what was asked of the text, unless it throws.
LEMMA AcceptedIsAsked ==
  ASSUME QueryFits, ~P!Throws, NEW id \in P!Ids
  PROVE  P!Accepted(id) <=> P!Asked(id)
<1> DEFINE w == Words[id]
           none == <<>>
<1>1. w \in Seq(STRING)
  BY IdsOfWords
<1>2. ASSUME NEW t \in Seq(STRING) PROVE P!IsPrefix(<<>>, t)
  <2>1. none \in Seq(STRING) /\ Len(none) = 0 /\ Len(t) \in Nat
    OBVIOUS
  <2> HIDE DEF none
  <2>2. P!IsPrefix(none, t) <=> Begins(none, t)
    BY <2>1, PrefixLetters, Zenon
  <2>3. P!IsPrefix(none, t)
    BY <2>1, <2>2 DEF Begins
  <2> QED
    BY <2>3 DEF none
<1>3. P!IsPrefix(<<>>, w) /\ P!Substring(<<>>, w)
  <2>1. SubSeq(w, 0 + 1, Len(w)) \in Seq(STRING) /\ 0 \in 0 .. Len(w)
    BY <1>1
  <2> QED
    BY <1>1, <1>2, <2>1 DEF P!Substring
<1> HIDE DEF w
<1>4. CASE query.strategy = "none"
  <2>1. P!Stored(id) = w /\ P!FieldFilter = query.field
    BY <1>4 DEF P!Stored, P!FieldFilter, w
  <2>2. P!Matches(P!BuildSearchFilter, w) <=> P!Substring(query.search, w)
    <3>1. CASE query.search = <<>>
      BY <1>3, <3>1 DEF P!BuildSearchFilter, P!Matches, P!Anything
    <3>2. CASE query.search # <<>>
      <4>1. P!BuildSearchFilter = [op |-> "regex", value |-> query.search]
        BY <1>4, <3>2 DEF P!BuildSearchFilter
      <4> QED
        BY <4>1 DEF P!Matches
    <3> QED
      BY <3>1, <3>2
  <2> QED
    BY <1>4, <2>1, <2>2 DEF P!Accepted, P!Asked, w
<1>5. CASE query.strategy # "none" /\ query.search # <<>>
  <2>1. query.strategy = "mask" /\ query.field.op = "any" /\ ~query.useDataPolicies
    BY <1>5 DEF P!Throws, QueryFits
  <2>2. P!Stored(id) = P!Masked(w) /\ P!FieldFilter = query.field
    BY <2>1 DEF P!Stored, P!FieldFilter, w
  <2>3. P!BuildSearchFilter = [op |-> "prefix", value |-> P!Masked(query.search)]
    BY <1>5 DEF P!BuildSearchFilter
  <2>4. P!Matches(P!BuildSearchFilter, P!Masked(w)) <=> P!IsPrefix(query.search, w)
    <3>1. P!Matches(P!BuildSearchFilter, P!Masked(w)) <=> P!IsPrefix(P!Masked(query.search), P!Masked(w))
      BY <2>3 DEF P!Matches
    <3> QED
      BY <1>1, <3>1, MaskKeepsPrefixes DEF QueryFits
  <2>5. P!Matches(query.field, P!Masked(w)) /\ P!Matches(query.field, w)
    BY <2>1 DEF P!Matches
  <2> QED
    BY <1>5, <2>2, <2>4, <2>5 DEF P!Accepted, P!Asked, w
<1>6. CASE query.strategy # "none" /\ query.search = <<>>
  <2>1. /\ P!Matches(P!BuildSearchFilter, P!Stored(id))
        /\ P!Asked(id) <=> P!Matches(query.field, w)
    BY <1>3, <1>6 DEF P!BuildSearchFilter, P!Anything, P!Matches, P!Asked, w
  <2>2. CASE query.field.op = "any"
    <3>1. P!FieldFilter = query.field
      BY <2>2 DEF P!FieldFilter, P!ProtectFilter
    <3> QED
      BY <2>1, <2>2, <3>1 DEF P!Accepted, P!Matches
  <2>3. CASE query.field.op # "any"
    <3>1. query.useDataPolicies /\ query.strategy = "mask" /\ query.field.op \in {"eq", "in"}
      BY <1>6, <2>3 DEF P!Throws, QueryFits
    <3>2. P!Stored(id) = P!Masked(w) /\ P!FieldFilter = P!ProtectFilter(query.field)
      BY <3>1 DEF P!Stored, P!FieldFilter, w
    <3>3. CASE query.field.op = "eq"
      <4>1. P!ProtectFilter(query.field) = [op |-> "eq", value |-> P!Masked(query.field.value)]
        BY <3>3 DEF P!ProtectFilter
      <4>2. P!Masked(w) = P!Masked(query.field.value) <=> w = query.field.value
        BY <1>1, <3>3, MaskKeepsPrefixes DEF QueryFits
      <4>3. P!Matches(P!FieldFilter, P!Stored(id)) <=> P!Matches(query.field, w)
        BY <3>2, <3>3, <4>1, <4>2 DEF P!Matches
      <4> QED
        BY <2>1, <4>3 DEF P!Accepted
    <3>4. CASE query.field.op = "in"
      <4>1. P!ProtectFilter(query.field) = [op |-> "in", value |-> {P!Masked(v) : v \in query.field.value}]
        BY <3>4 DEF P!ProtectFilter
      <4>2. P!Masked(w) \in {P!Masked(v) : v \in query.field.value} <=> w \in query.field.value
        BY <1>1, <3>4, MaskKeepsPrefixes DEF QueryFits
      <4>3. P!Matches(P!FieldFilter, P!Stored(id)) <=> P!Matches(query.field, w)
        BY <3>2, <3>4, <4>1, <4>2 DEF P!Matches
      <4> QED
        BY <2>1, <4>3 DEF P!Accepted
    <3> QED
      BY <3>1, <3>3, <3>4
  <2> QED
    BY <2>2, <2>3
<1> QED
  BY <1>4, <1>5, <1>6

-----------------------------------------------------------------------------
Steps == {"asking", "found", "counted", "read", "done", "threw"}

Walks == [pc : Steps, page : Nat \ {0}, cursor : Nat, docs : Seq(P!Ids), seen : Seq(P!Ids), total : Nat]

WalkTyped ==
    /\ constant \subseteq present /\ present \subseteq P!Ids
    /\ writes \in Nat /\ (writes = 0 => constant = present)
    /\ walk \in Walks

\* The walk by cursor, in order and without a gap.
CursorSees ==
    query.kind = "cursor" =>
        /\ walk.pc \in {"asking", "done", "threw"}
        /\ \A i, j \in 1 .. Len(walk.seen) : i < j => walk.seen[i] < walk.seen[j]
        /\ walk.pc = "asking" =>
             /\ \A i \in 1 .. Len(walk.seen) : walk.seen[i] <= walk.cursor
             /\ IF walk.cursor = 0 THEN walk.seen = <<>> ELSE Limit <= Len(walk.seen)
        /\ \A id \in constant :
             /\ P!Asked(id) /\ id \in query.ids
             /\ walk.pc = "done" \/ (walk.pc = "asking" /\ id <= walk.cursor)
             => \E i \in 1 .. Len(walk.seen) : walk.seen[i] = id

\* The walk by pages: each holds the next ones, as long as nobody writes.
Before == (walk.page - 1) * Limit

PagesSee ==
    query.kind = "page" =>
        /\ walk.cursor = 0
        /\ \A i \in 1 .. Len(walk.docs) : P!Asked(walk.docs[i]) /\ walk.docs[i] \in query.ids
        /\ walk.pc \notin {"asking", "threw"} => ~P!Throws
        /\ writes = 0 =>
             /\ walk.seen = P!FirstOf(P!Found, Before)
             /\ walk.pc \in {"found", "read"} =>
                  walk.seen \o walk.docs = P!FirstOf(P!Found, Before + Limit)
             /\ walk.pc \in {"counted", "read"} => walk.total = P!Cardinality(P!Found)
             /\ walk.pc = "done" => P!Cardinality(P!Found) <= Before

PaginationInv == QueryFits /\ WalkTyped /\ P!ReturnsWhatWasAsked /\ CursorSees /\ PagesSee

\* What find() gives is there, behind the cursor, and was asked for; and of what
\* is there and was asked for, only the _id or the cursor excludes any.
LEMMA WhatIsFound ==
  ASSUME QueryFits, WalkTyped
  PROVE  /\ P!Found \in SUBSET Nat /\ P!Found \subseteq P!Ids /\ IsFiniteSet(P!Found)
         /\ P!Cardinality(P!Found) = Cardinality(P!Found) /\ Cardinality(P!Found) \in Nat
         /\ \A id \in P!Found : id \in present /\ id > walk.cursor /\ P!AcceptedId(id)
         /\ ~P!Throws => \A id \in P!Found : P!Asked(id)
         /\ ~P!Throws =>
              \A id \in present : P!Asked(id) /\ id \in query.ids /\ id > walk.cursor => id \in P!Found
<1>1. P!Ids \subseteq Nat /\ IsFiniteSet(P!Ids)
  BY IdsOfWords
<1>2. P!Found \subseteq present /\ present \subseteq P!Ids
  BY DEF P!Found, WalkTyped
<1>3. IsFiniteSet(P!Found) /\ P!Found \in SUBSET Nat
  BY <1>1, <1>2, FS_Subset
<1>4. Cardinality(P!Found) \in Nat
  BY <1>3, FS_CardinalityType
<1>5. \A id \in P!Found : id \in present /\ id > walk.cursor /\ P!AcceptedId(id) /\ P!Accepted(id)
  BY DEF P!Found, P!AcceptedId
<1>6. ~P!Throws => \A id \in P!Ids : P!Accepted(id) <=> P!Asked(id)
  BY AcceptedIsAsked
<1>7. \A id \in present : P!Accepted(id) /\ id \in query.ids /\ id > walk.cursor => id \in P!Found
  BY DEF P!Found, P!AcceptedId
<1> QED
  BY <1>1, <1>2, <1>3, <1>4, <1>5, <1>6, <1>7, SameCardinality

\* The pages of a walk, in numbers.
LEMMA PageNumbers ==
  ASSUME NEW p \in Nat \ {0}
  PROVE  /\ (p - 1) * Limit \in Nat
         /\ (p - 1) * Limit + Limit = p * Limit /\ ((p + 1) - 1) * Limit = p * Limit
<1>1. Limit \in Nat \ {0}
  BY PaginationConstants
<1> QED
  BY <1>1

LEMMA PaginationInitInv == P!PaginationInit => PaginationInv
<1> SUFFICES ASSUME P!PaginationInit PROVE PaginationInv
  OBVIOUS
<1>1. walk = [pc |-> "asking", page |-> 1, cursor |-> 0, docs |-> <<>>, seen |-> <<>>, total |-> 0]
  BY DEF P!PaginationInit
<1>2. /\ walk.pc = "asking" /\ walk.page = 1 /\ walk.cursor = 0
      /\ walk.docs = <<>> /\ walk.seen = <<>> /\ walk.total = 0
  BY <1>1
<1>3. present \subseteq P!Ids /\ constant = present /\ writes = 0
  BY DEF P!PaginationInit
<1>4. WalkTyped
  BY <1>1, <1>3 DEF WalkTyped, Walks, Steps
<1>5. QueryFits
  <2>1. PICK strategy \in {"none", "mask", "hash"}, kind \in {"page", "cursor"},
             search \in {<<>>} \cup {Words[id] : id \in P!Ids},
             field \in {P!Anything} \cup {[op |-> "eq", value |-> Words[id]] : id \in P!Ids}
                       \cup {[op |-> "in", value |-> {Words[id] : id \in P!Ids}],
                             [op |-> "regex", value |-> Words[P!Max(P!Ids)]]},
             ids \in {P!Ids, P!Ids \ {P!Max(P!Ids)}}, useDataPolicies \in BOOLEAN :
        /\ field # P!Anything => search = <<>> /\ useDataPolicies
        /\ query = [strategy |-> strategy, kind |-> kind, search |-> search, field |-> field,
                    ids |-> ids, useDataPolicies |-> useDataPolicies]
    BY DEF P!PaginationInit
  <2>2. /\ query.strategy = strategy /\ query.kind = kind /\ query.search = search
        /\ query.field = field /\ query.useDataPolicies = useDataPolicies
    BY <2>1
  <2>3. query.search \in Seq(STRING)
    <3>1. <<>> \in Seq(STRING)
      OBVIOUS
    <3>2. \A id \in P!Ids : Words[id] \in Seq(STRING)
      BY IdsOfWords
    <3> QED
      BY <2>2, <3>1, <3>2, Zenon
  <2>4. CASE field = P!Anything
    BY <2>2, <2>3, <2>4 DEF QueryFits, P!Anything
  <2>5. CASE field \in {[op |-> "eq", value |-> Words[id]] : id \in P!Ids}
    <3>1. field.op = "eq" /\ field.value \in Seq(STRING) /\ field # P!Anything
      BY <2>5, IdsOfWords DEF P!Anything
    <3> QED
      BY <2>1, <2>2, <2>3, <3>1 DEF QueryFits
  <2>6. CASE field = [op |-> "in", value |-> {Words[id] : id \in P!Ids}]
    <3>1. field.op = "in" /\ field.value \subseteq Seq(STRING) /\ field # P!Anything
      BY <2>6, IdsOfWords DEF P!Anything
    <3> QED
      BY <2>1, <2>2, <2>3, <3>1 DEF QueryFits
  <2>7. CASE field = [op |-> "regex", value |-> Words[P!Max(P!Ids)]]
    <3>1. field.op = "regex" /\ field # P!Anything
      BY <2>7 DEF P!Anything
    <3> QED
      BY <2>1, <2>2, <2>3, <3>1 DEF QueryFits
  <2> QED
    BY <2>4, <2>5, <2>6, <2>7
<1>6. P!ReturnsWhatWasAsked
  BY <1>2 DEF P!ReturnsWhatWasAsked
<1>7. CursorSees
  <2>1. 1 .. Len(walk.seen) = {}
    BY <1>2
  <2>2. \A id \in constant : id \in Nat \ {0}
    BY <1>3, IdsOfWords
  <2>3. \A id \in constant : ~(id <= walk.cursor)
    BY <1>2, <2>2
  <2> QED
    BY <1>2, <2>1, <2>3 DEF CursorSees
<1>8. PagesSee
  <2>1. Limit \in Nat /\ Before = 0
    BY <1>2, PaginationConstants DEF Before
  <2>2. Len(P!FirstOf(P!Found, 0)) = 0 /\ P!FirstOf(P!Found, 0) \in Seq(P!Found)
    BY <1>4, <1>5, WhatIsFound, TheFirst
  <2>3. P!FirstOf(P!Found, 0) = <<>>
    BY <2>2
  <2> QED
    BY <1>2, <2>1, <2>3 DEF PagesSee
<1> QED
  BY <1>4, <1>5, <1>6, <1>7, <1>8 DEF PaginationInv

-----------------------------------------------------------------------------
LEMMA QueryThrowsInv == PaginationInv /\ P!QueryThrows => PaginationInv'
<1> SUFFICES ASSUME PaginationInv, P!QueryThrows PROVE PaginationInv'
  OBVIOUS
<1> USE DEF PaginationInv
<1>1. /\ UNCHANGED <<present, query, constant, writes>>
      /\ walk' = [walk EXCEPT !.pc = "threw"] /\ walk.pc = "asking"
  BY DEF P!QueryThrows
<1>2. /\ walk'.pc = "threw" /\ walk' \in Walks
      /\ walk'.page = walk.page /\ walk'.cursor = walk.cursor /\ walk'.docs = walk.docs
      /\ walk'.seen = walk.seen /\ walk'.total = walk.total
  BY <1>1 DEF WalkTyped, Walks, Steps
<1>3. QueryFits' /\ WalkTyped' /\ (\A id : P!Asked(id)' <=> P!Asked(id)) /\ Before' = Before
  <2>1. QueryFits' /\ \A id : P!Asked(id)' <=> P!Asked(id)
    BY <1>1 DEF QueryFits, P!Throws, P!Asked
  <2>2. WalkTyped' /\ Before' = Before
    BY <1>1, <1>2 DEF WalkTyped, Before
  <2> QED
    BY <2>1, <2>2
<1>4. P!Found' = P!Found
  BY <1>1, <1>2 DEF P!Found, P!Accepted, P!AcceptedId, P!FieldFilter, P!BuildSearchFilter, P!Stored
<1>5. P!ReturnsWhatWasAsked'
  BY <1>1, <1>2, <1>3 DEF P!ReturnsWhatWasAsked
<1>6. CursorSees'
  BY <1>1, <1>2, <1>3 DEF CursorSees
<1>7. PagesSee'
  BY <1>1, <1>2, <1>3, <1>4 DEF PagesSee
<1> QED
  BY <1>3, <1>5, <1>6, <1>7

LEMMA OthersWriteInv == PaginationInv /\ P!OthersWrite => PaginationInv'
<1> SUFFICES ASSUME PaginationInv, P!OthersWrite PROVE PaginationInv'
  OBVIOUS
<1> USE DEF PaginationInv
<1>1. UNCHANGED <<query, walk>> /\ writes' = writes + 1
  BY DEF P!OthersWrite
<1>2. constant' \subseteq constant /\ constant' \subseteq present' /\ present' \subseteq P!Ids
  BY DEF P!OthersWrite, WalkTyped
<1>3. writes' \in Nat /\ writes' # 0
  BY <1>1 DEF WalkTyped
<1>4. QueryFits' /\ WalkTyped' /\ (\A id : P!Asked(id)' <=> P!Asked(id)) /\ (P!Throws' <=> P!Throws)
  <2>1. QueryFits' /\ (P!Throws' <=> P!Throws) /\ \A id : P!Asked(id)' <=> P!Asked(id)
    BY <1>1 DEF QueryFits, P!Throws, P!Asked
  <2>2. WalkTyped'
    BY <1>1, <1>2, <1>3 DEF WalkTyped
  <2> QED
    BY <2>1, <2>2
<1>5. P!ReturnsWhatWasAsked'
  BY <1>1, <1>4 DEF P!ReturnsWhatWasAsked
<1>6. CursorSees'
  BY <1>1, <1>2, <1>4 DEF CursorSees
<1>7. PagesSee'
  BY <1>1, <1>3, <1>4 DEF PagesSee
<1> QED
  BY <1>4, <1>5, <1>6, <1>7

\* A step of the walk that leaves the collection alone.
LEMMA SameFound ==
  ASSUME UNCHANGED <<present, query>>, walk'.cursor = walk.cursor
  PROVE  P!Found' = P!Found
BY DEF P!Found, P!Accepted, P!AcceptedId, P!FieldFilter, P!BuildSearchFilter, P!Stored

LEMMA FindPageInv == PaginationInv /\ P!FindPage => PaginationInv'
<1> SUFFICES ASSUME PaginationInv, P!FindPage PROVE PaginationInv'
  OBVIOUS
<1> USE DEF PaginationInv
<1> DEFINE found == P!FirstOf(P!Found, Before + Limit)
           docs == SubSeq(found, Before + 1, Len(found))
<1>1. /\ UNCHANGED <<present, query, constant, writes>> /\ walk.pc \in {"asking", "counted"}
      /\ ~P!Throws /\ query.kind = "page"
      /\ walk' = [walk EXCEPT !.docs = docs, !.pc = IF @ = "asking" THEN "found" ELSE "read"]
  BY DEF P!FindPage, Before
<1>2. Before \in Nat /\ Before + Limit \in Nat /\ Limit \in Nat
  <2>1. walk.page \in Nat \ {0}
    BY DEF WalkTyped, Walks
  <2>2. Before \in Nat
    BY <2>1, PageNumbers DEF Before
  <2> QED
    BY <2>2, PaginationConstants
<1>3. found \in Seq(P!Found) /\ Len(found) \in Nat
  BY <1>2, WhatIsFound, TheFirst
<1> HIDE DEF found
<1>4. docs \in Seq(P!Found)
  BY <1>2, <1>3
<1>5. docs \in Seq(P!Ids) /\ \A i \in 1 .. Len(docs) : docs[i] \in P!Found
  <2>1. P!Found \subseteq P!Ids
    BY WhatIsFound
  <2> HIDE DEF docs
  <2> QED
    BY <1>4, <2>1
<1> HIDE DEF docs
<1>6. /\ walk'.pc = (IF walk.pc = "asking" THEN "found" ELSE "read") /\ walk' \in Walks
      /\ walk'.page = walk.page /\ walk'.cursor = walk.cursor /\ walk'.docs = docs
      /\ walk'.seen = walk.seen /\ walk'.total = walk.total
  BY <1>1, <1>5 DEF WalkTyped, Walks, Steps
<1>7. /\ QueryFits' /\ WalkTyped' /\ (\A id : P!Asked(id)' <=> P!Asked(id)) /\ Before' = Before
      /\ P!Throws' <=> P!Throws
  <2>1. QueryFits' /\ (P!Throws' <=> P!Throws) /\ \A id : P!Asked(id)' <=> P!Asked(id)
    BY <1>1 DEF QueryFits, P!Throws, P!Asked
  <2>2. WalkTyped' /\ Before' = Before
    BY <1>1, <1>6 DEF WalkTyped, Before
  <2> QED
    BY <2>1, <2>2
<1>8. P!Found' = P!Found
  BY <1>1, <1>6, SameFound
<1>9. P!ReturnsWhatWasAsked'
  BY <1>1, <1>6, <1>7 DEF P!ReturnsWhatWasAsked
<1>10. CursorSees'
  BY <1>1 DEF CursorSees
<1>11. PagesSee'
  <2>1. walk.cursor = 0
    BY <1>1 DEF PagesSee
  <2>2. \A i \in 1 .. Len(docs) : P!Asked(docs[i]) /\ docs[i] \in query.ids
    BY <1>1, <1>5, <2>1, WhatIsFound DEF P!AcceptedId
  <2>3. P!FirstOf(P!Found, Before) \o docs = found
    BY <1>2, WhatIsFound, PageAfterPage DEF docs, found
  <2>4. ASSUME writes = 0
        PROVE  /\ walk.seen = P!FirstOf(P!Found, Before)
               /\ walk.pc = "counted" => walk.total = P!Cardinality(P!Found)
    BY <1>1, <2>4 DEF PagesSee
  <2>5. writes = 0 => walk.seen \o docs = P!FirstOf(P!Found, Before + Limit)
    BY <2>3, <2>4 DEF found
  <2>6. P!Cardinality(P!Found)' = P!Cardinality(P!Found) /\ Limit' = Limit
    BY <1>8
  <2>7. /\ walk'.pc \in {"found", "read"}
        /\ walk'.pc = "read" => walk.pc = "counted"
    BY <1>1, <1>6
  <2> QED
    BY <1>1, <1>6, <1>7, <1>8, <2>1, <2>2, <2>4, <2>5, <2>6, <2>7 DEF PagesSee
<1> QED
  BY <1>7, <1>9, <1>10, <1>11

LEMMA CountDocumentsInv == PaginationInv /\ P!CountDocuments => PaginationInv'
<1> SUFFICES ASSUME PaginationInv, P!CountDocuments PROVE PaginationInv'
  OBVIOUS
<1> USE DEF PaginationInv
<1> DEFINE total == P!Cardinality(P!Found)
<1>1. /\ UNCHANGED <<present, query, constant, writes>> /\ walk.pc \in {"asking", "found"}
      /\ ~P!Throws /\ query.kind = "page"
      /\ walk' = [walk EXCEPT !.total = total, !.pc = IF @ = "asking" THEN "counted" ELSE "read"]
  BY DEF P!CountDocuments
<1>2. total \in Nat
  BY WhatIsFound
<1> HIDE DEF total
<1>3. /\ walk'.pc = (IF walk.pc = "asking" THEN "counted" ELSE "read") /\ walk' \in Walks
      /\ walk'.page = walk.page /\ walk'.cursor = walk.cursor /\ walk'.docs = walk.docs
      /\ walk'.seen = walk.seen /\ walk'.total = total
  BY <1>1, <1>2 DEF WalkTyped, Walks, Steps
<1>4. /\ QueryFits' /\ WalkTyped' /\ (\A id : P!Asked(id)' <=> P!Asked(id)) /\ Before' = Before
      /\ P!Throws' <=> P!Throws
  <2>1. QueryFits' /\ (P!Throws' <=> P!Throws) /\ \A id : P!Asked(id)' <=> P!Asked(id)
    BY <1>1 DEF QueryFits, P!Throws, P!Asked
  <2>2. WalkTyped' /\ Before' = Before
    BY <1>1, <1>3 DEF WalkTyped, Before
  <2> QED
    BY <2>1, <2>2
<1>5. P!Found' = P!Found
  BY <1>1, <1>3, SameFound
<1>6. P!ReturnsWhatWasAsked'
  BY <1>1, <1>3, <1>4 DEF P!ReturnsWhatWasAsked
<1>7. CursorSees'
  BY <1>1 DEF CursorSees
<1>8. PagesSee'
  <2>1. /\ walk.cursor = 0
        /\ \A i \in 1 .. Len(walk.docs) : P!Asked(walk.docs[i]) /\ walk.docs[i] \in query.ids
    BY <1>1 DEF PagesSee
  <2>2. ASSUME writes = 0
        PROVE  /\ walk.seen = P!FirstOf(P!Found, Before)
               /\ walk.pc = "found" => walk.seen \o walk.docs = P!FirstOf(P!Found, Before + Limit)
    BY <1>1, <2>2 DEF PagesSee
  <2>3. P!Cardinality(P!Found)' = total
    BY <1>5 DEF total
  <2>4. /\ walk'.pc \in {"counted", "read"}
        /\ walk'.pc = "read" => walk.pc = "found"
    BY <1>1, <1>3
  <2> QED
    BY <1>1, <1>3, <1>4, <1>5, <2>1, <2>2, <2>3, <2>4 DEF PagesSee
<1> QED
  BY <1>4, <1>6, <1>7, <1>8

LEMMA NextPageInv == PaginationInv /\ P!NextPage => PaginationInv'
<1> SUFFICES ASSUME PaginationInv, P!NextPage PROVE PaginationInv'
  OBVIOUS
<1> USE DEF PaginationInv
<1> DEFINE a == walk.seen
           b == walk.docs
           seen == a \o b
<1>1. /\ UNCHANGED <<present, query, constant, writes>> /\ walk.pc = "read"
      /\ walk' = [walk EXCEPT !.seen = seen, !.docs = <<>>, !.page = walk.page + 1,
                              !.pc = IF walk.page * Limit < walk.total THEN "asking" ELSE "done"]
  BY DEF P!NextPage
<1>2. /\ walk.seen \in Seq(P!Ids) /\ walk.docs \in Seq(P!Ids)
      /\ walk.page \in Nat \ {0} /\ walk.total \in Nat
  BY DEF WalkTyped, Walks
<1>3. a \in Seq(P!Ids) /\ b \in Seq(P!Ids)
  BY <1>2
<1>4. /\ seen \in Seq(P!Ids) /\ Len(seen) = Len(a) + Len(b)
      /\ \A i \in 1 .. Len(a) + Len(b) : seen[i] = IF i <= Len(a) THEN a[i] ELSE b[i - Len(a)]
  <2> HIDE DEF a, b
  <2> QED
    BY <1>3, ConcatProperties, Zenon
<1> HIDE DEF seen, a, b
<1>5. /\ walk'.pc = (IF walk.page * Limit < walk.total THEN "asking" ELSE "done") /\ walk' \in Walks
      /\ walk'.page = walk.page + 1 /\ walk'.cursor = walk.cursor /\ walk'.docs = <<>>
      /\ walk'.seen = seen /\ walk'.total = walk.total
  <2> DEFINE pc == IF walk.page * Limit < walk.total THEN "asking" ELSE "done"
             page == walk.page + 1
  <2>1. pc \in Steps /\ page \in Nat \ {0} /\ <<>> \in Seq(P!Ids) /\ walk \in Walks
    BY <1>2 DEF Steps, WalkTyped
  <2>2. walk' = [walk EXCEPT !.seen = seen, !.docs = <<>>, !.page = page, !.pc = pc]
    BY <1>1
  <2> HIDE DEF pc, page
  <2>3. /\ walk' \in Walks /\ walk'.pc = pc /\ walk'.page = page /\ walk'.cursor = walk.cursor
        /\ walk'.docs = <<>> /\ walk'.seen = seen /\ walk'.total = walk.total
    BY <1>4, <2>1, <2>2 DEF Walks
  <2> QED
    BY <2>3 DEF pc, page
<1>6. /\ QueryFits' /\ WalkTyped' /\ (\A id : P!Asked(id)' <=> P!Asked(id))
      /\ P!Throws' <=> P!Throws
  <2>1. QueryFits' /\ (P!Throws' <=> P!Throws) /\ \A id : P!Asked(id)' <=> P!Asked(id)
    BY <1>1 DEF QueryFits, P!Throws, P!Asked
  <2>2. WalkTyped'
    BY <1>1, <1>5 DEF WalkTyped
  <2> QED
    BY <2>1, <2>2
<1>7. P!Found' = P!Found
  BY <1>1, <1>5, SameFound
<1>8. Before' = Before + Limit /\ Before + Limit = walk.page * Limit
  BY <1>2, <1>5, PageNumbers DEF Before
<1>9. query.kind = "page"
  BY <1>1 DEF CursorSees, QueryFits
<1>10. P!ReturnsWhatWasAsked'
  <2>1. /\ \A i \in 1 .. Len(a) : P!Asked(a[i]) /\ a[i] \in query.ids
        /\ \A i \in 1 .. Len(b) : P!Asked(b[i]) /\ b[i] \in query.ids
    <3>1. DOMAIN a = 1 .. Len(a)
      BY <1>3
    <3> QED
      BY <1>9, <3>1 DEF P!ReturnsWhatWasAsked, PagesSee, a, b
  <2>2. ASSUME NEW i \in 1 .. Len(seen)
        PROVE  P!Asked(seen[i]) /\ seen[i] \in query.ids
    <3>1. Len(a) \in Nat /\ Len(b) \in Nat
      BY <1>3
    <3>2. CASE i <= Len(a)
      <4>1. i \in 1 .. Len(a) /\ seen[i] = a[i]
        BY <1>4, <3>1, <3>2
      <4> QED
        BY <2>1, <4>1
    <3>3. CASE ~(i <= Len(a))
      <4>1. i - Len(a) \in 1 .. Len(b) /\ seen[i] = b[i - Len(a)]
        BY <1>4, <3>1, <3>3
      <4> QED
        BY <2>1, <4>1
    <3> QED
      BY <3>2, <3>3
  <2>3. DOMAIN seen = 1 .. Len(seen)
    BY <1>4
  <2> QED
    BY <1>1, <1>5, <1>6, <2>2, <2>3 DEF P!ReturnsWhatWasAsked
<1>11. CursorSees'
  BY <1>1, <1>9 DEF CursorSees
<1>12. PagesSee'
  <2>1. walk.cursor = 0 /\ ~P!Throws
    BY <1>1, <1>9 DEF PagesSee
  <2>2. ASSUME writes = 0
        PROVE  /\ seen = P!FirstOf(P!Found, Before + Limit)
               /\ walk'.pc = "done" => P!Cardinality(P!Found) <= Before + Limit
    <3>1. /\ seen = P!FirstOf(P!Found, Before + Limit)
          /\ walk.total = P!Cardinality(P!Found)
      BY <1>1, <1>9, <2>2 DEF PagesSee, seen, a, b
    <3>2. walk.page * Limit \in Nat
      <4>1. Limit \in Nat
        BY PaginationConstants
      <4> QED
        BY <1>2, <4>1
    <3> QED
      BY <1>2, <1>5, <1>8, <3>1, <3>2
  <2>3. walk'.pc \in {"asking", "done"} /\ Len(walk'.docs) = 0
    BY <1>5
  <2>4. P!FirstOf(P!Found, Before)' = P!FirstOf(P!Found, Before + Limit)
    BY <1>7, <1>8 DEF P!FirstOf, P!Rank
  <2>5. 1 .. Len(walk'.docs) = {}
    BY <2>3
  <2> QED
    BY <1>1, <1>5, <1>6, <1>7, <1>8, <2>1, <2>2, <2>3, <2>4, <2>5 DEF PagesSee
<1> QED
  BY <1>6, <1>10, <1>11, <1>12

\* What a page by cursor gives, and leaves.
LEMMA CursorPage ==
  ASSUME PaginationInv, P!PaginateCursor
  PROVE  \E more \in Seq(P!Ids) :
           /\ walk' \in Walks /\ walk'.seen = walk.seen \o more
           /\ \A i \in 1 .. Len(more) : more[i] \in P!Found
           /\ \A i, j \in 1 .. Len(more) : i < j => more[i] < more[j]
           /\ \/ /\ walk'.pc = "asking" /\ Len(more) = Limit
                 /\ walk'.cursor \in Nat \ {0} /\ walk'.cursor > walk.cursor
                 /\ \A i \in 1 .. Len(more) : more[i] <= walk'.cursor
                 /\ \A id \in P!Found : id <= walk'.cursor => \E i \in 1 .. Len(more) : more[i] = id
              \/ /\ walk'.pc = "done"
                 /\ \A id \in P!Found : \E i \in 1 .. Len(more) : more[i] = id
<1> USE DEF PaginationInv
<1> DEFINE docs == P!FirstOf(P!Found, Limit + 1)
           c == Cardinality(P!Found)
<1>1. /\ walk.pc = "asking" /\ ~P!Throws
      /\ walk' = IF Len(docs) > Limit
                 THEN [walk EXCEPT !.seen = @ \o P!Front(docs), !.cursor = docs[Limit]]
                 ELSE [walk EXCEPT !.seen = @ \o docs, !.pc = "done"]
  BY DEF P!PaginateCursor
<1>2. Limit \in Nat \ {0} /\ Limit + 1 \in Nat
  BY PaginationConstants
<1>3. /\ P!Found \in SUBSET Nat /\ IsFiniteSet(P!Found) /\ c \in Nat /\ P!Found \subseteq P!Ids
      /\ \A id \in P!Found : id > walk.cursor
  BY WhatIsFound
<1>4. P!Found \subseteq P!Ids /\ \A id \in P!Found : id \in Nat
  BY <1>3
<1>5. /\ docs \in Seq(P!Found)
      /\ Len(docs) = IF Limit + 1 < c THEN Limit + 1 ELSE c
      /\ \A i \in 1 .. Len(docs) : P!Rank(docs[i], P!Found) = i
      /\ \A i, j \in 1 .. Len(docs) : i < j => docs[i] < docs[j]
      /\ \A x \in P!Found : P!Rank(x, P!Found) <= Len(docs) => docs[P!Rank(x, P!Found)] = x
  <2>1. P!Found \in SUBSET Nat /\ IsFiniteSet(P!Found) /\ Limit + 1 \in Nat
    BY <1>2, <1>3
  <2> QED
    BY <2>1, TheFirst, Zenon
<1>6. /\ \A x \in P!Found : P!Rank(x, P!Found) \in 1 .. c
      /\ \A x, y \in P!Found : x < y => P!Rank(x, P!Found) < P!Rank(y, P!Found)
  BY <1>3, Ranks
<1> HIDE DEF docs, c
<1>7. /\ walk.seen \in Seq(P!Ids) /\ walk \in Walks /\ walk.cursor \in Nat
      /\ \A more \in Seq(P!Ids) : walk.seen \o more \in Seq(P!Ids)
  <2>1. walk.seen \in Seq(P!Ids) /\ walk \in Walks /\ walk.cursor \in Nat
    BY DEF WalkTyped, Walks
  <2>2. ASSUME NEW more \in Seq(P!Ids) PROVE walk.seen \o more \in Seq(P!Ids)
    BY <2>1, ConcatProperties, Zenon
  <2> QED
    BY <2>1, <2>2
<1>8. CASE Len(docs) > Limit
  <2> DEFINE more == SubSeq(docs, 1, Limit)
  <2>1. Len(docs) = Limit + 1
    BY <1>2, <1>3, <1>5, <1>8
  <2>2. P!Front(docs) = more
    BY <1>2, <2>1 DEF P!Front
  <2>3. Limit \in 1 .. Len(docs) /\ docs[Limit] \in P!Found /\ P!Rank(docs[Limit], P!Found) = Limit
    BY <1>2, <1>5, <2>1
  <2>4. /\ more \in Seq(P!Found) /\ Len(more) = Limit
        /\ \A i \in 1 .. Limit : more[i] = docs[i] /\ more[i] \in P!Found
    BY <1>2, <1>5, <2>1
  <2> HIDE DEF more
  <2>5. more \in Seq(P!Ids)
    BY <1>4, <2>4
  <2>6. docs[Limit] \in Nat \ {0} /\ docs[Limit] > walk.cursor
    <3>1. docs[Limit] \in Nat /\ docs[Limit] > walk.cursor
      BY <1>3, <1>4, <2>3
    <3> QED
      BY <1>7, <3>1
  <2>7. walk' = [walk EXCEPT !.seen = walk.seen \o more, !.cursor = docs[Limit]]
    BY <1>1, <1>8, <2>2
  <2>8. /\ walk' \in Walks /\ walk'.seen = walk.seen \o more /\ walk'.pc = "asking"
        /\ walk'.cursor = docs[Limit]
    BY <1>1, <1>7, <2>5, <2>6, <2>7 DEF Walks
  <2>9. ASSUME NEW i \in 1 .. Limit, NEW j \in 1 .. Limit, i < j PROVE more[i] < more[j]
    BY <1>2, <1>5, <2>1, <2>4, <2>9
  <2>10. ASSUME NEW i \in 1 .. Limit PROVE more[i] <= docs[Limit]
    <3>1. i \in 1 .. Len(docs) /\ more[i] = docs[i] /\ docs[i] \in P!Found /\ (i = Limit \/ i < Limit)
      BY <1>2, <2>1, <2>4
    <3>2. docs[i] \in Nat
      BY <1>4, <3>1
    <3>3. i < Limit => docs[i] < docs[Limit]
      BY <1>5, <2>3, <3>1
    <3> QED
      BY <2>6, <3>1, <3>3, <3>2
  <2>11. ASSUME NEW id \in P!Found, id <= docs[Limit]
         PROVE  \E i \in 1 .. Limit : more[i] = id
    <3> DEFINE r == P!Rank(id, P!Found)
    <3>1. r \in 1 .. c
      BY <1>6
    <3>2. r <= Limit
      <4>1. id = docs[Limit] \/ id < docs[Limit]
        <5>1. id \in Nat /\ docs[Limit] \in Nat
          BY <1>3, <2>6
        <5> QED
          BY <2>11, <5>1
      <4>2. id < docs[Limit] => r < Limit
        BY <1>6, <2>3
      <4>3. id = docs[Limit] => r = Limit
        BY <2>3
      <4> HIDE DEF r
      <4> QED
        BY <1>2, <1>3, <3>1, <4>1, <4>2, <4>3
    <3>3. docs[r] = id
      <4>1. r <= Len(docs)
        <5> HIDE DEF r
        <5> QED
          BY <1>2, <1>3, <2>1, <3>1, <3>2
      <4> QED
        BY <1>5, <4>1
    <3> HIDE DEF r
    <3>4. r \in 1 .. Limit
      BY <1>2, <1>3, <3>1, <3>2
    <3> QED
      BY <2>4, <3>3, <3>4
  <2> QED
    BY <2>4, <2>5, <2>6, <2>8, <2>9, <2>10, <2>11
<1>9. CASE ~(Len(docs) > Limit)
  <2>1. Len(docs) = c
    BY <1>2, <1>3, <1>5, <1>9
  <2>2. docs \in Seq(P!Ids) /\ \A i \in 1 .. Len(docs) : docs[i] \in P!Found
    <3>1. docs \in Seq(P!Found)
      BY <1>5
    <3> QED
      BY <1>4, <3>1
  <2>3. walk' = [walk EXCEPT !.seen = walk.seen \o docs, !.pc = "done"]
    BY <1>1, <1>9
  <2>4. walk' \in Walks /\ walk'.seen = walk.seen \o docs /\ walk'.pc = "done"
    BY <1>7, <2>2, <2>3 DEF Walks, Steps
  <2>5. ASSUME NEW id \in P!Found PROVE \E i \in 1 .. Len(docs) : docs[i] = id
    <3> DEFINE r == P!Rank(id, P!Found)
    <3>1. r \in 1 .. c
      BY <1>6
    <3>2. docs[r] = id
      <4>1. r <= Len(docs)
        <5> HIDE DEF r
        <5> QED
          BY <1>3, <2>1, <3>1
      <4> QED
        BY <1>5, <4>1
    <3> HIDE DEF r
    <3> QED
      BY <2>1, <3>1, <3>2
  <2> QED
    BY <1>5, <2>2, <2>4, <2>5
<1> QED
  BY <1>8, <1>9

LEMMA PaginateCursorInv == PaginationInv /\ P!PaginateCursor => PaginationInv'
<1> SUFFICES ASSUME PaginationInv, P!PaginateCursor PROVE PaginationInv'
  OBVIOUS
<1>1. PICK more \in Seq(P!Ids) :
           /\ walk' \in Walks /\ walk'.seen = walk.seen \o more
           /\ \A i \in 1 .. Len(more) : more[i] \in P!Found
           /\ \A i, j \in 1 .. Len(more) : i < j => more[i] < more[j]
           /\ \/ /\ walk'.pc = "asking" /\ Len(more) = Limit
                 /\ walk'.cursor \in Nat \ {0} /\ walk'.cursor > walk.cursor
                 /\ \A i \in 1 .. Len(more) : more[i] <= walk'.cursor
                 /\ \A id \in P!Found : id <= walk'.cursor => \E i \in 1 .. Len(more) : more[i] = id
              \/ /\ walk'.pc = "done"
                 /\ \A id \in P!Found : \E i \in 1 .. Len(more) : more[i] = id
  BY CursorPage
<1> USE DEF PaginationInv
<1> DEFINE a == walk.seen
           seen == a \o more
<1>2. /\ walk.pc = "asking" /\ ~P!Throws /\ query.kind = "cursor"
      /\ UNCHANGED <<present, query, constant, writes>>
  BY DEF P!PaginateCursor
<1>3. a \in Seq(P!Ids) /\ walk.cursor \in Nat
  BY DEF WalkTyped, Walks
<1>4. \A i \in 1 .. Len(a) : a[i] \in Nat
  <2>1. \A i \in 1 .. Len(a) : a[i] \in P!Ids
    BY <1>3
  <2> HIDE DEF a
  <2> QED
    BY <2>1, IdsOfWords
<1>5. /\ \A i, j \in 1 .. Len(a) : i < j => a[i] < a[j]
      /\ \A i \in 1 .. Len(a) : a[i] <= walk.cursor
      /\ walk.cursor = 0 \/ Limit <= Len(a)
      /\ \A id \in constant : P!Asked(id) /\ id \in query.ids /\ id <= walk.cursor
                                => \E i \in 1 .. Len(a) : a[i] = id
  BY <1>2 DEF CursorSees
<1>6. \A i \in 1 .. Len(a) :
        P!Asked(a[i]) /\ (query.search # <<>> \/ i <= Limit => a[i] \in query.ids)
  <2>1. DOMAIN a = 1 .. Len(a)
    BY <1>3
  <2> QED
    BY <1>2, <2>1 DEF P!ReturnsWhatWasAsked
<1> HIDE DEF a
<1>7. /\ seen \in Seq(P!Ids) /\ Len(seen) = Len(a) + Len(more)
      /\ \A i \in 1 .. Len(a) + Len(more) : seen[i] = IF i <= Len(a) THEN a[i] ELSE more[i - Len(a)]
  BY <1>3, ConcatProperties, Zenon
<1>8. walk'.seen = seen
  BY <1>1 DEF a
<1> HIDE DEF seen
<1>9. Len(a) \in Nat /\ Len(more) \in Nat /\ Limit \in Nat \ {0}
  BY <1>3, PaginationConstants
<1>10. ASSUME NEW i \in 1 .. Len(seen)
      PROVE  \/ i \in 1 .. Len(a) /\ seen[i] = a[i]
             \/ i > Len(a) /\ i - Len(a) \in 1 .. Len(more) /\ seen[i] = more[i - Len(a)]
  BY <1>7, <1>9
<1>11. /\ \A i \in 1 .. Len(a) : i \in 1 .. Len(seen) /\ seen[i] = a[i]
       /\ \A i \in 1 .. Len(more) : Len(a) + i \in 1 .. Len(seen) /\ seen[Len(a) + i] = more[i]
  BY <1>7, <1>9
<1>12. /\ P!Found \subseteq P!Ids /\ P!Ids \subseteq Nat /\ constant \subseteq present
       /\ \A id \in P!Found : P!Asked(id) /\ id > walk.cursor /\ P!AcceptedId(id)
       /\ \A id \in present : P!Asked(id) /\ id \in query.ids /\ id > walk.cursor => id \in P!Found
  BY <1>2, WhatIsFound, IdsOfWords DEF WalkTyped
<1>13. /\ QueryFits' /\ WalkTyped' /\ (P!Throws' <=> P!Throws)
       /\ \A id : P!Asked(id)' <=> P!Asked(id)
  <2>1. QueryFits' /\ (P!Throws' <=> P!Throws) /\ \A id : P!Asked(id)' <=> P!Asked(id)
    BY <1>2 DEF QueryFits, P!Throws, P!Asked
  <2>2. WalkTyped'
    BY <1>1, <1>2 DEF WalkTyped
  <2> QED
    BY <2>1, <2>2
<1>14. P!ReturnsWhatWasAsked'
  <2>1. ASSUME NEW i \in 1 .. Len(seen)
        PROVE  P!Asked(seen[i]) /\ (query.search # <<>> \/ i <= Limit => seen[i] \in query.ids)
    <3>1. CASE i \in 1 .. Len(a) /\ seen[i] = a[i]
      BY <1>6, <3>1
    <3>2. CASE i > Len(a) /\ i - Len(a) \in 1 .. Len(more) /\ seen[i] = more[i - Len(a)]
      <4>1. seen[i] \in P!Found
        BY <1>1, <3>2
      <4>2. i <= Limit => walk.cursor = 0
        BY <1>5, <1>9, <3>2
      <4>3. query.search # <<>> \/ i <= Limit => seen[i] \in query.ids
        BY <1>12, <4>1, <4>2 DEF P!AcceptedId
      <4> QED
        BY <1>12, <4>1, <4>3
    <3> QED
      BY <1>10, <3>1, <3>2
  <2>2. DOMAIN seen = 1 .. Len(seen)
    BY <1>7
  <2> QED
    BY <1>2, <1>8, <1>13, <2>1, <2>2 DEF P!ReturnsWhatWasAsked
<1>15. CursorSees'
  <2>1. ASSUME NEW i \in 1 .. Len(seen), NEW j \in 1 .. Len(seen), i < j
        PROVE  seen[i] < seen[j]
    <3>1. CASE i \in 1 .. Len(a) /\ seen[i] = a[i] /\ j \in 1 .. Len(a) /\ seen[j] = a[j]
      BY <1>5, <2>1, <3>1
    <3>2. CASE i \in 1 .. Len(a) /\ seen[i] = a[i] /\ seen[j] \in P!Found
      <4>1. a[i] <= walk.cursor /\ a[i] \in Nat /\ seen[j] > walk.cursor /\ seen[j] \in Nat
        BY <1>5, <1>12, <1>4, <3>2
      <4> QED
        BY <1>3, <3>2, <4>1
    <3>3. CASE /\ i - Len(a) \in 1 .. Len(more) /\ seen[i] = more[i - Len(a)]
               /\ j - Len(a) \in 1 .. Len(more) /\ seen[j] = more[j - Len(a)]
      <4>1. i - Len(a) < j - Len(a)
        BY <1>9, <2>1
      <4> QED
        BY <1>1, <3>3, <4>1
    <3>4. j \in 1 .. Len(a) => ~(i > Len(a))
      BY <1>9, <2>1
    <3> QED
      BY <1>1, <1>10, <3>1, <3>2, <3>3, <3>4
  <2>2. ASSUME walk'.pc = "asking"
        PROVE  /\ \A i \in 1 .. Len(seen) : seen[i] <= walk'.cursor
               /\ walk'.cursor # 0 /\ Limit <= Len(seen)
    <3>1. /\ Len(more) = Limit /\ walk'.cursor \in Nat \ {0} /\ walk'.cursor > walk.cursor
          /\ \A i \in 1 .. Len(more) : more[i] <= walk'.cursor
      BY <1>1, <2>2
    <3>2. ASSUME NEW i \in 1 .. Len(seen) PROVE seen[i] <= walk'.cursor
      <4>1. CASE i \in 1 .. Len(a) /\ seen[i] = a[i]
        <5>1. a[i] \in Nat /\ a[i] <= walk.cursor
          BY <1>5, <1>4, <4>1
        <5> QED
          BY <1>3, <3>1, <4>1, <5>1
      <4>2. CASE i > Len(a) /\ i - Len(a) \in 1 .. Len(more) /\ seen[i] = more[i - Len(a)]
        BY <3>1, <4>2
      <4> QED
        BY <1>10, <4>1, <4>2
    <3> QED
      BY <1>7, <1>9, <3>1, <3>2
  <2>3. ASSUME NEW id \in constant, P!Asked(id), id \in query.ids,
               walk'.pc = "done" \/ (walk'.pc = "asking" /\ id <= walk'.cursor)
        PROVE  \E i \in 1 .. Len(seen) : seen[i] = id
    <3>1. id \in Nat
      BY <1>12 DEF WalkTyped
    <3>2. CASE id <= walk.cursor
      <4>1. PICK i \in 1 .. Len(a) : a[i] = id
        BY <1>5, <2>3, <3>2
      <4> QED
        BY <1>11, <4>1
    <3>3. CASE id > walk.cursor
      <4>1. id \in P!Found
        BY <1>12, <2>3, <3>3
      <4>2. PICK i \in 1 .. Len(more) : more[i] = id
        BY <1>1, <2>3, <4>1
      <4> QED
        BY <1>11, <4>2
    <3> QED
      BY <1>3, <3>1, <3>2, <3>3
  <2>4. walk'.pc \in {"asking", "done"}
    BY <1>1
  <2> QED
    BY <1>2, <1>8, <1>13, <2>1, <2>2, <2>3, <2>4 DEF CursorSees
<1>16. PagesSee'
  BY <1>2 DEF PagesSee
<1> QED
  BY <1>13, <1>14, <1>15, <1>16

\* What has been seen so far is what the walk owes.
LEMMA SeenIsOwed == PaginationInv => P!PagesAreExact
<1> SUFFICES ASSUME PaginationInv PROVE P!WalksAll
  BY DEF PaginationInv, P!PagesAreExact
<1> USE DEF PaginationInv
<1>1. walk.seen \in Seq(P!Ids) /\ P!Ids \subseteq Nat
  BY IdsOfWords DEF WalkTyped, Walks
<1>2. DOMAIN walk.seen = 1 .. Len(walk.seen) /\ \A i \in 1 .. Len(walk.seen) : walk.seen[i] \in Nat
  <2>1. DOMAIN walk.seen = 1 .. Len(walk.seen) /\ \A i \in 1 .. Len(walk.seen) : walk.seen[i] \in P!Ids
    BY <1>1
  <2> QED
    BY <1>1, <2>1
<1>3. ASSUME \A i, j \in 1 .. Len(walk.seen) : i < j => walk.seen[i] < walk.seen[j]
      PROVE  P!IsInjective(walk.seen)
  <2>1. ASSUME NEW i \in 1 .. Len(walk.seen), NEW j \in 1 .. Len(walk.seen), walk.seen[i] = walk.seen[j]
        PROVE  i = j
    <3>1. ~(walk.seen[i] < walk.seen[j]) /\ ~(walk.seen[j] < walk.seen[i])
      BY <1>2, <2>1
    <3>2. ~(i < j) /\ ~(j < i)
      BY <1>3, <3>1
    <3> QED
      BY <3>2
  <2> QED
    BY <1>2, <2>1 DEF P!IsInjective
<1>4. ASSUME \A id \in constant : P!Asked(id) /\ id \in query.ids
                => \E i \in 1 .. Len(walk.seen) : walk.seen[i] = id
      PROVE  {id \in constant : P!Asked(id) /\ id \in query.ids} \subseteq P!ToSet(walk.seen)
  BY <1>2, <1>4 DEF P!ToSet
<1>5. CASE query.kind = "cursor"
  <2>1. P!IsInjective(walk.seen)
    BY <1>3, <1>5 DEF CursorSees
  <2>2. walk.pc = "done" => {id \in constant : P!Asked(id) /\ id \in query.ids} \subseteq P!ToSet(walk.seen)
    BY <1>4, <1>5 DEF CursorSees
  <2> QED
    BY <2>1, <2>2 DEF P!WalksAll
<1>6. CASE query.kind = "page" /\ writes = 0
  <2>1. walk.seen = P!FirstOf(P!Found, Before)
    BY <1>6 DEF PagesSee
  <2>2. /\ P!Found \in SUBSET Nat /\ IsFiniteSet(P!Found) /\ Cardinality(P!Found) \in Nat
        /\ P!Cardinality(P!Found) = Cardinality(P!Found)
    BY WhatIsFound
  <2>3. Before \in Nat
    BY PageNumbers DEF Before, WalkTyped, Walks
  <2>4. /\ \A i, j \in 1 .. Len(walk.seen) : i < j => walk.seen[i] < walk.seen[j]
        /\ Len(walk.seen) = IF Before < Cardinality(P!Found) THEN Before ELSE Cardinality(P!Found)
        /\ \A x \in P!Found : P!Rank(x, P!Found) <= Len(walk.seen) => walk.seen[P!Rank(x, P!Found)] = x
    BY <2>1, <2>2, <2>3, TheFirst
  <2>5. ASSUME walk.pc = "done", NEW id \in constant, P!Asked(id), id \in query.ids
        PROVE  \E i \in 1 .. Len(walk.seen) : walk.seen[i] = id
    <3>1. ~P!Throws /\ P!Cardinality(P!Found) <= Before /\ walk.cursor = 0
      BY <1>6, <2>5 DEF PagesSee
    <3>2. Len(walk.seen) = Cardinality(P!Found)
      BY <2>2, <2>3, <2>4, <3>1
    <3>3. id \in present /\ id > walk.cursor
      BY <3>1, IdsOfWords DEF WalkTyped
    <3>4. id \in P!Found
      BY <2>5, <3>1, <3>3, WhatIsFound
    <3>5. P!Rank(id, P!Found) \in 1 .. Len(walk.seen)
      BY <2>2, <3>2, <3>4, Ranks
    <3>6. walk.seen[P!Rank(id, P!Found)] = id
      <4> DEFINE r == P!Rank(id, P!Found)
      <4>1. r <= Len(walk.seen)
        <5> HIDE DEF r
        <5> QED
          BY <2>2, <3>2, <3>5 DEF r
      <4> QED
        BY <2>4, <3>4, <4>1
    <3> QED
      BY <3>5, <3>6
  <2>6. P!IsInjective(walk.seen)
    BY <1>3, <2>4
  <2>7. walk.pc = "done" => {id \in constant : P!Asked(id) /\ id \in query.ids} \subseteq P!ToSet(walk.seen)
    BY <1>4, <2>5
  <2> QED
    BY <2>6, <2>7 DEF P!WalksAll
<1> QED
  BY <1>5, <1>6 DEF P!WalksAll, QueryFits

InPagination == part = "pagination" => PaginationInv

\* Pages hold what was asked for.  A walk by cursor returns nothing twice and
\* misses nothing that was there throughout, however the collection changes
\* around it, and a walk by pages does so while nobody writes.
THEOREM PagesMissNothing == PartsSpec => []PagesAreExact
<1>1. PartsInit => InPagination
  BY PaginationInitInv DEF PartsInit, InPagination
<1>2. InPagination /\ [PartsNext]_partsVars => InPagination'
  <2> SUFFICES ASSUME InPagination, [PartsNext]_partsVars, part' = "pagination"
               PROVE  PaginationInv'
    BY DEF InPagination
  <2>1. part = "pagination" /\ PaginationInv
    BY DEF PartsNext, partsVars, InPagination
  <2>2. CASE UNCHANGED paginationVars
    <3>1. UNCHANGED <<present, query, walk, constant, writes>>
      BY <2>2 DEF paginationVars
    <3>2. QueryFits' /\ WalkTyped' /\ P!ReturnsWhatWasAsked'
      BY <2>1, <3>1 DEF PaginationInv, QueryFits, WalkTyped, P!ReturnsWhatWasAsked, P!Asked
    <3>3. CursorSees'
      BY <2>1, <3>1 DEF PaginationInv, CursorSees, P!Asked
    <3>4. P!Found' = P!Found /\ Before' = Before
      BY <3>1, SameFound DEF Before
    <3>5. PagesSee'
      BY <2>1, <3>1, <3>4 DEF PaginationInv, PagesSee, P!Asked, P!Throws
    <3> QED
      BY <3>2, <3>3, <3>5 DEF PaginationInv
  <2>3. CASE P!PaginationNext
    BY <2>1, <2>3, QueryThrowsInv, FindPageInv, CountDocumentsInv, NextPageInv, PaginateCursorInv,
       OthersWriteInv DEF P!PaginationNext, P!Walk
  <2> QED
    BY <2>1, <2>2, <2>3 DEF PartsNext, partsVars
<1>3. InPagination => PagesAreExact
  BY SeenIsOwed DEF InPagination, PagesAreExact
<1> QED
  BY <1>1, <1>2, <1>3, PTL DEF PartsSpec

-----------------------------------------------------------------------------
(***************************************************************************)
(* Dispatch.  The actions of a phase begin together and none is left to    *)
(* begin; what the call waits for has ended well; and while nobody else    *)
(* writes, what the post hooks are handed is what the write left.  What    *)
(* the conditions say of a document is left as it is: only that it is the  *)
(* same document matters.                                                  *)
(***************************************************************************)
FullDocument == [D!Fields -> FieldValues]

PartialDocument == UNION {[fields -> FieldValues] : fields \in SUBSET D!Fields}

CallPhases == {"pre", "preWait", "write", "post", "postWait", "resolved", "rejected"}

DispatchCall ==
    [op : {"create", "deleteOne", "updateOne", "findOneAndUpdate"}, pc : CallPhases,
     filter : FieldValues \cup {Absent}, set : PartialDocument,
     stash : FullDocument \cup {Absent}, after : FullDocument \cup {Absent}, applied : BOOLEAN]

DispatchAction ==
    [phase : {"pre", "post"}, kind : D!Kinds, conditions : Seq(Conditions),
     is : {"waiting", "skipped", "publishing", "sent", "failed"}]

DispatchTyped ==
    /\ doc \in FullDocument \cup {Absent}
    /\ call \in DispatchCall
    /\ call.op = "create" => call.set \in FullDocument
    /\ action \in [DOMAIN action -> DispatchAction]
    /\ disturbed \in BOOLEAN

ToBegin(phase) == \A a \in D!Of(phase) : action[a].is = "waiting"

OneFate(phase) == ToBegin(phase) \/ \A a \in D!Of(phase) : action[a].is # "waiting"

EndedWell(phase) == \A a \in D!Of(phase) : action[a].is \notin {"failed", "publishing"}

Dispatched ==
    /\ call.pc = "pre" => ToBegin("pre")
    /\ call.pc \in {"pre", "preWait", "write", "post"} => ToBegin("post")
    /\ OneFate("pre") /\ OneFate("post")
    /\ call.pc \in {"write", "post", "postWait", "resolved"} => EndedWell("pre")
    /\ call.pc = "resolved" => EndedWell("post")

\* What the deletion found is what it deletes.
Stashed ==
    ~disturbed /\ call.pc \in {"preWait", "write"} /\ call.op = "deleteOne" /\ D!Selected(doc) =>
        call.stash = doc

\* What the write left.
Written ==
    ~disturbed /\ call.pc = "post" /\ call.applied =>
        /\ doc = call.after
        /\ call.op = "create" => call.after = call.set
        /\ call.op = "updateOne" => call.after \in FullDocument /\ D!Merged(call.after, call.set) = call.after
        /\ call.op = "findOneAndUpdate" => call.after \in FullDocument /\ D!Merged(call.stash, call.set) = call.after
        /\ call.op = "deleteOne" => call.stash \in FullDocument

DispatchInv == DispatchTyped /\ Dispatched /\ Stashed /\ Written /\ D!PostDecidesOnTheDocument

InDispatch == part = "dispatch" => DispatchInv

-----------------------------------------------------------------------------
\* Nothing is no document.
LEMMA NoDocument == Absent \notin FullDocument /\ FullDocument \subseteq PartialDocument
BY DispatchConstants DEF FullDocument, PartialDocument

\* What is set in a document stays set if it is set again.
LEMMA MergedFacts ==
  ASSUME NEW d \in FullDocument, NEW set \in PartialDocument
  PROVE  /\ D!Merged(d, set) \in FullDocument
         /\ D!Merged(D!Merged(d, set), set) = D!Merged(d, set)
<1>1. PICK fields \in SUBSET D!Fields : set \in [fields -> FieldValues]
  BY DEF PartialDocument
<1>2. d # Absent /\ DOMAIN d = D!Fields
  BY NoDocument DEF FullDocument
<1> DEFINE m == D!Merged(d, set)
<1>3. m = [f \in D!Fields |-> IF f \in fields THEN set[f] ELSE d[f]]
  BY <1>1, <1>2 DEF D!Merged
<1>4. m \in FullDocument
  BY <1>1, <1>3 DEF FullDocument
<1>5. m # Absent
  BY <1>4, NoDocument
<1> HIDE DEF m
<1>6. D!Merged(m, set) = [f \in D!Fields |-> IF f \in fields THEN set[f] ELSE m[f]]
  BY <1>1, <1>3, <1>5 DEF D!Merged
<1>7. [f \in D!Fields |-> IF f \in fields THEN set[f] ELSE m[f]] = m
  BY <1>3
<1>8. m \in FullDocument /\ D!Merged(m, set) = m
  BY <1>4, <1>6, <1>7
<1> QED
  BY <1>8 DEF m

\* An action begins skipped exactly if its conditions say so, and it begins.
LEMMA BegunFacts ==
  ASSUME NEW a, NEW data
  PROVE  /\ D!Begun(a, data) \in {"skipped", "publishing", "sent", "failed"}
         /\ D!Begun(a, data) = "skipped" <=> D!ValidateConditions(data, a.conditions) = "false"
BY DEF D!Begun

\* All actions of a phase begin, and the others stay as they are.
LEMMA DispatchAllFacts ==
  ASSUME DispatchTyped, NEW phase, NEW data, D!DispatchAll(phase, data)
  PROVE  /\ action' \in [DOMAIN action -> DispatchAction] /\ DOMAIN action' = DOMAIN action
         /\ \A a \in DOMAIN action : /\ action'[a].phase = action[a].phase
                                     /\ action'[a].conditions = action[a].conditions
         /\ \A a \in DOMAIN action : action[a].phase # phase => action'[a] = action[a]
         /\ \A a \in DOMAIN action : action[a].phase = phase =>
              action'[a].is = D!Begun(action[a], data)
<1>1. \A a \in DOMAIN action : action[a] \in DispatchAction
  BY DEF DispatchTyped
<1>2. action' = [a \in DOMAIN action |->
                   IF action[a].phase # phase THEN action[a]
                   ELSE [action[a] EXCEPT !.is = D!Begun(action[a], data)]]
  BY DEF D!DispatchAll
<1>3. \A a \in DOMAIN action : D!Begun(action[a], data) \in {"skipped", "publishing", "sent", "failed"}
  BY BegunFacts
<1>4. \A a \in DOMAIN action :
        /\ action[a].phase # phase => action'[a] = action[a]
        /\ action[a].phase = phase => action'[a] = [action[a] EXCEPT !.is = D!Begun(action[a], data)]
  BY <1>2
<1>5. DOMAIN action' = DOMAIN action /\ action' = [a \in DOMAIN action |-> action'[a]]
  BY <1>2
<1>6. ASSUME NEW a \in DOMAIN action
      PROVE  /\ action'[a] \in DispatchAction
             /\ action'[a].phase = action[a].phase /\ action'[a].conditions = action[a].conditions
             /\ action[a].phase = phase => action'[a].is = D!Begun(action[a], data)
  <2>1. CASE action[a].phase = phase
    <3> DEFINE is == D!Begun(action[a], data)
    <3>1. is \in {"skipped", "publishing", "sent", "failed"} /\ action'[a] = [action[a] EXCEPT !.is = is]
      BY <1>3, <1>4, <2>1
    <3> HIDE DEF is
    <3>2. action'[a] \in DispatchAction /\ action'[a].phase = action[a].phase
          /\ action'[a].conditions = action[a].conditions /\ action'[a].is = is
      BY <1>1, <3>1 DEF DispatchAction
    <3> QED
      BY <3>2 DEF is
  <2>2. CASE action[a].phase # phase
    BY <1>1, <1>4, <2>2
  <2> QED
    BY <2>1, <2>2
<1> QED
  BY <1>4, <1>5, <1>6

LEMMA DispatchInitInv ==
  ASSUME D!DispatchInit
  PROVE  DispatchInv
<1>1. PICK op \in {"create", "deleteOne"} \cup D!Updates, filter \in FieldValues \cup {Absent},
           value \in FieldValues, fields \in {{"status"}, {"plan"}, D!Fields} :
        /\ op = "create" => fields = D!Fields /\ filter = Absent
        /\ call = [op |-> op, pc |-> "pre", filter |-> filter, set |-> [f \in fields |-> value],
                   stash |-> Absent, after |-> Absent, applied |-> FALSE]
  BY DEF D!DispatchInit
<1>2. PICK trigger \in Triggers :
        action = [a \in DOMAIN trigger |-> [phase |-> trigger[a].phase, kind |-> trigger[a].kind,
                                            conditions |-> trigger[a].conditions, is |-> "waiting"]]
  BY DEF D!DispatchInit
<1>3. [f \in fields |-> value] \in PartialDocument
  BY DEF PartialDocument, D!Fields
<1>4. call \in DispatchCall /\ (call.op = "create" => call.set \in FullDocument) /\ call.pc = "pre"
  BY <1>1, <1>3 DEF DispatchCall, CallPhases, D!Updates, FullDocument
<1> DEFINE Acts == [phase : {"pre", "post"}, kind : D!Kinds, conditions : Seq(Conditions)]
<1>5. trigger \in Seq(Acts)
  BY DispatchConstants
<1> HIDE DEF Acts
<1>6. \A a \in DOMAIN trigger : trigger[a] \in Acts
  BY <1>5
<1> USE DEF Acts
<1>7. action \in [DOMAIN action -> DispatchAction] /\ \A a \in DOMAIN action : action[a].is = "waiting"
  BY <1>2, <1>6 DEF DispatchAction
<1>8. doc \in FullDocument \cup {Absent} /\ disturbed = FALSE
  BY DEF D!DispatchInit, FullDocument
<1>9. DispatchTyped
  BY <1>4, <1>7, <1>8 DEF DispatchTyped
<1>10. Dispatched
  BY <1>4, <1>7 DEF Dispatched, ToBegin, OneFate, D!Of
<1> QED
  BY <1>4, <1>9, <1>10 DEF DispatchInv, Stashed, Written, D!PostDecidesOnTheDocument

-----------------------------------------------------------------------------
\* What an EXCEPT of the call changes.
LEMMA CallFacts ==
  ASSUME call \in DispatchCall, NEW pc \in CallPhases
  PROVE  LET c == [call EXCEPT !.pc = pc] IN
         /\ c \in DispatchCall /\ c.pc = pc /\ c.op = call.op /\ c.set = call.set /\ c.filter = call.filter
         /\ c.stash = call.stash /\ c.after = call.after /\ c.applied = call.applied
BY DEF DispatchCall

LEMMA PreKeepsInv ==
  ASSUME DispatchInv, D!Pre
  PROVE  DispatchInv'
<1> DEFINE stash == IF call.op = "deleteOne" THEN D!PreData ELSE Absent
<1>1. /\ call.pc = "pre" /\ call \in DispatchCall
      /\ call' = [call EXCEPT !.pc = "preWait", !.stash = stash]
      /\ doc' = doc /\ disturbed' = disturbed /\ doc \in FullDocument \cup {Absent}
      /\ disturbed \in BOOLEAN
  BY DEF D!Pre, DispatchInv, DispatchTyped
<1>2. stash \in FullDocument \cup {Absent} /\ (call.op = "deleteOne" /\ D!Selected(doc) => stash = doc)
  BY <1>1 DEF D!PreData, D!Updates
<1> HIDE DEF stash
<1>3. /\ call' \in DispatchCall /\ call'.pc = "preWait" /\ call'.op = call.op /\ call'.set = call.set
      /\ call'.filter = call.filter /\ call'.stash = stash
  BY <1>1, <1>2 DEF DispatchCall, CallPhases
<1>4. ToBegin("pre") /\ ToBegin("post")
  BY <1>1 DEF DispatchInv, Dispatched
<1>5. action' = action \/ D!DispatchAll("pre", D!PreData)
  BY DEF D!Pre
<1>6. /\ action' \in [DOMAIN action' -> DispatchAction] /\ DOMAIN action' = DOMAIN action
      /\ OneFate("pre")' /\ ToBegin("post")'
  <2>1. CASE action' = action
    BY <1>4, <2>1 DEF DispatchInv, DispatchTyped, OneFate, ToBegin, D!Of
  <2>2. CASE D!DispatchAll("pre", D!PreData)
    <3>1. /\ action' \in [DOMAIN action -> DispatchAction] /\ DOMAIN action' = DOMAIN action
          /\ \A a \in DOMAIN action : action'[a].phase = action[a].phase
          /\ \A a \in DOMAIN action : action[a].phase # "pre" => action'[a] = action[a]
          /\ \A a \in DOMAIN action : action[a].phase = "pre" => action'[a].is # "waiting"
      BY <2>2, DispatchAllFacts, BegunFacts DEF DispatchInv
    <3> QED
      BY <1>4, <3>1 DEF OneFate, ToBegin, D!Of
  <2> QED
    BY <1>5, <2>1, <2>2
<1>7. DispatchTyped'
  BY <1>1, <1>3, <1>6 DEF DispatchTyped, DispatchInv
<1>8. Dispatched'
  BY <1>3, <1>6 DEF Dispatched, OneFate, ToBegin
<1>9. Stashed'
  BY <1>1, <1>2, <1>3 DEF Stashed, D!Selected
<1> QED
  BY <1>3, <1>7, <1>8, <1>9 DEF DispatchInv, Written, D!PostDecidesOnTheDocument

\* The queue's answer ends no other action and skips none.
LEMMA PublishKeepsInv ==
  ASSUME DispatchInv, NEW b \in DOMAIN action, NEW is \in {"sent", "failed"}, D!Publish(b, is)
  PROVE  DispatchInv'
<1>1. /\ action[b].is = "publishing" /\ action' = [action EXCEPT ![b].is = is]
      /\ doc' = doc /\ call' = call /\ disturbed' = disturbed
      /\ action \in [DOMAIN action -> DispatchAction]
  BY DEF D!Publish, DispatchInv, DispatchTyped
<1>2. \A a \in DOMAIN action : action[a] \in DispatchAction
  BY <1>1
<1>3. /\ action' \in [DOMAIN action -> DispatchAction] /\ DOMAIN action' = DOMAIN action
      /\ action'[b].is = is /\ action'[b].phase = action[b].phase /\ action'[b].conditions = action[b].conditions
      /\ \A a \in DOMAIN action : a # b => action'[a] = action[a]
  BY <1>1, <1>2 DEF DispatchAction
<1>4. /\ \A a \in DOMAIN action : action'[a].phase = action[a].phase /\ action'[a].conditions = action[a].conditions
      /\ \A a \in DOMAIN action : (action'[a].is = "waiting") <=> (action[a].is = "waiting")
      /\ \A a \in DOMAIN action : (action'[a].is = "skipped") <=> (action[a].is = "skipped")
      /\ \A a \in DOMAIN action : action[a].is # "publishing" => action'[a] = action[a]
  BY <1>1, <1>3
<1>5. DispatchTyped'
  BY <1>1, <1>3 DEF DispatchInv, DispatchTyped
<1>6. /\ \A phase : D!Of(phase)' = D!Of(phase)
  BY <1>3, <1>4 DEF D!Of
<1>7. \A phase : D!Of(phase) \subseteq DOMAIN action
  BY DEF D!Of
<1>8. \A phase : /\ ToBegin(phase) => ToBegin(phase)'
                 /\ OneFate(phase) => OneFate(phase)'
                 /\ EndedWell(phase) => EndedWell(phase)'
  BY <1>4, <1>6, <1>7 DEF ToBegin, OneFate, EndedWell
<1>9. Dispatched'
  BY <1>1, <1>8 DEF DispatchInv, Dispatched
<1>10. Stashed' /\ Written'
  BY <1>1 DEF DispatchInv, Stashed, Written, D!Selected, D!Merged
<1>11. D!PostDecidesOnTheDocument'
  BY <1>1, <1>4, <1>6, <1>7 DEF DispatchInv, D!PostDecidesOnTheDocument, D!Selected
<1> QED
  BY <1>5, <1>9, <1>10, <1>11 DEF DispatchInv

LEMMA PreSettledKeepsInv ==
  ASSUME DispatchInv, D!PreSettled
  PROVE  DispatchInv'
<1>1. /\ call.pc = "preWait" /\ call \in DispatchCall /\ D!Settled("pre")
      /\ doc' = doc /\ action' = action /\ disturbed' = disturbed
  BY DEF D!PreSettled, DispatchInv, DispatchTyped
<1>2. PICK pc \in {"rejected", "write"} :
        call' = [call EXCEPT !.pc = pc] /\ (pc = "write" => \A a \in D!Of("pre") : action[a].is # "failed")
  BY DEF D!PreSettled, D!Waits
<1>3. /\ call' \in DispatchCall /\ call'.pc = pc /\ call'.op = call.op /\ call'.set = call.set
      /\ call'.filter = call.filter /\ call'.stash = call.stash
  BY <1>1, <1>2, CallFacts DEF CallPhases
<1>4. pc = "write" => EndedWell("pre")
  BY <1>1, <1>2 DEF EndedWell, D!Settled
<1>5. DispatchTyped'
  BY <1>1, <1>3 DEF DispatchInv, DispatchTyped
<1>6. Dispatched'
  BY <1>1, <1>2, <1>3, <1>4 DEF DispatchInv, Dispatched, ToBegin, OneFate, EndedWell, D!Of
<1>7. Stashed'
  BY <1>1, <1>2, <1>3 DEF DispatchInv, Stashed, D!Selected
<1> QED
  BY <1>2, <1>3, <1>5, <1>6, <1>7 DEF DispatchInv, Written, D!PostDecidesOnTheDocument

\* The write leaves the document as the post hooks are to find it.
LEMMA AppliedKeepsInv ==
  ASSUME DispatchInv, D!Applied
  PROVE  DispatchInv'
<1> DEFINE hit == call.op = "create" \/ D!Selected(doc)
           after == CASE ~hit -> doc
                      [] hit /\ call.op = "create" -> call.set
                      [] hit /\ call.op \in D!Updates -> D!Merged(doc, call.set)
                      [] hit /\ call.op = "deleteOne" -> Absent
           stash == IF call.op = "findOneAndUpdate" /\ hit THEN doc ELSE call.stash
<1>1. /\ call.pc = "write" /\ call \in DispatchCall /\ doc \in FullDocument \cup {Absent}
      /\ call.op = "create" => call.set \in FullDocument
      /\ doc' = after /\ action' = action /\ disturbed' = disturbed
      /\ call' = [call EXCEPT !.pc = "post", !.after = after, !.applied = hit, !.stash = stash]
  BY DEF D!Applied, DispatchInv, DispatchTyped
<1>2. /\ call.op \in {"create", "deleteOne", "updateOne", "findOneAndUpdate"} /\ call.set \in PartialDocument
      /\ call.stash \in FullDocument \cup {Absent} /\ hit \in BOOLEAN
  BY <1>1 DEF DispatchCall
<1>3. ~hit => after = doc
  OBVIOUS
<1>4. call.op = "create" => after = call.set /\ hit
  BY DEF D!Updates
<1>5. hit /\ call.op \in D!Updates => /\ doc \in FullDocument /\ after = D!Merged(doc, call.set)
                                      /\ after \in FullDocument /\ D!Merged(after, call.set) = after
  <2> SUFFICES ASSUME hit, call.op \in D!Updates
               PROVE  /\ doc \in FullDocument /\ after = D!Merged(doc, call.set)
                      /\ after \in FullDocument /\ D!Merged(after, call.set) = after
    OBVIOUS
  <2>1. doc \in FullDocument
    BY <1>1 DEF D!Selected, D!Updates
  <2>2. after = D!Merged(doc, call.set)
    BY DEF D!Updates
  <2> QED
    BY <1>2, <2>1, <2>2, MergedFacts
<1>6. hit /\ call.op = "deleteOne" => doc \in FullDocument /\ after = Absent
  BY <1>1 DEF D!Selected, D!Updates
<1>7. after \in FullDocument \cup {Absent}
  BY <1>1, <1>2, <1>3, <1>4, <1>5, <1>6 DEF D!Updates
<1>8. stash \in FullDocument \cup {Absent}
  BY <1>1, <1>2
<1>9. call.op = "findOneAndUpdate" /\ hit => stash = doc
  OBVIOUS
<1>10. call.op # "findOneAndUpdate" => stash = call.stash
  OBVIOUS
<1>11. hit /\ call.op = "deleteOne" => D!Selected(doc)
  OBVIOUS
<1> HIDE DEF hit, after, stash
<1>12. /\ call' \in DispatchCall /\ call'.pc = "post" /\ call'.op = call.op /\ call'.set = call.set
       /\ call'.stash = stash /\ call'.after = after /\ call'.applied = hit
  BY <1>1, <1>2, <1>7, <1>8 DEF DispatchCall, CallPhases
<1>13. DispatchTyped'
  BY <1>1, <1>7, <1>12 DEF DispatchInv, DispatchTyped
<1>14. Dispatched'
  BY <1>1, <1>12 DEF DispatchInv, Dispatched, ToBegin, OneFate, EndedWell, D!Of
<1>15. Written'
  <2> SUFFICES ASSUME ~disturbed, hit
               PROVE  /\ call.op = "create" => after = call.set
                      /\ call.op = "updateOne" => after \in FullDocument /\ D!Merged(after, call.set) = after
                      /\ call.op = "findOneAndUpdate" =>
                           after \in FullDocument /\ D!Merged(stash, call.set) = after
                      /\ call.op = "deleteOne" => stash \in FullDocument
    BY <1>1, <1>12 DEF Written, FullDocument, D!Merged, D!Fields
  <2>1. call.op = "deleteOne" => call.stash = doc
    BY <1>1, <1>11 DEF DispatchInv, Stashed
  <2> QED
    BY <1>4, <1>5, <1>6, <1>9, <1>10, <2>1 DEF D!Updates
<1> QED
  BY <1>12, <1>13, <1>14, <1>15 DEF DispatchInv, Stashed, D!PostDecidesOnTheDocument

LEMMA WriteFailsKeepsInv ==
  ASSUME DispatchInv, D!WriteFails
  PROVE  DispatchInv'
<1>1. /\ call.pc = "write" /\ call \in DispatchCall /\ call' = [call EXCEPT !.pc = "rejected"]
      /\ doc' = doc /\ action' = action /\ disturbed' = disturbed
  BY DEF D!WriteFails, DispatchInv, DispatchTyped
<1>2. /\ call' \in DispatchCall /\ call'.pc = "rejected" /\ call'.op = call.op /\ call'.set = call.set
  BY <1>1, CallFacts DEF CallPhases
<1>3. DispatchTyped'
  BY <1>1, <1>2 DEF DispatchInv, DispatchTyped
<1>4. Dispatched'
  BY <1>1, <1>2 DEF DispatchInv, Dispatched, ToBegin, OneFate, D!Of
<1> QED
  BY <1>2, <1>3, <1>4 DEF DispatchInv, Stashed, Written, D!PostDecidesOnTheDocument

\* What the post hooks are handed is what the write left, or removed.
LEMMA PostDataIsWhatIsLeft ==
  ASSUME DispatchInv, call.pc = "post", call.applied, ~disturbed,
         ~(call.op = "updateOne" /\ ~D!Selected(call.after))
  PROVE  LET seen == IF call.op = "deleteOne" THEN call.stash ELSE call.after IN
         D!PostData = seen /\ seen # Absent
<1>1. /\ doc = call.after
      /\ call.op = "create" => call.after = call.set /\ call.set \in FullDocument
      /\ call.op = "updateOne" => call.after \in FullDocument /\ D!Merged(call.after, call.set) = call.after
      /\ call.op = "findOneAndUpdate" => call.after \in FullDocument /\ D!Merged(call.stash, call.set) = call.after
      /\ call.op = "deleteOne" => call.stash \in FullDocument
      /\ call.op \in {"create", "deleteOne", "updateOne", "findOneAndUpdate"}
  BY DEF DispatchInv, Written, DispatchTyped, DispatchCall
<1>2. CASE call.op = "create"
  BY <1>1, <1>2, NoDocument DEF D!PostData
<1>3. CASE call.op = "updateOne"
  BY <1>1, <1>3, NoDocument DEF D!PostData
<1>4. CASE call.op = "findOneAndUpdate"
  BY <1>1, <1>4, NoDocument DEF D!PostData
<1>5. CASE call.op = "deleteOne"
  BY <1>1, <1>5, NoDocument DEF D!PostData
<1> QED
  BY <1>1, <1>2, <1>3, <1>4, <1>5

LEMMA PostKeepsInv ==
  ASSUME DispatchInv, D!Post
  PROVE  DispatchInv'
<1>1. /\ call.pc = "post" /\ call \in DispatchCall /\ call' = [call EXCEPT !.pc = "postWait"]
      /\ doc' = doc /\ disturbed' = disturbed
      /\ action \in [DOMAIN action -> DispatchAction]
  BY DEF D!Post, DispatchInv, DispatchTyped
<1>2. /\ call' \in DispatchCall /\ call'.pc = "postWait" /\ call'.op = call.op /\ call'.set = call.set
      /\ call'.filter = call.filter /\ call'.stash = call.stash /\ call'.after = call.after
      /\ call'.applied = call.applied
  BY <1>1, CallFacts DEF CallPhases
<1>3. ToBegin("post") /\ OneFate("pre") /\ EndedWell("pre")
  BY <1>1 DEF DispatchInv, Dispatched
<1>4. action' = action \/ D!DispatchAll("post", D!PostData)
  BY DEF D!Post
<1>5. /\ D!DispatchAll("post", D!PostData) =>
           /\ action' \in [DOMAIN action -> DispatchAction] /\ DOMAIN action' = DOMAIN action
           /\ \A a \in DOMAIN action : /\ action'[a].phase = action[a].phase
                                       /\ action'[a].conditions = action[a].conditions
           /\ \A a \in DOMAIN action : action[a].phase # "post" => action'[a] = action[a]
           /\ \A a \in DOMAIN action : action[a].phase = "post" =>
                action'[a].is = D!Begun(action[a], D!PostData)
  BY DispatchAllFacts DEF DispatchInv
<1>6. /\ action' \in [DOMAIN action' -> DispatchAction]
      /\ OneFate("pre")' /\ OneFate("post")' /\ EndedWell("pre")'
  <2>1. CASE action' = action
    BY <1>1, <1>3, <2>1 DEF OneFate, ToBegin, EndedWell, D!Of
  <2>2. CASE D!DispatchAll("post", D!PostData)
    <3>1. \A a \in DOMAIN action : action[a].phase = "post" => action'[a].is # "waiting"
      BY <1>5, <2>2, BegunFacts
    <3> QED
      BY <1>3, <1>5, <2>2, <3>1 DEF OneFate, ToBegin, EndedWell, D!Of
  <2> QED
    BY <1>4, <2>1, <2>2
<1>7. DispatchTyped'
  BY <1>1, <1>2, <1>6 DEF DispatchInv, DispatchTyped
<1>8. Dispatched'
  BY <1>2, <1>6 DEF Dispatched
<1>9. D!PostDecidesOnTheDocument'
  <2> DEFINE seen == IF call.op = "deleteOne" THEN call.stash ELSE call.after
  <2> SUFFICES ASSUME call.applied, ~disturbed, ~(call.op = "updateOne" /\ ~D!Selected(call.after)),
                      NEW a \in D!Of("post")'
               PROVE  (action'[a].is = "skipped") <=> D!ValidateConditions(seen, action'[a].conditions) = "false"
    BY <1>1, <1>2 DEF D!PostDecidesOnTheDocument, D!Selected
  <2>1. D!PostData = seen /\ seen # Absent
    BY <1>1, PostDataIsWhatIsLeft
  <2>2. D!DispatchAll("post", D!PostData)
    BY <2>1 DEF D!Post
  <2>3. a \in DOMAIN action /\ action[a].phase = "post"
    BY <1>5, <2>2 DEF D!Of
  <2>4. action'[a].is = D!Begun(action[a], seen) /\ action'[a].conditions = action[a].conditions
    BY <1>5, <2>1, <2>2, <2>3
  <2> QED
    BY <2>4, BegunFacts
<1> QED
  BY <1>2, <1>7, <1>8, <1>9 DEF DispatchInv, Stashed, Written

LEMMA PostSettledKeepsInv ==
  ASSUME DispatchInv, D!PostSettled
  PROVE  DispatchInv'
<1>1. /\ call.pc = "postWait" /\ call \in DispatchCall /\ D!Settled("post")
      /\ doc' = doc /\ action' = action /\ disturbed' = disturbed
  BY DEF D!PostSettled, DispatchInv, DispatchTyped
<1>2. PICK pc \in {"rejected", "resolved"} :
        call' = [call EXCEPT !.pc = pc] /\ (pc = "resolved" => \A a \in D!Of("post") : action[a].is # "failed")
  BY DEF D!PostSettled, D!Waits
<1>3. /\ call' \in DispatchCall /\ call'.pc = pc /\ call'.op = call.op /\ call'.set = call.set
      /\ call'.filter = call.filter /\ call'.stash = call.stash /\ call'.after = call.after
      /\ call'.applied = call.applied
  BY <1>1, <1>2, CallFacts DEF CallPhases
<1>4. pc = "resolved" => EndedWell("post")
  BY <1>1, <1>2 DEF EndedWell, D!Settled
<1>5. DispatchTyped'
  BY <1>1, <1>3 DEF DispatchInv, DispatchTyped
<1>6. Dispatched'
  BY <1>1, <1>2, <1>3, <1>4 DEF DispatchInv, Dispatched, ToBegin, OneFate, EndedWell, D!Of
<1>7. D!PostDecidesOnTheDocument'
  BY <1>1, <1>2, <1>3 DEF DispatchInv, D!PostDecidesOnTheDocument, D!Selected, D!Of
<1> QED
  BY <1>2, <1>3, <1>5, <1>6, <1>7 DEF DispatchInv, Stashed, Written

LEMMA OthersWriteDocKeepsInv ==
  ASSUME DispatchInv, D!OthersWriteDoc
  PROVE  DispatchInv'
<1>1. /\ disturbed' = TRUE /\ doc' \in FullDocument \cup {Absent} /\ call' = call /\ action' = action
  BY DEF D!OthersWriteDoc, FullDocument
<1>2. DispatchTyped'
  BY <1>1 DEF DispatchInv, DispatchTyped
<1>3. Dispatched'
  BY <1>1 DEF DispatchInv, Dispatched, ToBegin, OneFate, EndedWell, D!Of
<1> QED
  BY <1>1, <1>2, <1>3 DEF DispatchInv, Stashed, Written, D!PostDecidesOnTheDocument

\* Every step keeps it.
LEMMA DispatchNextKeepsInv ==
  ASSUME DispatchInv, D!DispatchNext
  PROVE  DispatchInv'
BY PreKeepsInv, PreSettledKeepsInv, AppliedKeepsInv, WriteFailsKeepsInv, PostKeepsInv, PostSettledKeepsInv,
   OthersWriteDocKeepsInv, PublishKeepsInv DEF D!DispatchNext

LEMMA DispatchStays ==
  ASSUME DispatchInv, UNCHANGED dispatchVars
  PROVE  DispatchInv'
<1>1. doc' = doc /\ call' = call /\ action' = action /\ disturbed' = disturbed
  BY DEF dispatchVars
<1>2. DispatchTyped' /\ Dispatched'
  BY <1>1 DEF DispatchInv, DispatchTyped, Dispatched, ToBegin, OneFate, EndedWell, D!Of
<1>3. Stashed' /\ Written'
  BY <1>1 DEF DispatchInv, Stashed, Written, D!Selected, D!Merged
<1>4. D!PostDecidesOnTheDocument'
  BY <1>1 DEF DispatchInv, D!PostDecidesOnTheDocument, D!Selected, D!Of
<1> QED
  BY <1>2, <1>3, <1>4 DEF DispatchInv

\* The invariant of the dispatch, which both theorems follow from.
LEMMA InDispatchHolds == PartsSpec => []InDispatch
<1>1. PartsInit => InDispatch
  BY DispatchInitInv DEF PartsInit, InDispatch
<1>2. InDispatch /\ [PartsNext]_partsVars => InDispatch'
  <2> SUFFICES ASSUME InDispatch, [PartsNext]_partsVars, part' = "dispatch"
               PROVE  DispatchInv'
    BY DEF InDispatch
  <2>1. part = "dispatch" /\ DispatchInv
    BY DEF PartsNext, partsVars, InDispatch
  <2>2. CASE D!DispatchNext
    BY <2>1, <2>2, DispatchNextKeepsInv
  <2>3. CASE UNCHANGED dispatchVars
    BY <2>1, <2>3, DispatchStays
  <2> QED
    BY <2>1, <2>2, <2>3 DEF PartsNext, partsVars
<1> QED
  BY <1>1, <1>2, PTL DEF PartsSpec

\* However its triggers, their conditions and the queue behave, and whatever
\* the call does to the document: unless somebody else writes meanwhile, its
\* post actions are skipped exactly as their conditions say of the document
\* that the write left.
THEOREM PostActionsSeeTheWrite == PartsSpec => []PostDecidesOnTheDocument
<1>1. InDispatch => PostDecidesOnTheDocument
  BY DEF InDispatch, DispatchInv, PostDecidesOnTheDocument
<1> QED
  BY <1>1, InDispatchHolds, PTL

\* With any number of actions, in any order: one that fails keeps no other of
\* its phase from beginning, and no call is resolved over a failure.
THEOREM ActionsFailAlone == PartsSpec => []FailuresAreIsolated
<1>1. InDispatch => FailuresAreIsolated
  <2> SUFFICES ASSUME part = "dispatch", DispatchInv
               PROVE  D!FailuresAreIsolated
    BY DEF InDispatch, FailuresAreIsolated
  <2>1. /\ OneFate("pre") /\ OneFate("post")
        /\ call.pc = "resolved" => EndedWell("pre") /\ EndedWell("post")
    BY DEF DispatchInv, Dispatched
  <2>2. \A a \in DOMAIN action : action[a].phase \in {"pre", "post"}
    BY DEF DispatchInv, DispatchTyped, DispatchAction
  <2> QED
    BY <2>1, <2>2 DEF D!FailuresAreIsolated, OneFate, ToBegin, EndedWell, D!Of
<1> QED
  BY <1>1, InDispatchHolds, PTL
-----------------------------------------------------------------------------
(***************************************************************************)
(* Transforms.  Below the address of a call nothing has changed yet, and   *)
(* no call is below another; each is where the path leads; what has        *)
(* changed was to be changed, and what is to be changed has been or is     *)
(* below a call, unless the traversal has failed.                          *)
(***************************************************************************)
TransformInput ==
    /\ input.value \in Documents /\ input.path \in Paths
    /\ input.deep \in BOOLEAN /\ input.removes \in BOOLEAN

Changed(document, a) == a \notin DOMAIN document \/ document[a] # input.value[a]

\* The path ends at a call, and not at a key of its own.
PathFinds == Len(X!Keys) = 1 \/ X!LastKey(X!Keys) = "*"

\* What is in nothing but new arrays that nobody keeps.
DroppedAt(a) ==
    /\ X!Keys # <<>> /\ X!Under(a) /\ PathFinds
    /\ \A i \in Len(X!Keys) + 1 .. Len(a) : a[i] = "_id" => X!Above(a, i - 1) # "object"
    /\ Len(a) > Len(X!Keys) \/ input.value[a] # "falsy"
    /\ X!Above(a, Len(X!Keys) - 1) = "map"
    /\ \A n \in Len(X!Keys) .. Len(a) - 1 : X!Above(a, n) = "array"

\* A call is where the path leads.
Leads(c) ==
    /\ ~input.deep => c.does = "path" /\ X!Fits(c.at) /\ (X!Selects => Len(c.at) < Len(X!Keys))
    /\ input.deep /\ c.does = "path" =>
         X!Fits(c.at) /\ Len(c.at) > 0 /\ (Len(c.at) = Len(X!Keys) => PathFinds)
    /\ input.deep /\ c.does = "all" => X!DeepReaches(c.at)
    /\ input.deep /\ c.does = "dropped" => DroppedAt(c.at)

AtTheEnd(a) == X!Selects /\ Len(a) = Len(X!Keys) /\ X!Fits(a)

ToChange(a) ==
    IF input.deep THEN input.value[a] \in X!Leaves /\ X!DeepReaches(a) ELSE X!Emptied(a) \/ AtTheEnd(a)

ShallowAllows(document, a) ==
    /\ ~(X!Selects /\ X!Under(a)) =>
         /\ a \in DOMAIN document
         /\ document[a] = input.value[a] \/ (X!Emptied(a) /\ document[a] \in {"array", "object"})
    /\ AtTheEnd(a) =>
         IF input.removes THEN ~Changed(document, a) \/ a \notin DOMAIN document
         ELSE a \in DOMAIN document /\ document[a] \in {input.value[a], "done"}

DeepAllows(document, a) ==
    /\ a \in DOMAIN document
    /\ \/ document[a] = input.value[a]
       \/ document[a] = "done" /\ input.value[a] \in X!Leaves /\ X!DeepReaches(a)

Allows(document, a) == IF input.deep THEN DeepAllows(document, a) ELSE ShallowAllows(document, a)

TransformCall == [at : DOMAIN input.value, does : {"path", "all", "dropped"}]

Waits(a, remaining) == \E c \in remaining : X!Below(a, c.at)

\* The calls: where the path leads, with nothing changed below them, apart.
CallsHold(document, remaining) ==
    /\ remaining \subseteq TransformCall /\ \A c \in remaining : Leads(c)
    /\ \A c \in remaining, b \in DOMAIN input.value : X!Below(b, c.at) => ~Changed(document, b)
    /\ \A c, d \in remaining : X!Below(d.at, c.at) => c = d

TransformHolds(document, remaining, failed) ==
    /\ CallsHold(document, remaining)
    /\ DOMAIN document \subseteq DOMAIN input.value
    /\ \A a \in DOMAIN input.value : Allows(document, a)
    /\ ~failed => \A a \in DOMAIN input.value : ToChange(a) => Changed(document, a) \/ Waits(a, remaining)

TransformInv == TransformInput /\ TransformHolds(ret, calls, thrown)

InTransforms == part = "transforms" => TransformInv

-----------------------------------------------------------------------------
\* Addresses: what is below what.
LEMMA BelowSelf ==
  ASSUME NEW S, NEW a \in Seq(S)
  PROVE  X!Below(a, a)
  BY DEF X!Below

LEMMA BelowBelow ==
  ASSUME NEW S, NEW a \in Seq(S), NEW b \in Seq(S), NEW c \in Seq(S), X!Below(c, b), X!Below(b, a)
  PROVE  X!Below(c, a)
  BY DEF X!Below

LEMMA BelowEqual ==
  ASSUME NEW S, NEW a \in Seq(S), NEW b \in Seq(S), X!Below(b, a), Len(b) <= Len(a)
  PROVE  b = a
  BY DEF X!Below

LEMMA BelowBoth ==
  ASSUME NEW S, NEW a \in Seq(S), NEW b \in Seq(S), NEW c \in Seq(S),
         X!Below(c, a), X!Below(c, b), Len(a) <= Len(b)
  PROVE  X!Below(b, a)
  BY DEF X!Below

LEMMA PrefixFacts ==
  ASSUME NEW S, NEW a \in Seq(S), NEW n \in 0 .. Len(a)
  PROVE  /\ SubSeq(a, 1, n) \in Seq(S) /\ Len(SubSeq(a, 1, n)) = n
         /\ \A i \in 1 .. n : SubSeq(a, 1, n)[i] = a[i]
         /\ X!Below(a, SubSeq(a, 1, n))
<1>1. 1 \in 1 .. Len(a) + 1 /\ n \in 0 .. Len(a) /\ Len(a) \in Nat /\ n \in Nat
  OBVIOUS
<1>2. /\ SubSeq(a, 1, n) \in Seq(S) /\ Len(SubSeq(a, 1, n)) = n
      /\ \A i \in 1 .. n : SubSeq(a, 1, n)[i] = a[i]
  BY <1>1, SubSeqProperties
<1>3. DOMAIN SubSeq(a, 1, n) = 1 .. n
  BY <1>2
<1> QED
  BY <1>1, <1>2, <1>3 DEF X!Below

LEMMA PrefixOfBelow ==
  ASSUME NEW S, NEW a \in Seq(S), NEW b \in Seq(S), X!Below(b, a), NEW n \in 0 .. Len(a)
  PROVE  SubSeq(b, 1, n) = SubSeq(a, 1, n)
<1>1. Len(a) \in Nat /\ Len(b) \in Nat /\ Len(a) <= Len(b) /\ n \in 0 .. Len(b)
  BY DEF X!Below
<1>2. /\ SubSeq(a, 1, n) \in Seq(S) /\ Len(SubSeq(a, 1, n)) = n
      /\ \A i \in 1 .. n : SubSeq(a, 1, n)[i] = a[i]
  BY PrefixFacts
<1>3. /\ SubSeq(b, 1, n) \in Seq(S) /\ Len(SubSeq(b, 1, n)) = n
      /\ \A i \in 1 .. n : SubSeq(b, 1, n)[i] = b[i]
  BY <1>1, PrefixFacts
<1>4. \A i \in 1 .. n : a[i] = b[i]
  BY <1>1 DEF X!Below
<1> QED
  BY <1>2, <1>3, <1>4, SeqEqual

LEMMA ChildFacts ==
  ASSUME NEW S, NEW a \in Seq(S), NEW k \in S
  PROVE  /\ Append(a, k) \in Seq(S) /\ Len(Append(a, k)) = Len(a) + 1 /\ Append(a, k)[Len(a) + 1] = k
         /\ X!Below(Append(a, k), a)
  BY DEF X!Below

LEMMA ChildIs ==
  ASSUME NEW S, NEW a \in Seq(S), NEW b \in Seq(S), X!Below(b, a), Len(b) = Len(a) + 1
  PROVE  /\ b = Append(a, b[Len(a) + 1]) /\ b[Len(a) + 1] \in S
         /\ X!LastKey(b) = b[Len(a) + 1] /\ X!Parent(b) = a /\ SubSeq(b, 1, Len(a)) = a /\ b # <<>>
<1>1. Len(a) \in Nat /\ DOMAIN b = 1 .. Len(a) + 1 /\ b[Len(a) + 1] \in S
  OBVIOUS
<1>2. X!LastKey(b) = b[Len(a) + 1] /\ X!Parent(b) = SubSeq(b, 1, Len(a))
  BY <1>1 DEF X!LastKey, X!Parent
<1>3. SubSeq(b, 1, Len(a)) = SubSeq(a, 1, Len(a))
  BY <1>1, PrefixOfBelow
<1>4. SubSeq(a, 1, Len(a)) = a
  BY SubSeqFull
<1>5. /\ Append(a, b[Len(a) + 1]) \in Seq(S) /\ Len(Append(a, b[Len(a) + 1])) = Len(b)
      /\ \A i \in 1 .. Len(b) : Append(a, b[Len(a) + 1])[i] = b[i]
  BY <1>1 DEF X!Below
<1>6. b = Append(a, b[Len(a) + 1])
  BY <1>5, SeqEqual
<1> QED
  BY <1>1, <1>2, <1>3, <1>4, <1>6

-----------------------------------------------------------------------------
\* What a document is, and what fits a path.
LEMMA DocumentFacts ==
  ASSUME TransformInput
  PROVE  /\ DOMAIN input.value \subseteq Seq(STRING) /\ <<>> \in DOMAIN input.value
         /\ input.value[<<>>] \in X!Nodes
         /\ \A a \in DOMAIN input.value : input.value[a] \in X!Leaves \cup {"null"} \cup X!Nodes
         /\ \A a \in DOMAIN input.value : \A n \in 0 .. Len(a) - 1 :
              SubSeq(a, 1, n) \in DOMAIN input.value /\ input.value[SubSeq(a, 1, n)] \in X!Nodes
<1>1. input.value \in Documents
  BY DEF TransformInput
<1> DEFINE d == input.value
<1>2. d \in Documents
  BY <1>1
<1> HIDE DEF d
<1>3. /\ DOMAIN d \subseteq Seq(STRING) /\ <<>> \in DOMAIN d /\ d[<<>>] \in {"object", "array", "map"}
      /\ d \in [DOMAIN d -> {"leaf", "falsy", "null", "object", "array", "map"}]
      /\ \A a \in DOMAIN d : \A n \in 0 .. Len(a) - 1 :
           SubSeq(a, 1, n) \in DOMAIN d /\ d[SubSeq(a, 1, n)] \in {"object", "array", "map"}
  BY <1>2, TransformConstants
<1>4. \A a \in DOMAIN d : d[a] \in {"leaf", "falsy", "null", "object", "array", "map"}
  BY <1>3
<1> QED
  BY <1>3, <1>4 DEF d, X!Nodes, X!Leaves

LEMMA KeyFacts ==
  ASSUME TransformInput
  PROVE  X!Keys \in Seq(STRING) /\ Len(X!Keys) \in Nat /\ DOMAIN X!Keys = 1 .. Len(X!Keys)
<1>1. input.path \in Seq(STRING) /\ input.path # <<>>
  BY TransformConstants DEF TransformInput
<1>2. Len(input.path) \in Nat \ {0}
  BY <1>1
<1>3. SubSeq(input.path, 1, Len(input.path) - 1) \in Seq(STRING)
  BY <1>1, <1>2, PrefixFacts
<1>4. X!Keys \in Seq(STRING)
  BY <1>1, <1>3 DEF X!Keys, X!Parent
<1> QED
  BY <1>4

LEMMA ToChild ==
  ASSUME TransformInput, NEW a \in DOMAIN input.value, NEW b \in DOMAIN input.value, X!Below(b, a), b # a
  PROVE  /\ input.value[a] \in X!Nodes
         /\ \E k \in DOMAIN input.value : X!Below(k, a) /\ Len(k) = Len(a) + 1 /\ X!Below(b, k)
<1>1. a \in Seq(STRING) /\ b \in Seq(STRING) /\ Len(a) \in Nat /\ Len(b) \in Nat
  BY DocumentFacts
<1>2. Len(a) < Len(b)
  BY <1>1, BelowEqual
<1>3. SubSeq(b, 1, Len(a)) = SubSeq(a, 1, Len(a)) /\ SubSeq(a, 1, Len(a)) = a
  BY <1>1, PrefixOfBelow, SubSeqFull
<1>4. input.value[a] \in X!Nodes
  <2>1. Len(a) \in 0 .. Len(b) - 1 /\ a = SubSeq(b, 1, Len(a))
    BY <1>1, <1>2, <1>3
  <2>2. input.value[SubSeq(b, 1, Len(a))] \in X!Nodes
    BY <2>1, DocumentFacts
  <2> QED
    BY <2>1, <2>2
<1> DEFINE k == SubSeq(b, 1, Len(a) + 1)
<1>5. k \in Seq(STRING) /\ Len(k) = Len(a) + 1 /\ X!Below(b, k)
  <2>1. Len(a) + 1 \in 0 .. Len(b)
    BY <1>1, <1>2
  <2> QED
    BY <1>1, <2>1, PrefixFacts
<1>6. k \in DOMAIN input.value
  <2>1. CASE Len(b) = Len(a) + 1
    BY <1>1, <2>1, SubSeqFull
  <2>2. CASE Len(b) # Len(a) + 1
    BY <1>1, <1>2, <2>2, DocumentFacts
  <2> QED
    BY <2>1, <2>2
<1> HIDE DEF k
<1>7. X!Below(k, a)
  BY <1>1, <1>5, BelowBoth
<1> QED
  BY <1>4, <1>5, <1>6, <1>7

LEMMA OnlyNodesHold ==
  ASSUME TransformInput, NEW a \in DOMAIN input.value, NEW b \in DOMAIN input.value, X!Below(b, a),
         input.value[a] \notin X!Nodes
  PROVE  b = a
  BY ToChild

LEMMA SameAbove ==
  ASSUME NEW a \in Seq(STRING), NEW b \in Seq(STRING), X!Below(b, a)
  PROVE  /\ \A n \in 0 .. Len(a) : X!Above(b, n) = X!Above(a, n)
         /\ X!Above(b, Len(a)) = input.value[a]
<1>1. \A n \in 0 .. Len(a) : SubSeq(b, 1, n) = SubSeq(a, 1, n)
  BY PrefixOfBelow
<1>2. SubSeq(a, 1, Len(a)) = a /\ Len(a) \in 0 .. Len(a)
  BY SubSeqFull
<1> QED
  BY <1>1, <1>2 DEF X!Above

\* What an address fits beyond what its parent does.
FitsNext(a, b) ==
    /\ X!Keys[Len(b)] \in {b[Len(b)], "*"}
    /\ ~input.deep /\ X!Keys[Len(b)] # "*" => ~(input.value[a] = "map" /\ X!Keys[Len(b)] \in Indices)
    /\ input.deep /\ X!Keys[Len(b)] = "*" =>
         IF Len(b) = 1 THEN b[Len(b)] = "*" ELSE input.value[a] = "map" \/ b[Len(b)] # "_id"

LEMMA FitsAbove ==
  ASSUME NEW a \in Seq(STRING), NEW b \in Seq(STRING), X!Below(b, a), X!Fits(b), X!Keys \in Seq(STRING)
  PROVE  X!Fits(a)
<1>1. /\ Len(a) \in Nat /\ Len(b) \in Nat /\ Len(X!Keys) \in Nat /\ Len(a) <= Len(b)
      /\ DOMAIN a = 1 .. Len(a) /\ DOMAIN b = 1 .. Len(b) /\ \A i \in DOMAIN a : b[i] = a[i]
  BY DEF X!Below
<1>2. \A i \in DOMAIN a : X!Above(b, i - 1) = X!Above(a, i - 1)
  BY <1>1, SameAbove
<1> QED
  BY <1>1, <1>2 DEF X!Fits

LEMMA FitsChild ==
  ASSUME NEW a \in Seq(STRING), NEW b \in Seq(STRING), X!Below(b, a), Len(b) = Len(a) + 1,
         X!Keys \in Seq(STRING)
  PROVE  X!Fits(b) <=> X!Fits(a) /\ Len(b) <= Len(X!Keys) /\ FitsNext(a, b)
<1>1. /\ Len(a) \in Nat /\ Len(b) \in Nat /\ Len(X!Keys) \in Nat
      /\ DOMAIN a = 1 .. Len(a) /\ DOMAIN b = 1 .. Len(b) /\ \A i \in DOMAIN a : b[i] = a[i]
  BY DEF X!Below
<1>2. /\ \A i \in DOMAIN a : X!Above(b, i - 1) = X!Above(a, i - 1)
      /\ X!Above(b, Len(b) - 1) = input.value[a]
  BY <1>1, SameAbove
<1>3. ASSUME X!Fits(b)
      PROVE  X!Fits(a) /\ Len(b) <= Len(X!Keys) /\ FitsNext(a, b)
  <2>1. X!Fits(a)
    BY <1>3, FitsAbove
  <2>2. Len(b) \in DOMAIN b /\ Len(b) <= Len(X!Keys)
    BY <1>1, <1>3 DEF X!Fits
  <2> QED
    BY <1>2, <1>3, <2>1, <2>2 DEF X!Fits, FitsNext
<1>4. ASSUME X!Fits(a), Len(b) <= Len(X!Keys), FitsNext(a, b)
      PROVE  X!Fits(b)
  <2>1. \A i \in DOMAIN b : i \in DOMAIN a \/ i = Len(b)
    BY <1>1
  <2> DEFINE Fit(i) ==
         /\ X!Keys[i] \in {b[i], "*"}
         /\ ~input.deep /\ X!Keys[i] # "*" => ~(X!Above(b, i - 1) = "map" /\ X!Keys[i] \in Indices)
         /\ input.deep /\ X!Keys[i] = "*" =>
              IF i = 1 THEN b[i] = "*" ELSE X!Above(b, i - 1) = "map" \/ b[i] # "_id"
  <2>2. ASSUME NEW i \in DOMAIN a
        PROVE  Fit(i)
    BY <1>1, <1>2, <1>4 DEF X!Fits
  <2>3. Fit(Len(b))
    BY <1>2, <1>4 DEF FitsNext
  <2>4. \A i \in DOMAIN b : Fit(i)
    BY <2>1, <2>2, <2>3
  <2> QED
    BY <1>4, <2>4 DEF X!Fits
<1> QED
  BY <1>3, <1>4

LEMMA UnderFits ==
  ASSUME NEW a \in Seq(STRING), NEW b \in Seq(STRING), X!Below(b, a), X!Keys \in Seq(STRING)
  PROVE  /\ X!Fits(a) /\ Len(X!Keys) <= Len(a) => X!Under(a)
         /\ X!Under(a) => X!Under(b)
         /\ X!Under(b) /\ Len(X!Keys) <= Len(a) => X!Under(a)
         /\ X!Under(b) /\ Len(a) <= Len(X!Keys) => X!Fits(a)
<1>1. Len(a) \in Nat /\ Len(b) \in Nat /\ Len(X!Keys) \in Nat /\ Len(a) <= Len(b)
  BY DEF X!Below
<1>2. ASSUME Len(X!Keys) <= Len(a)
      PROVE  SubSeq(b, 1, Len(X!Keys)) = SubSeq(a, 1, Len(X!Keys))
  BY <1>1, <1>2, PrefixOfBelow
<1>3. ASSUME X!Fits(a), Len(X!Keys) <= Len(a)
      PROVE  X!Under(a)
  <2>1. Len(a) = Len(X!Keys)
    BY <1>1, <1>3 DEF X!Fits
  <2>2. SubSeq(a, 1, Len(a)) = a
    BY SubSeqFull
  <2> QED
    BY <1>3, <2>1, <2>2 DEF X!Under
<1>4. ASSUME X!Under(a)
      PROVE  X!Under(b)
  <2>1. Len(X!Keys) <= Len(a) /\ X!Fits(SubSeq(a, 1, Len(X!Keys)))
    BY <1>4 DEF X!Under
  <2>2. Len(X!Keys) <= Len(b) /\ SubSeq(b, 1, Len(X!Keys)) = SubSeq(a, 1, Len(X!Keys))
    BY <1>1, <1>2, <2>1
  <2> QED
    BY <2>1, <2>2 DEF X!Under
<1>5. X!Under(b) /\ Len(X!Keys) <= Len(a) => X!Under(a)
  BY <1>2 DEF X!Under
<1>6. ASSUME X!Under(b), Len(a) <= Len(X!Keys)
      PROVE  X!Fits(a)
  <2> DEFINE p == SubSeq(b, 1, Len(X!Keys))
  <2>1. Len(X!Keys) \in 0 .. Len(b) /\ X!Fits(p)
    BY <1>1, <1>6 DEF X!Under
  <2>2. p \in Seq(STRING) /\ Len(p) = Len(X!Keys) /\ X!Below(b, p)
    BY <2>1, PrefixFacts
  <2> HIDE DEF p
  <2>3. X!Below(p, a)
    BY <1>6, <2>2, BelowBoth
  <2> QED
    BY <2>1, <2>2, <2>3, FitsAbove
<1> QED
  BY <1>3, <1>4, <1>5, <1>6

-----------------------------------------------------------------------------
\* The call stays what it is, and with it what the path selects.
LEMMA SameKeys ==
  ASSUME input' = input
  PROVE  /\ X!Keys' = X!Keys /\ (X!Selects' <=> X!Selects) /\ (PathFinds' <=> PathFinds)
         /\ \A a, n : X!Above(a, n)' = X!Above(a, n)
  BY DEF X!Keys, X!Above, X!Selects, PathFinds

LEMMA SameFits ==
  ASSUME input' = input
  PROVE  /\ \A a : X!Fits(a)' <=> X!Fits(a)
         /\ \A a : X!Under(a)' <=> X!Under(a)
         /\ \A a : AtTheEnd(a)' <=> AtTheEnd(a)
<1>1. \A a : X!Fits(a)' <=> X!Fits(a)
  BY SameKeys DEF X!Fits
<1> QED
  BY <1>1, SameKeys DEF X!Under, AtTheEnd

LEMMA SameReaches ==
  ASSUME input' = input
  PROVE  /\ \A a : X!Emptied(a)' <=> X!Emptied(a)
         /\ \A a : X!DeepReaches(a)' <=> X!DeepReaches(a)
         /\ \A a : DroppedAt(a)' <=> DroppedAt(a)
<1>1. \A a : X!Emptied(a)' <=> X!Emptied(a)
  BY SameKeys, SameFits DEF X!Emptied
<1>2. \A a : X!FoundReaches(a)' <=> X!FoundReaches(a)
  BY SameKeys, SameFits DEF X!FoundReaches
<1>3. \A a : X!DeepReaches(a)' <=> X!DeepReaches(a)
  BY <1>2, SameKeys, SameFits DEF X!DeepReaches
<1>4. \A a : DroppedAt(a)' <=> DroppedAt(a)
  BY SameKeys, SameFits DEF DroppedAt
<1> QED
  BY <1>1, <1>3, <1>4

LEMMA HoldsThen ==
  ASSUME TransformInput, input' = input, TransformHolds(ret', calls', thrown')
  PROVE  TransformInv'
<1>1. TransformInput'
  BY DEF TransformInput
<1>2. \A c : Leads(c)' <=> Leads(c)
  BY SameKeys, SameFits, SameReaches DEF Leads
<1>3. \A a : ToChange(a)' <=> ToChange(a)
  BY SameFits, SameReaches DEF ToChange
<1>4. \A a : Changed(ret, a)' <=> Changed(ret', a)
  BY DEF Changed
<1>5. \A a : Allows(ret, a)' <=> Allows(ret', a)
  BY <1>4, SameKeys, SameFits, SameReaches DEF Allows, ShallowAllows, DeepAllows
<1>6. CallsHold(ret, calls)'
  BY <1>2, <1>4 DEF TransformHolds, CallsHold, TransformCall
<1>7. \A a : Waits(a, calls)' <=> Waits(a, calls')
  BY DEF Waits
<1>8. TransformHolds(ret, calls, thrown)'
  BY <1>3, <1>4, <1>5, <1>6, <1>7 DEF TransformHolds
<1> QED
  BY <1>1, <1>8 DEF TransformInv

\* A call goes on with others, below it and apart: what it does to the document
\* is below it, and all that is to be changed there has been, or waits.
LEMMA CallGoesOn ==
  ASSUME TransformInv, NEW c \in calls, NEW more, NEW document, X!Goes(c, more, document),
         more \subseteq TransformCall, \A m \in more : Leads(m) /\ X!Below(m.at, c.at),
         \A m, n \in more : X!Below(n.at, m.at) => m = n,
         DOMAIN document \subseteq DOMAIN input.value,
         \A b \in DOMAIN input.value : ~X!Below(b, c.at) =>
           /\ b \in DOMAIN document <=> b \in DOMAIN ret
           /\ b \in DOMAIN document => document[b] = ret[b],
         \A m \in more, b \in DOMAIN input.value : X!Below(b, m.at) => ~Changed(document, b),
         \A b \in DOMAIN input.value : X!Below(b, c.at) => Allows(document, b),
         \A b \in DOMAIN input.value : X!Below(b, c.at) /\ ToChange(b) => Changed(document, b) \/ Waits(b, more)
  PROVE  TransformInv'
<1> USE DEF TransformCall
<1>1. TransformInput /\ DOMAIN input.value \subseteq Seq(STRING)
  BY DocumentFacts DEF TransformInv
<1>2. /\ CallsHold(ret, calls) /\ DOMAIN ret \subseteq DOMAIN input.value
      /\ \A a \in DOMAIN input.value : Allows(ret, a)
      /\ ~thrown => \A a \in DOMAIN input.value : ToChange(a) => Changed(ret, a) \/ Waits(a, calls)
  BY DEF TransformInv, TransformHolds
<1>3. /\ \A d \in calls : d.at \in DOMAIN input.value /\ d.at \in Seq(STRING)
      /\ \A d \in more : d.at \in DOMAIN input.value /\ d.at \in Seq(STRING)
  BY <1>1, <1>2 DEF CallsHold
<1>4. ret' = document /\ calls' = (calls \ {c}) \cup more /\ input' = input /\ thrown' = thrown
  BY DEF X!Goes
<1>5. ASSUME NEW b \in DOMAIN input.value, ~X!Below(b, c.at)
      PROVE  (Changed(document, b) <=> Changed(ret, b)) /\ Allows(document, b)
  <2>1. b \in DOMAIN document <=> b \in DOMAIN ret
    BY <1>5
  <2>2. b \in DOMAIN document => document[b] = ret[b]
    BY <1>5
  <2>3. Changed(document, b) <=> Changed(ret, b)
    BY <2>1, <2>2 DEF Changed
  <2> QED
    BY <1>2, <2>1, <2>2, <2>3 DEF Allows, ShallowAllows, DeepAllows
<1>6. ASSUME NEW d \in calls, d # c, NEW b \in DOMAIN input.value, X!Below(b, d.at)
      PROVE  ~X!Below(b, c.at)
  <2> SUFFICES ASSUME X!Below(b, c.at) PROVE FALSE
    OBVIOUS
  <2>1. b \in Seq(STRING) /\ c.at \in Seq(STRING) /\ d.at \in Seq(STRING)
    BY <1>1, <1>3
  <2>2. Len(c.at) \in Nat /\ Len(d.at) \in Nat
    BY <2>1
  <2>3. X!Below(d.at, c.at) \/ X!Below(c.at, d.at)
    BY <1>6, <2>1, <2>2, BelowBoth
  <2> QED
    BY <1>2, <1>6, <2>3 DEF CallsHold
<1>7. \A d \in calls', b \in DOMAIN input.value : X!Below(b, d.at) => ~Changed(document, b)
  BY <1>2, <1>4, <1>5, <1>6 DEF CallsHold
<1>8. ASSUME NEW d \in calls', NEW e \in calls', X!Below(e.at, d.at)
      PROVE  d = e
  <2>1. CASE d \in calls /\ e \in calls
    BY <1>2, <1>8, <2>1 DEF CallsHold
  <2>2. CASE d \in more /\ e \in more
    BY <1>8, <2>2
  <2>3. CASE d \in calls /\ d # c /\ e \in more
    BY <1>3, <1>6, <1>8, <2>3
  <2>4. CASE d \in more /\ e \in calls /\ e # c
    <3>1. X!Below(d.at, c.at) /\ c.at \in Seq(STRING) /\ d.at \in Seq(STRING) /\ e.at \in Seq(STRING)
      BY <1>3, <2>4
    <3>2. X!Below(e.at, c.at)
      BY <1>8, <3>1, BelowBelow
    <3> QED
      BY <1>2, <2>4, <3>2 DEF CallsHold
  <2> QED
    BY <1>4, <1>8, <2>1, <2>2, <2>3, <2>4
<1>9. calls' \subseteq TransformCall /\ \A d \in calls' : Leads(d)
  BY <1>2, <1>4 DEF CallsHold
<1>10. CallsHold(document, calls')
  BY <1>7, <1>8, <1>9 DEF CallsHold
<1>11. \A a \in DOMAIN input.value : Allows(document, a)
  BY <1>5
<1>12. ASSUME ~thrown, NEW a \in DOMAIN input.value, ToChange(a)
       PROVE  Changed(document, a) \/ Waits(a, calls')
  <2>1. CASE X!Below(a, c.at)
    BY <1>4, <1>12, <2>1 DEF Waits
  <2>2. CASE ~X!Below(a, c.at)
    BY <1>2, <1>4, <1>5, <1>12, <2>2 DEF Waits
  <2> QED
    BY <2>1, <2>2
<1>13. TransformHolds(ret', calls', thrown')
  BY <1>4, <1>10, <1>11, <1>12 DEF TransformHolds
<1> QED
  BY <1>1, <1>4, <1>13, HoldsThen

LEMMA CallHas ==
  ASSUME TransformInv, NEW c \in calls
  PROVE  /\ TransformInput /\ X!Keys \in Seq(STRING) /\ Len(X!Keys) \in Nat
         /\ c.at \in DOMAIN input.value /\ c.at \in Seq(STRING) /\ Len(c.at) \in Nat
         /\ c.does \in {"path", "all", "dropped"} /\ Leads(c)
         /\ DOMAIN ret \subseteq DOMAIN input.value /\ DOMAIN input.value \subseteq Seq(STRING)
         /\ \A b \in DOMAIN input.value : X!Below(b, c.at) => b \in DOMAIN ret /\ ret[b] = input.value[b]
         /\ c.at \in DOMAIN ret /\ ret[c.at] = input.value[c.at]
         /\ X!Children(c.at) = {b \in DOMAIN input.value : Len(b) = Len(c.at) + 1 /\ X!Below(b, c.at)}
<1>1. TransformInput /\ CallsHold(ret, calls) /\ DOMAIN ret \subseteq DOMAIN input.value
  BY DEF TransformInv, TransformHolds
<1>2. X!Keys \in Seq(STRING) /\ Len(X!Keys) \in Nat /\ DOMAIN input.value \subseteq Seq(STRING)
  BY <1>1, DocumentFacts, KeyFacts
<1>3. /\ c \in TransformCall /\ Leads(c)
      /\ \A b \in DOMAIN input.value : X!Below(b, c.at) => b \in DOMAIN ret /\ ret[b] = input.value[b]
  BY <1>1 DEF CallsHold, Changed
<1>4. c.at \in DOMAIN input.value /\ c.does \in {"path", "all", "dropped"}
  BY <1>3 DEF TransformCall
<1>5. c.at \in Seq(STRING) /\ Len(c.at) \in Nat /\ X!Below(c.at, c.at)
  BY <1>2, <1>4, BelowSelf
<1>6. X!Children(c.at) = {b \in DOMAIN input.value : Len(b) = Len(c.at) + 1 /\ X!Below(b, c.at)}
  BY <1>1, <1>3 DEF X!Children
<1> QED
  BY <1>1, <1>2, <1>3, <1>4, <1>5, <1>6

LEMMA CallGoesDown ==
  ASSUME TransformInv, NEW c \in calls, NEW more, X!Goes(c, more, ret),
         more \subseteq TransformCall, \A m \in more : Leads(m) /\ X!Below(m.at, c.at),
         \A m, n \in more : X!Below(n.at, m.at) => m = n,
         \A b \in DOMAIN input.value : X!Below(b, c.at) /\ ToChange(b) => Waits(b, more)
  PROVE  TransformInv'
<1>1. /\ DOMAIN ret \subseteq DOMAIN input.value /\ CallsHold(ret, calls)
      /\ \A b \in DOMAIN input.value : Allows(ret, b)
  BY DEF TransformInv, TransformHolds
<1>2. \A m \in more, b \in DOMAIN input.value : X!Below(b, m.at) => ~Changed(ret, b)
  <2> SUFFICES ASSUME NEW m \in more, NEW b \in DOMAIN input.value, X!Below(b, m.at)
               PROVE  ~Changed(ret, b)
    OBVIOUS
  <2>1. m.at \in Seq(STRING) /\ c.at \in Seq(STRING) /\ b \in Seq(STRING)
    BY CallHas DEF TransformCall
  <2>2. X!Below(m.at, c.at)
    OBVIOUS
  <2>3. X!Below(b, c.at)
    BY <2>1, <2>2, BelowBelow
  <2> QED
    BY <1>1, <2>3 DEF CallsHold
<1> QED
  BY <1>1, <1>2, CallGoesOn

LEMMA CallGoesToChildren ==
  ASSUME TransformInv, NEW c \in calls, NEW A, NEW w \in {"path", "all", "dropped"},
         X!Goes(c, {[at |-> a, does |-> w] : a \in A}, ret),
         \A a \in A : a \in DOMAIN input.value /\ Len(a) = Len(c.at) + 1 /\ X!Below(a, c.at)
                      /\ Leads([at |-> a, does |-> w]),
         \A b \in DOMAIN input.value : X!Below(b, c.at) /\ ToChange(b) => b # c.at,
         \A k, b \in DOMAIN input.value :
           Len(k) = Len(c.at) + 1 /\ X!Below(k, c.at) /\ X!Below(b, k) /\ ToChange(b) => k \in A
  PROVE  TransformInv'
<1> DEFINE more == {[at |-> a, does |-> w] : a \in A}
<1>1. more \subseteq TransformCall /\ \A m \in more : m.at \in A /\ Leads(m) /\ X!Below(m.at, c.at)
  BY DEF TransformCall
<1>2. /\ TransformInput /\ DOMAIN input.value \subseteq Seq(STRING)
      /\ c.at \in DOMAIN input.value /\ Len(c.at) \in Nat
  BY CallHas
<1>3. ASSUME NEW m \in more, NEW n \in more, X!Below(n.at, m.at)
      PROVE  m = n
  <2>1. PICK a \in A : m = [at |-> a, does |-> w]
    OBVIOUS
  <2>2. PICK b \in A : n = [at |-> b, does |-> w]
    OBVIOUS
  <2>3. a \in Seq(STRING) /\ b \in Seq(STRING) /\ Len(a) = Len(b)
    BY <1>2
  <2>4. X!Below(b, a) /\ Len(b) <= Len(a)
    BY <1>3, <2>1, <2>2, <2>3
  <2>5. b = a
    BY <2>3, <2>4, BelowEqual
  <2> QED
    BY <2>1, <2>2, <2>5
<1>4. ASSUME NEW b \in DOMAIN input.value, X!Below(b, c.at), ToChange(b)
      PROVE  Waits(b, more)
  <2>1. b # c.at
    BY <1>4
  <2>2. PICK k \in DOMAIN input.value : X!Below(k, c.at) /\ Len(k) = Len(c.at) + 1 /\ X!Below(b, k)
    BY <1>2, <1>4, <2>1, ToChild
  <2>3. k \in A
    BY <1>4, <2>2
  <2>4. [at |-> k, does |-> w] \in more /\ [at |-> k, does |-> w].at = k
    BY <2>3
  <2> QED
    BY <2>2, <2>4 DEF Waits
<1> HIDE DEF more
<1>5. X!Goes(c, more, ret)
  BY DEF more
<1> QED
  BY <1>1, <1>3, <1>4, <1>5, CallGoesDown

LEMMA CallThrows == TransformInv /\ X!Throws => TransformInv'
<1> SUFFICES ASSUME TransformInv, X!Throws
             PROVE  TransformInv'
  OBVIOUS
<1>1. input' = input /\ ret' = ret /\ calls' = {} /\ thrown' = TRUE
  BY DEF X!Throws
<1>2. TransformHolds(ret, {}, TRUE)
  BY DEF TransformInv, TransformHolds, CallsHold
<1> QED
  BY <1>1, <1>2, HoldsThen DEF TransformInv

\* What the parent of a call has, once the path is not beyond it.
LEMMA ParentHas ==
  ASSUME TransformInv, NEW c \in calls, c.at # <<>>, input.deep \/ Len(c.at) <= Len(X!Keys)
  PROVE  /\ X!Parent(c.at) \in DOMAIN ret /\ ret[X!Parent(c.at)] = X!Above(c.at, Len(c.at) - 1)
         /\ X!Above(c.at, Len(c.at) - 1) \in X!Nodes
<1>1. /\ TransformInput /\ X!Keys \in Seq(STRING) /\ Len(X!Keys) \in Nat
      /\ c.at \in DOMAIN input.value /\ c.at \in Seq(STRING) /\ Len(c.at) \in Nat
      /\ DOMAIN input.value \subseteq Seq(STRING)
  BY CallHas
<1>2. Len(c.at) > 0
  BY <1>1
<1> DEFINE p == SubSeq(c.at, 1, Len(c.at) - 1)
<1>3. p \in DOMAIN input.value /\ input.value[p] \in X!Nodes
  BY <1>1, <1>2, DocumentFacts
<1>4. Len(c.at) - 1 \in 0 .. Len(c.at)
  BY <1>1, <1>2
<1>5. p \in Seq(STRING) /\ Len(p) = Len(c.at) - 1
  BY <1>1, <1>4, PrefixFacts
<1>6. X!Parent(c.at) = p /\ X!Above(c.at, Len(c.at) - 1) = input.value[p]
  BY DEF X!Parent, X!Above
<1> HIDE DEF p
<1>7. Allows(ret, p)
  BY <1>3 DEF TransformInv, TransformHolds
<1>8. p \in DOMAIN ret /\ ret[p] = input.value[p]
  <2>1. CASE input.deep
    BY <1>3, <1>7, <2>1 DEF Allows, DeepAllows, X!Leaves, X!Nodes
  <2>2. CASE ~input.deep
    <3>1. ~X!Under(p)
      BY <1>1, <1>2, <1>5, <2>2 DEF X!Under
    <3>2. ~X!Emptied(p)
      BY <1>3 DEF X!Emptied, X!Nodes
    <3> QED
      BY <1>7, <2>2, <3>1, <3>2 DEF Allows, ShallowAllows
  <2> QED
    BY <2>1, <2>2
<1> QED
  BY <1>3, <1>6, <1>8

-----------------------------------------------------------------------------
\* The turns of traverse().
LEMMA TraverseEndsKeeps ==
  ASSUME TransformInv, ~input.deep, NEW c \in calls, X!TraverseEnds(c)
  PROVE  TransformInv'
<1>1. /\ TransformInput /\ X!Keys \in Seq(STRING) /\ Len(X!Keys) \in Nat
      /\ c.at \in DOMAIN input.value /\ c.at \in Seq(STRING) /\ Len(c.at) \in Nat
      /\ Leads(c) /\ DOMAIN ret \subseteq DOMAIN input.value /\ DOMAIN input.value \subseteq Seq(STRING)
      /\ \A b \in DOMAIN input.value : X!Below(b, c.at) => b \in DOMAIN ret /\ ret[b] = input.value[b]
      /\ c.at \in DOMAIN ret /\ ret[c.at] = input.value[c.at]
  BY CallHas
<1>2. X!Fits(c.at) /\ (X!Selects => Len(c.at) < Len(X!Keys)) /\ Len(c.at) <= Len(X!Keys)
  BY <1>1 DEF Leads, X!Fits
<1>3. X!Goes(c, {}, X!NextDst(c.at)) /\ (Len(c.at) = Len(X!Keys) \/ ret[c.at] \in {"null", "falsy"})
  BY DEF X!TraverseEnds
<1>4. ASSUME NEW b \in DOMAIN input.value, X!Below(b, c.at), ToChange(b)
      PROVE  b = c.at /\ X!Emptied(c.at) /\ ~AtTheEnd(c.at)
  <2>1. X!Fits(b) /\ Len(b) <= Len(X!Keys) /\ b \in Seq(STRING)
    BY <1>1, <1>4 DEF ToChange, X!Emptied, AtTheEnd, X!Fits
  <2>2. b = c.at
    <3>1. CASE Len(c.at) = Len(X!Keys)
      BY <1>1, <1>4, <2>1, <3>1, BelowEqual
    <3>2. CASE ret[c.at] \in {"null", "falsy"}
      <4>1. input.value[c.at] \notin X!Nodes
        BY <1>1, <3>2 DEF X!Nodes
      <4> QED
        BY <1>1, <1>4, <4>1, OnlyNodesHold
    <3> QED
      BY <1>3, <3>1, <3>2
  <2>3. ~AtTheEnd(c.at)
    BY <1>1, <1>2 DEF AtTheEnd
  <2> QED
    BY <1>4, <2>2, <2>3 DEF ToChange
<1>5. CASE ret[c.at] = "null" /\ ret[X!Parent(c.at)] # "map"
  <2>1. X!NextDst(c.at) = [ret EXCEPT ![c.at] = X!Empty(c.at)]
    BY <1>5 DEF X!NextDst
  <2> DEFINE e == X!Empty(c.at)
             document == [ret EXCEPT ![c.at] = e]
  <2>2. e \in {"array", "object"}
    BY DEF X!Empty
  <2> HIDE DEF e
  <2>3. /\ DOMAIN document = DOMAIN ret /\ document[c.at] = e
        /\ \A b \in DOMAIN ret : b # c.at => document[b] = ret[b]
    BY <1>1
  <2>4. X!Goes(c, {}, document)
    BY <1>3, <2>1 DEF e
  <2> HIDE DEF document
  <2>5. input.value[c.at] = "null" /\ input.value[c.at] \notin X!Nodes
    BY <1>1, <1>5 DEF X!Nodes
  <2>6. c.at # <<>>
    BY <1>1, <2>5, DocumentFacts
  <2>7. X!Emptied(c.at)
    BY <1>1, <1>2, <1>5, <2>5, <2>6, ParentHas DEF X!Emptied
  <2>8. X!Below(c.at, c.at)
    BY <1>1, BelowSelf
  <2>9. ~AtTheEnd(c.at)
    BY <1>1, <1>2 DEF AtTheEnd
  <2>10. Allows(document, c.at) /\ Changed(document, c.at)
    BY <1>1, <2>2, <2>3, <2>5, <2>7, <2>9 DEF Allows, ShallowAllows, Changed
  <2>11. \A b \in DOMAIN input.value : X!Below(b, c.at) => b = c.at
    BY <1>1, <2>5, OnlyNodesHold
  <2>12. \A b \in DOMAIN input.value : ~X!Below(b, c.at) =>
           /\ b \in DOMAIN document <=> b \in DOMAIN ret
           /\ b \in DOMAIN document => document[b] = ret[b]
    BY <2>3, <2>8
  <2> QED
    BY <1>1, <2>3, <2>4, <2>10, <2>11, <2>12, CallGoesOn
<1>6. CASE ~(ret[c.at] = "null" /\ ret[X!Parent(c.at)] # "map")
  <2>1. X!Goes(c, {}, ret)
    BY <1>3, <1>6 DEF X!NextDst
  <2>2. ~X!Emptied(c.at)
    <3> SUFFICES ASSUME X!Emptied(c.at) PROVE FALSE
      OBVIOUS
    <3>1. c.at # <<>> /\ input.value[c.at] = "null" /\ X!Above(c.at, Len(c.at) - 1) # "map"
      BY DEF X!Emptied
    <3>2. ret[X!Parent(c.at)] # "map"
      BY <1>2, <3>1, ParentHas
    <3> QED
      BY <1>1, <1>6, <3>1, <3>2
  <2>3. \A b \in DOMAIN input.value : ~(X!Below(b, c.at) /\ ToChange(b))
    BY <1>4, <2>2
  <2> QED
    BY <2>1, <2>3, CallGoesDown
<1> QED
  BY <1>5, <1>6

LEMMA TraverseAllKeeps ==
  ASSUME TransformInv, ~input.deep, NEW c \in calls, X!TraverseAll(c)
  PROVE  TransformInv'
<1>1. /\ TransformInput /\ X!Keys \in Seq(STRING) /\ Len(X!Keys) \in Nat
      /\ c.at \in DOMAIN input.value /\ c.at \in Seq(STRING) /\ Len(c.at) \in Nat
      /\ Leads(c) /\ DOMAIN input.value \subseteq Seq(STRING)
      /\ ret[c.at] = input.value[c.at]
      /\ X!Children(c.at) = {b \in DOMAIN input.value : Len(b) = Len(c.at) + 1 /\ X!Below(b, c.at)}
  BY CallHas
<1>2. /\ Len(c.at) < Len(X!Keys) /\ ret[c.at] \notin {"null", "falsy"} /\ X!Keys[Len(c.at) + 1] = "*"
      /\ X!Goes(c, X!Follow(X!Children(c.at)), ret)
  BY DEF X!TraverseAll, X!Key
<1> DEFINE A == X!Children(c.at)
<1>3. X!Goes(c, {[at |-> a, does |-> "path"] : a \in A}, ret)
  BY <1>2 DEF X!Follow
<1>4. ASSUME NEW a \in A
      PROVE  /\ a \in DOMAIN input.value /\ Len(a) = Len(c.at) + 1 /\ X!Below(a, c.at)
             /\ Leads([at |-> a, does |-> "path"])
  <2>1. a \in DOMAIN input.value /\ Len(a) = Len(c.at) + 1 /\ X!Below(a, c.at) /\ a \in Seq(STRING)
    BY <1>1
  <2>2. X!Fits(c.at)
    BY <1>1 DEF Leads
  <2>3. X!Fits(a)
    <3>1. FitsNext(c.at, a)
      BY <1>2, <2>1 DEF FitsNext
    <3> QED
      BY <1>1, <1>2, <2>1, <2>2, <3>1, FitsChild
  <2>4. X!Selects => Len(a) < Len(X!Keys)
    BY <1>1, <1>2, <2>1 DEF X!Selects, X!LastKey
  <2> QED
    BY <2>1, <2>3, <2>4 DEF Leads
<1>5. \A k, b \in DOMAIN input.value :
        Len(k) = Len(c.at) + 1 /\ X!Below(k, c.at) /\ X!Below(b, k) /\ ToChange(b) => k \in A
  BY <1>1
<1>6. ~ToChange(c.at)
  BY <1>1, <1>2 DEF ToChange, X!Emptied, AtTheEnd
<1> HIDE DEF A
<1> QED
  BY <1>3, <1>4, <1>5, <1>6, CallGoesToChildren

\* Which child fits a key that is no "*".
LEMMA NextFits ==
  ASSUME TransformInv, NEW c \in calls, Len(c.at) < Len(X!Keys), X!Key(c) # "*", X!Fits(c.at)
  PROVE  /\ \A k \in DOMAIN input.value : Len(k) = Len(c.at) + 1 /\ X!Below(k, c.at) /\ X!Fits(k) =>
              k = Append(c.at, X!Key(c)) /\ (~input.deep => X!Has(c.at, X!Key(c)))
         /\ LET next == Append(c.at, X!Key(c)) IN
            next \in DOMAIN ret /\ (input.deep \/ X!Has(c.at, X!Key(c))) =>
              /\ next \in DOMAIN input.value /\ next \in Seq(STRING)
              /\ Len(next) = Len(c.at) + 1 /\ X!Below(next, c.at) /\ X!Fits(next)
<1>1. /\ TransformInput /\ X!Keys \in Seq(STRING) /\ Len(X!Keys) \in Nat
      /\ c.at \in DOMAIN input.value /\ c.at \in Seq(STRING) /\ Len(c.at) \in Nat
      /\ DOMAIN ret \subseteq DOMAIN input.value /\ DOMAIN input.value \subseteq Seq(STRING)
      /\ \A b \in DOMAIN input.value : X!Below(b, c.at) => b \in DOMAIN ret /\ ret[b] = input.value[b]
      /\ ret[c.at] = input.value[c.at]
  BY CallHas
<1> DEFINE key == X!Key(c)
           next == Append(c.at, key)
<1>2. key = X!Keys[Len(c.at) + 1] /\ key # "*" /\ key \in STRING
  BY <1>1 DEF X!Key
<1> HIDE DEF key
<1>3. next \in Seq(STRING) /\ Len(next) = Len(c.at) + 1 /\ next[Len(c.at) + 1] = key /\ X!Below(next, c.at)
  BY <1>1, <1>2, ChildFacts
<1>4. ASSUME NEW k \in DOMAIN input.value, Len(k) = Len(c.at) + 1, X!Below(k, c.at), X!Fits(k)
      PROVE  k = next /\ (~input.deep => X!Has(c.at, key))
  <2>1. k \in Seq(STRING) /\ FitsNext(c.at, k)
    BY <1>1, <1>4, FitsChild
  <2>2. k[Len(c.at) + 1] = key
    BY <1>2, <1>4, <2>1 DEF FitsNext
  <2>3. k = next
    BY <1>1, <1>4, <2>1, <2>2, ChildIs
  <2>4. ASSUME ~input.deep
        PROVE  ~(input.value[c.at] = "map" /\ key \in Indices)
    BY <1>2, <1>4, <2>1, <2>4 DEF FitsNext
  <2> QED
    BY <1>1, <1>4, <2>3, <2>4 DEF X!Has
<1>5. ASSUME next \in DOMAIN ret, input.deep \/ X!Has(c.at, key)
      PROVE  next \in DOMAIN input.value /\ X!Fits(next)
  <2>1. next \in DOMAIN input.value
    BY <1>1, <1>5
  <2>2. FitsNext(c.at, next)
    <3>1. ~input.deep => ~(input.value[c.at] = "map" /\ key \in Indices)
      BY <1>1, <1>5 DEF X!Has
    <3> QED
      BY <1>2, <1>3, <3>1 DEF FitsNext
  <2>3. Len(next) <= Len(X!Keys)
    BY <1>1, <1>3
  <2> QED
    BY <1>1, <1>3, <2>1, <2>2, <2>3, FitsChild
<1> QED
  BY <1>3, <1>4, <1>5 DEF key

LEMMA PutKeeps ==
  ASSUME TransformInv, ~input.deep, NEW c \in calls, NEW next \in DOMAIN input.value,
         X!Below(next, c.at), Len(next) = Len(c.at) + 1, X!Fits(next), Len(next) = Len(X!Keys),
         X!Keys[Len(X!Keys)] # "*", X!Goes(c, {}, X!Put(next))
  PROVE  TransformInv'
<1>1. /\ TransformInput /\ X!Keys \in Seq(STRING) /\ Len(X!Keys) \in Nat
      /\ c.at \in DOMAIN input.value /\ c.at \in Seq(STRING) /\ Len(c.at) \in Nat
      /\ DOMAIN ret \subseteq DOMAIN input.value /\ DOMAIN input.value \subseteq Seq(STRING)
      /\ \A b \in DOMAIN input.value : X!Below(b, c.at) => b \in DOMAIN ret /\ ret[b] = input.value[b]
      /\ next \in Seq(STRING) /\ X!Below(next, next)
  BY CallHas, BelowSelf
<1>2. AtTheEnd(next) /\ X!Under(next) /\ X!Selects
  BY <1>1, UnderFits DEF AtTheEnd, X!Selects, X!LastKey
<1> DEFINE document == X!Put(next)
<1>3. /\ \A b : b \in DOMAIN document <=>
           (b \in DOMAIN ret /\ ~X!Below(b, next)) \/ (~input.removes /\ b = next)
      /\ \A b \in DOMAIN document : document[b] = IF b = next THEN "done" ELSE ret[b]
  BY DEF X!Put
<1> HIDE DEF document
<1>4. DOMAIN document \subseteq DOMAIN input.value
  BY <1>1, <1>3
<1>5. \A b \in DOMAIN input.value : ~X!Below(b, c.at) =>
        /\ b \in DOMAIN document <=> b \in DOMAIN ret
        /\ b \in DOMAIN document => document[b] = ret[b]
  <2> SUFFICES ASSUME NEW b \in DOMAIN input.value, ~X!Below(b, c.at)
               PROVE  /\ b \in DOMAIN document <=> b \in DOMAIN ret
                      /\ b \in DOMAIN document => document[b] = ret[b]
    OBVIOUS
  <2>1. ~X!Below(b, next) /\ b # next
    BY <1>1, BelowBelow
  <2> QED
    BY <1>3, <2>1
<1>6. ASSUME NEW b \in DOMAIN input.value, X!Below(b, c.at)
      PROVE  Allows(document, b)
  <2>1. b \in DOMAIN ret /\ ret[b] = input.value[b] /\ b \in Seq(STRING)
    BY <1>1, <1>6
  <2>2. CASE ~X!Below(b, next)
    <3>1. b \in DOMAIN document /\ document[b] = input.value[b]
      BY <1>1, <1>3, <2>1, <2>2
    <3> QED
      BY <3>1 DEF Allows, ShallowAllows, Changed
  <2>3. CASE b = next
    <3>1. IF input.removes THEN b \notin DOMAIN document ELSE b \in DOMAIN document /\ document[b] = "done"
      BY <1>1, <1>3, <2>3
    <3> QED
      BY <1>2, <2>3, <3>1 DEF Allows, ShallowAllows
  <2>4. CASE X!Below(b, next) /\ b # next
    <3>1. X!Under(b)
      BY <1>1, <1>2, <2>1, <2>4, UnderFits
    <3>2. ~AtTheEnd(b)
      BY <1>1, <2>1, <2>4, BelowEqual DEF AtTheEnd
    <3> QED
      BY <1>2, <3>1, <3>2 DEF Allows, ShallowAllows
  <2> QED
    BY <2>2, <2>3, <2>4
<1>7. ASSUME NEW b \in DOMAIN input.value, X!Below(b, c.at), ToChange(b)
      PROVE  Changed(document, b)
  <2>1. X!Fits(b) /\ Len(b) <= Len(X!Keys) /\ b \in Seq(STRING) /\ Len(b) \in Nat
    BY <1>1, <1>7 DEF ToChange, X!Emptied, AtTheEnd, X!Fits
  <2>2. b = next
    <3>1. b # c.at
      <4> SUFFICES ASSUME b = c.at PROVE FALSE
        OBVIOUS
      <4>1. input.value[c.at] \in X!Nodes
        <5>1. next # c.at
          BY <1>1
        <5> QED
          BY <1>1, <5>1, ToChild
      <4>2. Len(c.at) < Len(X!Keys)
        BY <1>1
      <4> QED
        BY <1>1, <1>7, <4>1, <4>2 DEF ToChange, X!Emptied, AtTheEnd, X!Nodes
    <3>2. PICK k \in DOMAIN input.value : X!Below(k, c.at) /\ Len(k) = Len(c.at) + 1 /\ X!Below(b, k)
      BY <1>1, <1>7, <3>1, ToChild
    <3>3. b = k
      BY <1>1, <2>1, <3>2, BelowEqual
    <3>4. k \in Seq(STRING) /\ FitsNext(c.at, k) /\ FitsNext(c.at, next)
      BY <1>1, <2>1, <3>2, <3>3, FitsChild
    <3>5. k[Len(k)] = next[Len(next)]
      BY <1>1, <3>2, <3>4 DEF FitsNext
    <3>6. k = Append(c.at, k[Len(c.at) + 1]) /\ next = Append(c.at, next[Len(c.at) + 1])
      BY <1>1, <3>2, <3>4, ChildIs
    <3> QED
      BY <3>2, <3>3, <3>5, <3>6
  <2>3. input.value[next] # "done"
    BY <1>1, DocumentFacts DEF X!Leaves, X!Nodes
  <2>4. next \in DOMAIN document => document[next] = "done"
    BY <1>3
  <2> QED
    BY <2>2, <2>3, <2>4 DEF Changed
<1>8. X!Goes(c, {}, document)
  BY DEF document
<1> QED
  BY <1>4, <1>5, <1>6, <1>7, <1>8, CallGoesOn

LEMMA TraverseKeyKeeps ==
  ASSUME TransformInv, ~input.deep, NEW c \in calls, X!TraverseKey(c)
  PROVE  TransformInv'
<1>1. /\ TransformInput /\ X!Keys \in Seq(STRING) /\ Len(X!Keys) \in Nat
      /\ c.at \in DOMAIN input.value /\ c.at \in Seq(STRING) /\ Len(c.at) \in Nat
      /\ Leads(c) /\ DOMAIN ret \subseteq DOMAIN input.value /\ DOMAIN input.value \subseteq Seq(STRING)
      /\ ret[c.at] = input.value[c.at]
  BY CallHas
<1> DEFINE next == Append(c.at, X!Key(c))
<1>2. Len(c.at) < Len(X!Keys) /\ ret[c.at] \in X!Nodes /\ X!Key(c) # "*" /\ X!Fits(c.at)
  BY <1>1 DEF X!TraverseKey, Leads
<1>3. ~ToChange(c.at)
  BY <1>1, <1>2 DEF ToChange, X!Emptied, AtTheEnd, X!Nodes
<1>4. ASSUME NEW k \in DOMAIN input.value, NEW b \in DOMAIN input.value,
             Len(k) = Len(c.at) + 1, X!Below(k, c.at), X!Below(b, k), ToChange(b)
      PROVE  k = next /\ X!Has(c.at, X!Key(c))
  <2>1. X!Fits(b) /\ b \in Seq(STRING) /\ k \in Seq(STRING)
    BY <1>1, <1>4 DEF ToChange, X!Emptied, AtTheEnd
  <2>2. X!Fits(k)
    BY <1>1, <1>4, <2>1, FitsAbove
  <2> QED
    BY <1>2, <1>4, <2>2, NextFits
<1>5. CASE ~X!Has(c.at, X!Key(c))
  <2>1. X!Goes(c, {}, ret)
    BY <1>5 DEF X!TraverseKey
  <2> DEFINE A == {}
  <2>2. {[at |-> a, does |-> "path"] : a \in A} = {}
    OBVIOUS
  <2>3. X!Goes(c, {[at |-> a, does |-> "path"] : a \in A}, ret)
    BY <2>1, <2>2
  <2>4. \A a \in A : /\ a \in DOMAIN input.value /\ Len(a) = Len(c.at) + 1 /\ X!Below(a, c.at)
                     /\ Leads([at |-> a, does |-> "path"])
    OBVIOUS
  <2>5. \A k, b \in DOMAIN input.value :
          Len(k) = Len(c.at) + 1 /\ X!Below(k, c.at) /\ X!Below(b, k) /\ ToChange(b) => k \in A
    BY <1>4, <1>5
  <2> HIDE DEF next, A
  <2> QED
    BY <1>3, <2>3, <2>4, <2>5, CallGoesToChildren
<1>6. CASE X!Has(c.at, X!Key(c))
  <2>1. /\ next \in DOMAIN input.value /\ next \in Seq(STRING)
        /\ Len(next) = Len(c.at) + 1 /\ X!Below(next, c.at) /\ X!Fits(next)
    <3>1. next \in DOMAIN ret
      BY <1>6 DEF X!Has
    <3> QED
      BY <1>2, <1>6, <3>1, NextFits
  <2>2. CASE Len(next) = Len(X!Keys)
    <3>1. X!Goes(c, {}, X!Put(next))
      BY <1>6, <2>2 DEF X!TraverseKey
    <3>2. X!Keys[Len(X!Keys)] # "*"
      BY <1>2, <2>1, <2>2 DEF X!Key
    <3> HIDE DEF next
    <3> QED
      BY <2>1, <2>2, <3>1, <3>2, PutKeeps
  <2>3. CASE Len(next) # Len(X!Keys)
    <3>1. X!Goes(c, X!Follow({next}), ret)
      BY <1>6, <2>3 DEF X!TraverseKey
    <3> DEFINE A == {next}
    <3>2. X!Goes(c, {[at |-> a, does |-> "path"] : a \in A}, ret)
      BY <3>1 DEF X!Follow
    <3>3. Leads([at |-> next, does |-> "path"])
      BY <1>1, <1>2, <2>1, <2>3 DEF Leads
    <3> HIDE DEF next
    <3>4. \A a \in A : /\ a \in DOMAIN input.value /\ Len(a) = Len(c.at) + 1 /\ X!Below(a, c.at)
                       /\ Leads([at |-> a, does |-> "path"])
      BY <2>1, <3>3
    <3>5. \A k, b \in DOMAIN input.value :
            Len(k) = Len(c.at) + 1 /\ X!Below(k, c.at) /\ X!Below(b, k) /\ ToChange(b) => k \in A
      BY <1>4
    <3> HIDE DEF A
    <3> QED
      BY <1>3, <3>2, <3>4, <3>5, CallGoesToChildren
  <2> QED
    BY <2>2, <2>3
<1> QED
  BY <1>5, <1>6

-----------------------------------------------------------------------------
\* The calls of transformDeepByPaths().
LEMMA DeepStays ==
  ASSUME TransformInv, input.deep, NEW c \in calls, c.does = "path", Len(c.at) < Len(X!Keys)
  PROVE  /\ X!Fits(c.at) /\ Len(c.at) > 0 /\ ~ToChange(c.at)
         /\ \A k, b \in DOMAIN input.value : Len(k) = Len(c.at) + 1 /\ X!Below(k, c.at)
              /\ X!Below(b, k) /\ ToChange(b) => X!Fits(k)
<1>1. /\ TransformInput /\ X!Keys \in Seq(STRING) /\ Len(X!Keys) \in Nat
      /\ c.at \in DOMAIN input.value /\ c.at \in Seq(STRING) /\ Len(c.at) \in Nat
      /\ Leads(c) /\ DOMAIN input.value \subseteq Seq(STRING)
  BY CallHas
<1>2. X!Fits(c.at) /\ Len(c.at) > 0
  BY <1>1 DEF Leads
<1>3. ~ToChange(c.at)
  BY <1>1 DEF ToChange, X!DeepReaches, X!Under
<1>4. ASSUME NEW k \in DOMAIN input.value, NEW b \in DOMAIN input.value,
             Len(k) = Len(c.at) + 1, X!Below(k, c.at), X!Below(b, k), ToChange(b)
      PROVE  X!Fits(k)
  <2>1. X!Under(b) /\ b \in Seq(STRING) /\ k \in Seq(STRING)
    BY <1>1, <1>4 DEF ToChange, X!DeepReaches
  <2>2. Len(k) <= Len(X!Keys)
    BY <1>1, <1>4
  <2> QED
    BY <1>1, <1>4, <2>1, <2>2, UnderFits
<1> QED
  BY <1>2, <1>3, <1>4

LEMMA TransformAllKeeps ==
  ASSUME TransformInv, input.deep, NEW c \in calls, c.does = "path", X!TransformAll(c)
  PROVE  TransformInv'
<1>1. /\ TransformInput /\ X!Keys \in Seq(STRING) /\ Len(X!Keys) \in Nat
      /\ c.at \in DOMAIN input.value /\ c.at \in Seq(STRING) /\ Len(c.at) \in Nat
      /\ DOMAIN input.value \subseteq Seq(STRING) /\ ret[c.at] = input.value[c.at]
      /\ X!Children(c.at) = {b \in DOMAIN input.value : Len(b) = Len(c.at) + 1 /\ X!Below(b, c.at)}
  BY CallHas
<1>2. Len(c.at) < Len(X!Keys) /\ X!Keys[Len(c.at) + 1] = "*"
  BY DEF X!TransformAll, X!Key
<1>3. /\ X!Fits(c.at) /\ Len(c.at) > 0 /\ ~ToChange(c.at)
      /\ \A k, b \in DOMAIN input.value : Len(k) = Len(c.at) + 1 /\ X!Below(k, c.at)
           /\ X!Below(b, k) /\ ToChange(b) => X!Fits(k)
  BY <1>2, DeepStays
<1>4. CASE ret[c.at] = "null"
  BY <1>4, CallThrows DEF X!TransformAll
<1>5. CASE ret[c.at] # "null"
  <2> DEFINE A == {b \in X!Children(c.at) : ret[c.at] = "map" \/ X!LastKey(b) # "_id"}
  <2>1. X!Goes(c, {[at |-> a, does |-> "path"] : a \in A}, ret)
    BY <1>5 DEF X!TransformAll, X!Follow
  <2>2. ASSUME NEW a \in DOMAIN input.value, Len(a) = Len(c.at) + 1, X!Below(a, c.at)
        PROVE  a \in A <=> X!Fits(a)
    <3>1. a \in Seq(STRING) /\ X!LastKey(a) = a[Len(a)]
      BY <1>1, <2>2, ChildIs
    <3>2. FitsNext(c.at, a) <=> (input.value[c.at] = "map" \/ a[Len(a)] # "_id")
      BY <1>1, <1>2, <1>3, <2>2 DEF FitsNext
    <3>3. X!Fits(a) <=> FitsNext(c.at, a)
      BY <1>1, <1>2, <1>3, <2>2, <3>1, FitsChild
    <3> QED
      BY <1>1, <2>2, <3>1, <3>2, <3>3
  <2>3. A \subseteq X!Children(c.at)
    OBVIOUS
  <2> HIDE DEF A
  <2>4. ASSUME NEW a \in A
        PROVE  /\ a \in DOMAIN input.value /\ Len(a) = Len(c.at) + 1 /\ X!Below(a, c.at)
               /\ Leads([at |-> a, does |-> "path"])
    <3>1. a \in DOMAIN input.value /\ Len(a) = Len(c.at) + 1 /\ X!Below(a, c.at)
      BY <1>1, <2>3
    <3>2. X!Fits(a)
      BY <2>2, <3>1
    <3>3. Len(a) = Len(X!Keys) => PathFinds
      BY <1>1, <1>2, <3>1 DEF PathFinds, X!LastKey
    <3> QED
      BY <1>1, <1>3, <3>1, <3>2, <3>3 DEF Leads
  <2>5. \A k, b \in DOMAIN input.value :
          Len(k) = Len(c.at) + 1 /\ X!Below(k, c.at) /\ X!Below(b, k) /\ ToChange(b) => k \in A
    BY <1>3, <2>2
  <2> QED
    BY <1>3, <2>1, <2>4, <2>5, CallGoesToChildren
<1> QED
  BY <1>4, <1>5

LEMMA TransformLastKeeps ==
  ASSUME TransformInv, input.deep, NEW c \in calls, c.does = "path", X!TransformLast(c)
  PROVE  TransformInv'
<1>1. /\ TransformInput /\ X!Keys \in Seq(STRING) /\ Len(X!Keys) \in Nat
      /\ c.at \in DOMAIN input.value /\ c.at \in Seq(STRING) /\ Len(c.at) \in Nat
      /\ DOMAIN input.value \subseteq Seq(STRING)
      /\ \A b \in DOMAIN input.value : X!Below(b, c.at) => b \in DOMAIN ret /\ ret[b] = input.value[b]
  BY CallHas
<1>2. Len(c.at) + 1 = Len(X!Keys) /\ Len(c.at) < Len(X!Keys) /\ X!Key(c) # "*"
  BY <1>1 DEF X!TransformLast
<1>3. /\ X!Fits(c.at) /\ Len(c.at) > 0 /\ ~ToChange(c.at)
      /\ \A k, b \in DOMAIN input.value : Len(k) = Len(c.at) + 1 /\ X!Below(k, c.at)
           /\ X!Below(b, k) /\ ToChange(b) => X!Fits(k)
  BY <1>2, DeepStays
<1>4. CASE ret[c.at] = "null"
  BY <1>4, CallThrows DEF X!TransformLast
<1>5. CASE ret[c.at] # "null"
  <2> DEFINE next == Append(c.at, X!Key(c))
             A == {next} \cap DOMAIN ret
  <2>1. X!Goes(c, {[at |-> a, does |-> "all"] : a \in A}, ret)
    BY <1>5 DEF X!TransformLast
  <2>2. next \in DOMAIN ret => /\ next \in DOMAIN input.value /\ next \in Seq(STRING)
          /\ Len(next) = Len(c.at) + 1 /\ X!Below(next, c.at) /\ X!Fits(next)
    BY <1>2, <1>3, NextFits
  <2>3. \A k, b \in DOMAIN input.value :
          Len(k) = Len(c.at) + 1 /\ X!Below(k, c.at) /\ X!Below(b, k) /\ ToChange(b) => k \in A
    <3> SUFFICES ASSUME NEW k \in DOMAIN input.value, NEW b \in DOMAIN input.value,
                        Len(k) = Len(c.at) + 1, X!Below(k, c.at), X!Below(b, k), ToChange(b)
                 PROVE  k \in A
      OBVIOUS
    <3>1. k \in DOMAIN ret
      BY <1>1
    <3>2. k = next
      BY <1>2, <1>3, NextFits
    <3> QED
      BY <3>1, <3>2
  <2>4. \A a \in A : a = next /\ next \in DOMAIN ret
    OBVIOUS
  <2> HIDE DEF next, A
  <2>5. ASSUME next \in DOMAIN ret
        PROVE  Leads([at |-> next, does |-> "all"])
    <3>1. X!Under(next) /\ X!Keys # <<>> /\ Len(next) = Len(X!Keys) /\ Len(X!Keys) > 1
      BY <1>1, <1>2, <1>3, <2>2, <2>5, BelowSelf, UnderFits
    <3>2. ~(Len(X!Keys) = 1 \/ X!LastKey(X!Keys) = "*")
      BY <1>2, <3>1 DEF X!Key, X!LastKey
    <3>3. X!DeepReaches(next)
      BY <1>1, <3>1, <3>2 DEF X!DeepReaches
    <3> QED
      BY <3>3 DEF Leads
  <2>6. \A a \in A : /\ a \in DOMAIN input.value /\ Len(a) = Len(c.at) + 1 /\ X!Below(a, c.at)
                     /\ Leads([at |-> a, does |-> "all"])
    BY <2>2, <2>4, <2>5
  <2> QED
    BY <1>3, <2>1, <2>3, <2>6, CallGoesToChildren
<1> QED
  BY <1>4, <1>5

LEMMA TransformNextKeeps ==
  ASSUME TransformInv, input.deep, NEW c \in calls, c.does = "path", X!TransformNext(c)
  PROVE  TransformInv'
<1>1. /\ TransformInput /\ X!Keys \in Seq(STRING) /\ Len(X!Keys) \in Nat
      /\ c.at \in DOMAIN input.value /\ c.at \in Seq(STRING) /\ Len(c.at) \in Nat
      /\ \A b \in DOMAIN input.value : X!Below(b, c.at) => b \in DOMAIN ret /\ ret[b] = input.value[b]
  BY CallHas
<1>2. Len(c.at) + 1 < Len(X!Keys) /\ Len(c.at) < Len(X!Keys) /\ X!Key(c) # "*"
  BY <1>1 DEF X!TransformNext
<1>3. /\ X!Fits(c.at) /\ Len(c.at) > 0 /\ ~ToChange(c.at)
      /\ \A k, b \in DOMAIN input.value : Len(k) = Len(c.at) + 1 /\ X!Below(k, c.at)
           /\ X!Below(b, k) /\ ToChange(b) => X!Fits(k)
  BY <1>2, DeepStays
<1> DEFINE next == Append(c.at, X!Key(c))
           A == {next} \cap DOMAIN ret
<1>4. X!Goes(c, {[at |-> a, does |-> "path"] : a \in A}, ret)
  BY DEF X!TransformNext, X!Follow
<1>5. next \in DOMAIN ret => /\ next \in DOMAIN input.value /\ next \in Seq(STRING)
        /\ Len(next) = Len(c.at) + 1 /\ X!Below(next, c.at) /\ X!Fits(next)
  BY <1>2, <1>3, NextFits
<1>6. \A k, b \in DOMAIN input.value :
        Len(k) = Len(c.at) + 1 /\ X!Below(k, c.at) /\ X!Below(b, k) /\ ToChange(b) => k \in A
  <2> SUFFICES ASSUME NEW k \in DOMAIN input.value, NEW b \in DOMAIN input.value,
                      Len(k) = Len(c.at) + 1, X!Below(k, c.at), X!Below(b, k), ToChange(b)
               PROVE  k \in A
    OBVIOUS
  <2>1. k \in DOMAIN ret
    BY <1>1
  <2>2. k = next
    BY <1>2, <1>3, NextFits
  <2> QED
    BY <2>1, <2>2
<1>7. \A a \in A : a = next /\ next \in DOMAIN ret
  OBVIOUS
<1> HIDE DEF next, A
<1>8. next \in DOMAIN ret => Leads([at |-> next, does |-> "path"])
  BY <1>1, <1>2, <1>5 DEF Leads
<1>9. \A a \in A : /\ a \in DOMAIN input.value /\ Len(a) = Len(c.at) + 1 /\ X!Below(a, c.at)
                   /\ Leads([at |-> a, does |-> "path"])
  BY <1>5, <1>7, <1>8
<1> QED
  BY <1>3, <1>4, <1>6, <1>9, CallGoesToChildren

LEMMA TransformHereKeeps ==
  ASSUME TransformInv, input.deep, NEW c \in calls, c.does = "path", X!TransformHere(c)
  PROVE  TransformInv'
<1>1. /\ TransformInput /\ X!Keys \in Seq(STRING) /\ Len(X!Keys) \in Nat
      /\ c.at \in DOMAIN input.value /\ c.at \in Seq(STRING) /\ Len(c.at) \in Nat
      /\ Leads(c) /\ DOMAIN input.value \subseteq Seq(STRING) /\ ret[c.at] = input.value[c.at]
      /\ X!Below(c.at, c.at)
  BY CallHas, BelowSelf
<1>2. Len(c.at) = Len(X!Keys)
  BY DEF X!TransformHere
<1>3. X!Fits(c.at) /\ Len(c.at) > 0 /\ PathFinds /\ X!Under(c.at)
  BY <1>1, <1>2, UnderFits DEF Leads
<1>4. X!Keys # <<>> /\ c.at # <<>>
  BY <1>1, <1>2, <1>3
<1>5. ret[X!Parent(c.at)] = X!Above(c.at, Len(c.at) - 1)
  BY <1>4, ParentHas
<1>6. CASE ret[c.at] \in {"null", "falsy"}
  <2>1. X!Goes(c, {}, ret)
    BY <1>6 DEF X!TransformHere
  <2>2. ASSUME NEW b \in DOMAIN input.value, X!Below(b, c.at)
        PROVE  ~ToChange(b)
    <3>1. b = c.at
      BY <1>1, <1>6, <2>2, OnlyNodesHold DEF X!Nodes
    <3>2. ~X!FoundReaches(c.at) \/ input.value[c.at] = "null"
      BY <1>1, <1>2, <1>6 DEF X!FoundReaches
    <3> QED
      BY <1>3, <3>1, <3>2 DEF ToChange, X!DeepReaches, X!Leaves, PathFinds
  <2> QED
    BY <2>1, <2>2, CallGoesDown
<1>7. CASE ret[c.at] \notin {"null", "falsy"}
  <2> DEFINE does == IF ret[X!Parent(c.at)] = "map" THEN "dropped" ELSE "all"
             d == [at |-> c.at, does |-> does]
  <2>1. X!Goes(c, {d}, ret)
    BY <1>7 DEF X!TransformHere
  <2>2. does \in {"all", "dropped"} /\ (does = "dropped" <=> X!Above(c.at, Len(X!Keys) - 1) = "map")
    BY <1>2, <1>5
  <2> HIDE DEF does
  <2>3. d \in TransformCall /\ d.at = c.at /\ d.does = does
    BY <1>1, <2>2 DEF TransformCall
  <2> HIDE DEF d
  <2>4. \A i : i \notin Len(X!Keys) + 1 .. Len(c.at)
    BY <1>1, <1>2
  <2>5. \A n : n \notin Len(X!Keys) .. Len(c.at) - 1
    BY <1>1, <1>2
  <2>6. input.value[c.at] # "falsy"
    BY <1>1, <1>7
  <2>7. Leads(d)
    <3>1. CASE does = "all"
      <4>1. X!FoundReaches(c.at)
        BY <2>2, <2>6, <3>1 DEF X!FoundReaches
      <4>2. X!DeepReaches(c.at)
        BY <1>3, <1>4, <2>4, <4>1 DEF X!DeepReaches
      <4> QED
        BY <2>3, <3>1, <4>2 DEF Leads
    <3>2. CASE does = "dropped"
      <4>1. DroppedAt(c.at)
        BY <1>3, <1>4, <2>2, <2>4, <2>5, <2>6, <3>2 DEF DroppedAt
      <4> QED
        BY <2>3, <3>2, <4>1 DEF Leads
    <3> QED
      BY <2>2, <3>1, <3>2
  <2> DEFINE more == {d}
  <2>8. /\ more \subseteq TransformCall /\ \A m \in more : Leads(m) /\ X!Below(m.at, c.at)
        /\ \A m, n \in more : X!Below(n.at, m.at) => m = n
    BY <1>1, <2>3, <2>7
  <2>9. \A b \in DOMAIN input.value : X!Below(b, c.at) => Waits(b, more)
    BY <2>3 DEF Waits
  <2> HIDE DEF more
  <2>10. X!Goes(c, more, ret)
    BY <2>1 DEF more
  <2> QED
    BY <2>8, <2>9, <2>10, CallGoesDown
<1> QED
  BY <1>6, <1>7

\* baseRecursiveTransform(): where it is, so is what it takes of what is there.
LEMMA BaseIs ==
  ASSUME TransformInv, input.deep, NEW c \in calls, c.does # "path"
  PROVE  /\ X!Keys # <<>> /\ X!Under(c.at) /\ Len(X!Keys) <= Len(c.at)
         /\ \A i \in Len(X!Keys) + 1 .. Len(c.at) : c.at[i] = "_id" => X!Above(c.at, i - 1) # "object"
         /\ PathFinds => Len(c.at) > Len(X!Keys) \/ input.value[c.at] # "falsy"
         /\ c.does = "all" => X!DeepReaches(c.at)
         /\ c.does = "dropped" => DroppedAt(c.at)
<1>1. c.does \in {"all", "dropped"} /\ Leads(c)
  BY CallHas
<1>2. c.does = "all" => X!DeepReaches(c.at)
  BY <1>1 DEF Leads
<1>3. c.does = "dropped" => DroppedAt(c.at)
  BY <1>1 DEF Leads
<1> QED
  BY <1>1, <1>2, <1>3 DEF X!DeepReaches, DroppedAt, X!FoundReaches, PathFinds, X!Under

LEMMA BaseNodeKeeps ==
  ASSUME TransformInv, input.deep, NEW c \in calls, c.does # "path", X!BaseNode(c)
  PROVE  TransformInv'
<1>1. /\ TransformInput /\ X!Keys \in Seq(STRING) /\ Len(X!Keys) \in Nat
      /\ c.at \in DOMAIN input.value /\ c.at \in Seq(STRING) /\ Len(c.at) \in Nat
      /\ c.does \in {"path", "all", "dropped"}
      /\ DOMAIN input.value \subseteq Seq(STRING) /\ ret[c.at] = input.value[c.at]
      /\ X!Children(c.at) = {b \in DOMAIN input.value : Len(b) = Len(c.at) + 1 /\ X!Below(b, c.at)}
  BY CallHas
<1>2. /\ X!Keys # <<>> /\ X!Under(c.at) /\ Len(X!Keys) <= Len(c.at)
      /\ \A i \in Len(X!Keys) + 1 .. Len(c.at) : c.at[i] = "_id" => X!Above(c.at, i - 1) # "object"
      /\ c.does = "all" => X!DeepReaches(c.at)
      /\ c.does = "dropped" => DroppedAt(c.at)
  BY BaseIs
<1>3. ret[c.at] \in X!Nodes
  BY DEF X!BaseNode
<1> DEFINE does == IF ret[c.at] = "array" THEN c.does ELSE "all"
           A == {b \in X!Children(c.at) : ret[c.at] # "object" \/ X!LastKey(b) # "_id"}
<1>4. X!Goes(c, {[at |-> b, does |-> does] : b \in A}, ret)
  BY DEF X!BaseNode
<1>5. does \in {"all", "dropped"} /\ (does = "dropped" => c.does = "dropped" /\ input.value[c.at] = "array")
      /\ (does = "all" => c.does = "all" \/ input.value[c.at] \in {"object", "map"})
  BY <1>1, <1>3 DEF X!Nodes
<1>6. ASSUME NEW a \in DOMAIN input.value, Len(a) = Len(c.at) + 1, X!Below(a, c.at)
      PROVE  a \in A <=> (input.value[c.at] # "object" \/ a[Len(a)] # "_id")
  <2>1. a \in Seq(STRING) /\ X!LastKey(a) = a[Len(a)]
    BY <1>1, <1>6, ChildIs
  <2> QED
    BY <1>1, <1>6, <2>1
<1>7. A \subseteq X!Children(c.at)
  OBVIOUS
<1> HIDE DEF A, does
<1>8. ~ToChange(c.at)
  BY <1>1, <1>3 DEF ToChange, X!Leaves, X!Nodes
<1>9. ASSUME NEW k \in DOMAIN input.value, NEW b \in DOMAIN input.value,
             Len(k) = Len(c.at) + 1, X!Below(k, c.at), X!Below(b, k), ToChange(b)
      PROVE  k \in A
  <2>1. k \in Seq(STRING) /\ b \in Seq(STRING) /\ Len(k) <= Len(b) /\ b[Len(k)] = k[Len(k)]
    BY <1>1, <1>9 DEF X!Below
  <2>2. Len(k) \in Len(X!Keys) + 1 .. Len(b) /\ Len(k) - 1 = Len(c.at) /\ Len(c.at) \in 0 .. Len(k)
    BY <1>1, <1>2, <1>9, <2>1
  <2>3. X!Above(b, Len(k) - 1) = input.value[c.at]
    BY <1>1, <1>9, <2>1, <2>2, SameAbove, BelowBelow
  <2>4. b[Len(k)] = "_id" => X!Above(b, Len(k) - 1) # "object"
    BY <1>9, <2>2 DEF ToChange, X!DeepReaches
  <2> QED
    BY <1>6, <1>9, <2>1, <2>3, <2>4
<1>10. ASSUME NEW a \in A
       PROVE  /\ a \in DOMAIN input.value /\ Len(a) = Len(c.at) + 1 /\ X!Below(a, c.at)
              /\ Leads([at |-> a, does |-> does])
  <2>1. a \in DOMAIN input.value /\ Len(a) = Len(c.at) + 1 /\ X!Below(a, c.at) /\ a \in Seq(STRING)
    BY <1>1, <1>7
  <2>2. input.value[c.at] # "object" \/ a[Len(a)] # "_id"
    BY <1>6, <2>1
  <2>3. /\ \A n \in 0 .. Len(c.at) : X!Above(a, n) = X!Above(c.at, n)
        /\ X!Above(a, Len(c.at)) = input.value[c.at]
    BY <1>1, <2>1, SameAbove
  <2>4. X!Under(a)
    BY <1>1, <1>2, <2>1, UnderFits
  <2>5. \A i \in Len(X!Keys) + 1 .. Len(a) : a[i] = "_id" => X!Above(a, i - 1) # "object"
    <3> SUFFICES ASSUME NEW i \in Len(X!Keys) + 1 .. Len(a), a[i] = "_id"
                 PROVE  X!Above(a, i - 1) # "object"
      OBVIOUS
    <3>1. CASE i = Len(a)
      BY <1>1, <2>1, <2>2, <2>3, <3>1
    <3>2. CASE i # Len(a)
      <4>1. i \in Len(X!Keys) + 1 .. Len(c.at) /\ i - 1 \in 0 .. Len(c.at) /\ i \in DOMAIN c.at
        <5> DEFINE l == Len(c.at)
                   n == Len(X!Keys)
        <5>1. l \in Nat /\ n \in Nat /\ DOMAIN c.at = 1 .. l /\ i \in n + 1 .. l + 1 /\ i # l + 1
          BY <1>1, <2>1, <3>2
        <5> HIDE DEF l, n
        <5>2. i \in n + 1 .. l /\ i - 1 \in 0 .. l /\ i \in 1 .. l
          BY <5>1
        <5> QED
          BY <5>1, <5>2 DEF l, n
      <4>2. c.at[i] = "_id"
        BY <2>1, <4>1 DEF X!Below
      <4> QED
        BY <1>2, <2>3, <4>1, <4>2
    <3> QED
      BY <3>1, <3>2
  <2>6. Len(a) > Len(X!Keys) /\ Len(X!Keys) - 1 \in 0 .. Len(c.at)
    BY <1>1, <1>2, <2>1
  <2>7. CASE does = "all"
    <3>1. Len(X!Keys) = 1 \/ X!LastKey(X!Keys) = "*" => X!FoundReaches(a)
      <4>1. CASE input.value[c.at] \in {"object", "map"}
        <5>1. Len(c.at) \in Len(X!Keys) .. Len(a) - 1
          BY <1>1, <1>2, <2>1
        <5>2. \E n \in Len(X!Keys) .. Len(a) - 1 : X!Above(a, n) \in {"object", "map"}
          BY <2>3, <4>1, <5>1
        <5> QED
          BY <2>6, <5>2 DEF X!FoundReaches
      <4>2. CASE c.does = "all"
        <5> SUFFICES ASSUME PathFinds
                     PROVE  X!FoundReaches(a)
          BY DEF PathFinds
        <5>1. X!FoundReaches(c.at)
          BY <1>2, <4>2 DEF X!DeepReaches, PathFinds
        <5>2. CASE X!Above(c.at, Len(X!Keys) - 1) # "map"
          BY <2>3, <2>6, <5>2 DEF X!FoundReaches
        <5>3. CASE \E n \in Len(X!Keys) .. Len(c.at) - 1 : X!Above(c.at, n) \in {"object", "map"}
          <6>1. PICK n \in Len(X!Keys) .. Len(c.at) - 1 : X!Above(c.at, n) \in {"object", "map"}
            BY <5>3
          <6>2. n \in Len(X!Keys) .. Len(a) - 1 /\ n \in 0 .. Len(c.at)
            BY <1>1, <2>1
          <6>3. \E m \in Len(X!Keys) .. Len(a) - 1 : X!Above(a, m) \in {"object", "map"}
            BY <2>3, <6>1, <6>2
          <6> QED
            BY <2>6, <6>3 DEF X!FoundReaches
        <5> QED
          BY <5>1, <5>2, <5>3 DEF X!FoundReaches
      <4> QED
        BY <1>5, <2>7, <4>1, <4>2
    <3>2. X!DeepReaches(a)
      BY <1>2, <2>4, <2>5, <3>1 DEF X!DeepReaches
    <3> QED
      BY <2>1, <2>7, <3>2 DEF Leads
  <2>8. CASE does = "dropped"
    <3>1. DroppedAt(c.at) /\ input.value[c.at] = "array"
      BY <1>2, <1>5, <2>8
    <3>2. \A n \in Len(X!Keys) .. Len(a) - 1 : X!Above(a, n) = "array"
      <4> SUFFICES ASSUME NEW n \in Len(X!Keys) .. Len(a) - 1
                   PROVE  X!Above(a, n) = "array"
        OBVIOUS
      <4>1. CASE n = Len(c.at)
        BY <2>3, <3>1, <4>1
      <4>2. CASE n # Len(c.at)
        <5>1. n \in Len(X!Keys) .. Len(c.at) - 1 /\ n \in 0 .. Len(c.at)
          BY <1>1, <2>1, <4>2
        <5> QED
          BY <2>3, <3>1, <5>1 DEF DroppedAt
      <4> QED
        BY <4>1, <4>2
    <3>3. PathFinds /\ X!Above(a, Len(X!Keys) - 1) = "map"
      BY <2>3, <2>6, <3>1 DEF DroppedAt
    <3>4. DroppedAt(a)
      BY <1>2, <2>4, <2>5, <2>6, <3>2, <3>3 DEF DroppedAt
    <3> QED
      BY <2>1, <2>8, <3>4 DEF Leads
  <2> QED
    BY <1>5, <2>1, <2>7, <2>8
<1>11. does \in {"path", "all", "dropped"}
  BY <1>5
<1> QED
  BY <1>4, <1>8, <1>9, <1>10, <1>11, CallGoesToChildren

LEMMA BaseValueKeeps ==
  ASSUME TransformInv, input.deep, NEW c \in calls, c.does # "path", X!BaseValue(c)
  PROVE  TransformInv'
<1>1. /\ TransformInput /\ X!Keys \in Seq(STRING) /\ Len(X!Keys) \in Nat
      /\ c.at \in DOMAIN input.value /\ c.at \in Seq(STRING) /\ c.at \in DOMAIN ret
      /\ c.does \in {"path", "all", "dropped"} /\ DOMAIN ret \subseteq DOMAIN input.value
      /\ ret[c.at] = input.value[c.at] /\ X!Below(c.at, c.at)
  BY CallHas, BelowSelf
<1>2. ret[c.at] \notin X!Nodes
  BY DEF X!BaseValue
<1>3. \A b \in DOMAIN input.value : X!Below(b, c.at) => b = c.at
  BY <1>1, <1>2, OnlyNodesHold
<1>4. CASE ret[c.at] = "null" \/ c.does = "dropped"
  <2>1. X!Goes(c, {}, ret)
    BY <1>4 DEF X!BaseValue
  <2>2. ~ToChange(c.at)
    <3>1. CASE ret[c.at] = "null"
      BY <1>1, <3>1 DEF ToChange, X!Leaves
    <3>2. CASE c.does = "dropped"
      <4>1. DroppedAt(c.at)
        BY <3>2, BaseIs
      <4>2. ~X!FoundReaches(c.at)
        BY <4>1 DEF DroppedAt, X!FoundReaches
      <4> QED
        BY <4>1, <4>2 DEF ToChange, X!DeepReaches, DroppedAt, PathFinds
    <3> QED
      BY <1>4, <3>1, <3>2
  <2> QED
    BY <1>3, <2>1, <2>2, CallGoesDown
<1>5. CASE ~(ret[c.at] = "null" \/ c.does = "dropped")
  <2> DEFINE document == [ret EXCEPT ![c.at] = "done"]
  <2>1. X!Goes(c, {}, document)
    BY <1>5 DEF X!BaseValue
  <2>2. /\ DOMAIN document = DOMAIN ret /\ document[c.at] = "done"
        /\ \A b \in DOMAIN ret : b # c.at => document[b] = ret[b]
    BY <1>1
  <2> HIDE DEF document
  <2>3. input.value[c.at] \in X!Leaves /\ input.value[c.at] # "done"
    BY <1>1, <1>2, <1>5, DocumentFacts DEF X!Leaves
  <2>4. X!DeepReaches(c.at)
    BY <1>1, <1>5, BaseIs
  <2>5. Allows(document, c.at) /\ Changed(document, c.at)
    BY <1>1, <2>2, <2>3, <2>4 DEF Allows, DeepAllows, Changed
  <2>6. \A b \in DOMAIN input.value : ~X!Below(b, c.at) =>
          /\ b \in DOMAIN document <=> b \in DOMAIN ret
          /\ b \in DOMAIN document => document[b] = ret[b]
    BY <1>1, <2>2
  <2> QED
    BY <1>1, <1>3, <2>1, <2>2, <2>5, <2>6, CallGoesOn
<1> QED
  BY <1>4, <1>5

-----------------------------------------------------------------------------
LEMMA TransformInitInv == X!TransformsInit => TransformInv
<1> SUFFICES ASSUME X!TransformsInit
             PROVE  TransformInv
  OBVIOUS
<1>1. /\ TransformInput /\ ret = input.value /\ thrown = FALSE
      /\ calls = X!Follow(IF input.deep THEN {<<X!Keys[i]>> : i \in DOMAIN X!Keys \cap {1}} \cap DOMAIN ret ELSE {<<>>})
  BY DEF X!TransformsInit, TransformInput
<1>2. /\ X!Keys \in Seq(STRING) /\ Len(X!Keys) \in Nat /\ DOMAIN X!Keys = 1 .. Len(X!Keys)
      /\ DOMAIN input.value \subseteq Seq(STRING) /\ <<>> \in DOMAIN input.value
  BY <1>1, DocumentFacts, KeyFacts
<1>3. \A b : b \in DOMAIN input.value => ~Changed(ret, b)
  BY <1>1 DEF Changed
<1>4. \A a \in DOMAIN input.value : Allows(ret, a)
  BY <1>1, <1>3 DEF Allows, ShallowAllows, DeepAllows
<1>5. CASE ~input.deep
  <2> DEFINE c == [at |-> <<>>, does |-> "path"]
  <2>1. calls = {c}
    BY <1>1, <1>5 DEF X!Follow
  <2>2. c \in TransformCall /\ c.at = <<>> /\ c.does = "path"
    BY <1>2 DEF TransformCall
  <2> HIDE DEF c
  <2>3. X!Fits(<<>>)
    BY <1>2 DEF X!Fits
  <2>4. X!Selects => 0 < Len(X!Keys)
    BY <1>2 DEF X!Selects
  <2>5. Leads(c)
    BY <1>5, <2>2, <2>3, <2>4 DEF Leads
  <2>6. CallsHold(ret, calls)
    BY <1>3, <2>1, <2>2, <2>5 DEF CallsHold
  <2>7. \A a \in DOMAIN input.value : X!Below(a, <<>>)
    BY <1>2 DEF X!Below
  <2>8. \A a \in DOMAIN input.value : Waits(a, calls)
    BY <2>1, <2>2, <2>7 DEF Waits
  <2> QED
    BY <1>1, <1>4, <2>6, <2>8 DEF TransformInv, TransformHolds
<1>6. CASE input.deep
  <2> DEFINE first == <<X!Keys[1]>>
             c == [at |-> first, does |-> "path"]
  <2>1. c.at = first /\ c.does = "path"
    OBVIOUS
  <2>2. /\ calls \subseteq {c} /\ (c \in calls <=> X!Keys # <<>> /\ first \in DOMAIN input.value)
    <3>1. CASE X!Keys = <<>>
      BY <1>1, <1>2, <1>6, <3>1 DEF X!Follow
    <3>2. CASE X!Keys # <<>>
      <4>1. DOMAIN X!Keys \cap {1} = {1}
        BY <1>2, <3>2
      <4>2. {<<X!Keys[i]>> : i \in {1}} = {first}
        OBVIOUS
      <4>3. calls = X!Follow({first} \cap DOMAIN input.value)
        BY <1>1, <1>6, <4>1, <4>2
      <4> QED
        BY <3>2, <4>3 DEF X!Follow
    <3> QED
      BY <3>1, <3>2
  <2>3. ASSUME X!Keys # <<>>
        PROVE  first \in Seq(STRING) /\ Len(first) = 1 /\ first[1] = X!Keys[1] /\ Len(X!Keys) > 0
    BY <1>2, <2>3
  <2>4. c \in calls => c \in TransformCall
    BY <2>2 DEF TransformCall
  <2> HIDE DEF c
  <2> HIDE DEF first
  <2>5. ASSUME c \in calls
        PROVE  Leads(c)
    <3>1. Len(first) = 1 /\ DOMAIN first = {1} /\ first[1] = X!Keys[1] /\ Len(X!Keys) > 0
      BY <2>2, <2>3, <2>5
    <3>2. X!Fits(first)
      BY <1>2, <1>6, <3>1 DEF X!Fits
    <3> QED
      BY <1>6, <2>1, <3>1, <3>2 DEF Leads, PathFinds
  <2>6. CallsHold(ret, calls)
    BY <1>3, <2>2, <2>4, <2>5 DEF CallsHold
  <2>7. ASSUME NEW a \in DOMAIN input.value, ToChange(a)
        PROVE  Waits(a, calls)
    <3>1. X!Keys # <<>> /\ X!Under(a) /\ a \in Seq(STRING)
      BY <1>2, <1>6, <2>7 DEF ToChange, X!DeepReaches
    <3>2. Len(a) \in Nat /\ Len(a) >= 1 /\ Len(X!Keys) >= 1 /\ 1 \in 0 .. Len(a)
      BY <1>2, <2>3, <3>1 DEF X!Under
    <3> DEFINE k == SubSeq(a, 1, 1)
    <3>3. k \in Seq(STRING) /\ Len(k) = 1 /\ X!Below(a, k)
      BY <3>1, <3>2, PrefixFacts
    <3>4. k \in DOMAIN input.value
      <4>1. CASE Len(a) = 1
        BY <3>1, <4>1, SubSeqFull
      <4>2. CASE Len(a) # 1
        <5> DEFINE l == Len(a)
        <5>1. l \in Nat /\ l >= 1 /\ l # 1
          BY <3>2, <4>2
        <5> HIDE DEF l
        <5>2. 1 \in 0 .. l - 1
          BY <5>1
        <5> QED
          BY <1>1, <5>2, DocumentFacts DEF l
      <4> QED
        BY <4>1, <4>2
    <3> HIDE DEF k
    <3>5. X!Fits(k)
      BY <1>2, <3>1, <3>2, <3>3, UnderFits
    <3>6. k[1] = X!Keys[1]
      <4>1. 1 \in DOMAIN k
        BY <3>3
      <4> QED
        BY <1>6, <3>5, <4>1 DEF X!Fits
    <3>7. k = first
      BY <2>3, <3>1, <3>3, <3>6, SeqEqual
    <3>8. c \in calls
      BY <2>2, <3>1, <3>4, <3>7
    <3> QED
      BY <2>1, <3>3, <3>7, <3>8 DEF Waits
  <2> QED
    BY <1>1, <1>4, <2>6, <2>7 DEF TransformInv, TransformHolds
<1> QED
  BY <1>5, <1>6

LEMMA TransformNextKeepsInv == TransformInv /\ X!TransformsNext => TransformInv'
<1> SUFFICES ASSUME TransformInv, NEW c \in calls, X!TransformShallowByPaths(c) \/ X!TransformDeepByPaths(c)
             PROVE  TransformInv'
  BY DEF X!TransformsNext
<1>1. CASE X!TransformShallowByPaths(c)
  BY <1>1, TraverseEndsKeeps, TraverseAllKeeps, TraverseKeyKeeps, CallThrows
     DEF X!TransformShallowByPaths, X!TraverseLeaf
<1>2. CASE X!TransformDeepByPaths(c)
  BY <1>2, TransformAllKeeps, TransformLastKeeps, TransformHereKeeps, TransformNextKeeps,
     BaseNodeKeeps, BaseValueKeeps DEF X!TransformDeepByPaths
<1> QED
  BY <1>1, <1>2

LEMMA TransformStays == TransformInv /\ UNCHANGED transformVars => TransformInv'
<1> SUFFICES ASSUME TransformInv, UNCHANGED transformVars
             PROVE  TransformInv'
  OBVIOUS
<1>1. input' = input /\ ret' = ret /\ calls' = calls /\ thrown' = thrown
  BY DEF transformVars
<1> QED
  BY <1>1, HoldsThen DEF TransformInv

\* With every call over, what has not failed has changed all that was to be.
LEMMA TransformIsExact == TransformInv => X!TransformsAreExact
<1> SUFFICES ASSUME TransformInv
             PROVE  X!TransformsAreExact
  OBVIOUS
<1>1. /\ TransformInput /\ DOMAIN ret \subseteq DOMAIN input.value
      /\ \A a \in DOMAIN input.value : Allows(ret, a)
      /\ ~thrown => \A a \in DOMAIN input.value : ToChange(a) => Changed(ret, a) \/ Waits(a, calls)
  BY DEF TransformInv, TransformHolds
<1>2. ASSUME calls = {}, ~thrown, NEW a \in DOMAIN input.value, ToChange(a)
      PROVE  Changed(ret, a)
  BY <1>1, <1>2 DEF Waits
<1>3. X!Keys \in Seq(STRING) /\ Len(X!Keys) \in Nat
  BY <1>1, KeyFacts
<1>4. X!ShallowIsExact
  <2> SUFFICES ASSUME ~input.deep
               PROVE  X!ShallowIsExact
    BY DEF X!ShallowIsExact
  <2>1. \A a \in DOMAIN input.value : ShallowAllows(ret, a)
    BY <1>1 DEF Allows
  <2>2. ASSUME NEW a \in DOMAIN input.value, X!Emptied(a), calls = {}, ~thrown
        PROVE  ret[a] # "null"
    <3>1. ~(X!Selects /\ X!Under(a))
      BY <1>3, <2>2 DEF X!Emptied, X!Under, X!Fits
    <3>2. a \in DOMAIN ret
      BY <2>1, <3>1 DEF ShallowAllows
    <3>3. Changed(ret, a)
      BY <1>2, <2>2 DEF ToChange
    <3> QED
      BY <2>2, <3>2, <3>3 DEF Changed, X!Emptied
  <2>3. ASSUME NEW a \in DOMAIN input.value, AtTheEnd(a), calls = {}, ~thrown
        PROVE  IF input.removes THEN a \notin DOMAIN ret ELSE ret[a] = "done"
    <3>1. Changed(ret, a)
      BY <1>2, <2>3 DEF ToChange
    <3> QED
      BY <2>1, <2>3, <3>1 DEF ShallowAllows, Changed
  <2> QED
    BY <1>1, <2>1, <2>2, <2>3 DEF X!ShallowIsExact, ShallowAllows, AtTheEnd
<1>5. X!DeepIsExact
  <2> SUFFICES ASSUME input.deep
               PROVE  X!DeepIsExact
    BY DEF X!DeepIsExact
  <2>1. \A a \in DOMAIN input.value : DeepAllows(ret, a)
    BY <1>1 DEF Allows
  <2>2. ASSUME NEW a \in DOMAIN input.value, input.value[a] \in X!Leaves, X!DeepReaches(a), calls = {}, ~thrown
        PROVE  ret[a] = "done"
    <3>1. Changed(ret, a)
      BY <1>2, <2>2 DEF ToChange
    <3> QED
      BY <2>1, <3>1 DEF DeepAllows, Changed
  <2> QED
    BY <1>1, <2>1, <2>2 DEF X!DeepIsExact, DeepAllows
<1> QED
  BY <1>4, <1>5 DEF X!TransformsAreExact

LEMMA InTransformsHolds == PartsSpec => []InTransforms
<1>1. PartsInit => InTransforms
  BY TransformInitInv DEF PartsInit, InTransforms
<1>2. ASSUME InTransforms, [PartsNext]_partsVars
      PROVE  InTransforms'
  <2> SUFFICES ASSUME part' = "transforms"
               PROVE  TransformInv'
    BY DEF InTransforms
  <2>1. part' = part
    BY <1>2 DEF PartsNext, partsVars
  <2>2. TransformInv
    BY <1>2, <2>1 DEF InTransforms
  <2>3. CASE X!TransformsNext
    BY <2>2, <2>3, TransformNextKeepsInv
  <2>4. CASE UNCHANGED transformVars
    BY <2>2, <2>4, TransformStays
  <2> QED
    BY <1>2, <2>1, <2>3, <2>4 DEF PartsNext, partsVars
<1> QED
  BY <1>1, <1>2, PTL DEF PartsSpec

\* transformShallowByPaths() and transformDeepByPaths() change exactly what
\* their path selects in any document, whatever step they are at: nothing else,
\* and all of it once they have ended without an error.
THEOREM TransformsChangeWhatIsSelected == PartsSpec => []TransformsAreExact
<1>1. InTransforms => TransformsAreExact
  BY TransformIsExact DEF InTransforms, TransformsAreExact
<1> QED
  BY <1>1, InTransformsHolds, PTL
=============================================================================
