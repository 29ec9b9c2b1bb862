----------------------------- MODULE Documents -----------------------------
(***************************************************************************)
(* Documents of a model with one encrypted field and triggers, through the *)
(* hooks and statics that protect, dispatch and rotate it: data-protection *)
(* and trigger middleware, upsertById()/upsertManyById(), the seeder that  *)
(* rotates keys and the check an operator removes the old key after.       *)
(*                                                                         *)
(* Version v1 of the protection is being rolled out over v0: clients are   *)
(* restarted with it one by one, and one of them rotates the collection.   *)
(***************************************************************************)
EXTENDS Protection, FiniteSets

CONSTANTS
    Docs, Clients, Plains,
    Modes,      \* how rotation and check read: "cursor", "find", "batch"
    BatchSize,  \* options.batchSize
    Retries,    \* MAX_BULK_WRITE_RETRIES
    RetrySaves, \* whether the application saves a document again after a failure
    MaxOps,     \* bound: calls of the application
    MaxFaults   \* bound: writes that fail

\* What the texts of this field are; Nothing is none of them.
Versions == {"v0", "v1"}
Labels == Versions \cup {"none", "other"}
Seals == [by : {"encrypt"}, key : {"symmetric"} \X Versions, under : Labels]
Texts == [plain : Plains, seals : Seq(Seals), label : Labels]

ASSUME DocumentConstants ==
    /\ IsFiniteSet(Docs) /\ Plains # {} /\ Nothing \notin Texts
    /\ WithColon \subseteq Plains /\ Modes \subseteq {"cursor", "find", "batch"}
    /\ RetrySaves \in BOOLEAN
    /\ {BatchSize, Retries, MaxOps, MaxFaults} \subseteq Nat

VARIABLES
    db,         \* db[d]: the field as it is stored, Nothing without the document
    deployed,   \* deployed[c]: the activeVersion of the process of the client
    env,        \* the keys in the environment of every process
    client,     \* client[c]: the call it is in
    rotation,   \* the run of seedRotateProtectionKeys()
    status,     \* the run of checkProtectionRotationStatus()
    leaks,      \* the calls that handed a trigger a value that is not plain
    raw,        \* documents whose field was last written without data policies
    spent       \* how much of MaxOps and MaxFaults is spent

vars == <<db, deployed, env, client, rotation, status, leaks, raw, spent>>

Policy(version) ==
    [activeVersion |-> version,
     versionConfigs |-> [v \in {"default"} |-> [strategy |-> "encrypt", type |-> "symmetric"]]]

Key(version) == <<"DATA_AES_KEY", version>>

\* What a client stores and what it reads.
Setter(c, t) == Protect(Policy(deployed[c]), t, env)
Getter(t) == Unprotect(Policy("v1"), t, env)

\* dispatchAll() hands the triggers a value during a call.
Dispatch(op, t) ==
    leaks' = IF t = Nothing \/ IsPlain(t) THEN leaks ELSE leaks \cup {op}

Idle == [pc |-> "idle", doc |-> Nothing, value |-> Nothing, snapshot |-> Nothing,
         isNew |-> FALSE, modified |-> FALSE]

NoRotation == [pc |-> "none", unread |-> {}, limit |-> 0, read |-> [d \in {} |-> Nothing],
               todo |-> {}, failed |-> {}, attempt |-> 0, dirty |-> {}, written |-> {}]

NoStatus == [pc |-> "none", batch |-> FALSE, unread |-> {}, outdated |-> 0]

\* Bound: the documents there are at first have one value.
Init ==
    /\ \E ds \in SUBSET Docs : LET p == CHOOSE p \in Plains : TRUE IN
         db = [d \in Docs |-> IF d \in ds THEN Protect(Policy("v0"), PlainText(p), {Key("v0")})
                              ELSE Nothing]
    /\ deployed = [c \in Clients |-> "v0"]
    /\ env = {Key("v0"), Key("v1")}
    /\ client = [c \in Clients |-> Idle]
    /\ rotation = NoRotation
    /\ status = NoStatus
    /\ leaks = {} /\ raw = {}
    /\ spent = [ops |-> 0, faults |-> 0]

\* A client starts a call; a write of one makes what the rotation read stale.
Call(c, call) ==
    /\ client[c].pc = "idle" /\ spent.ops < MaxOps
    /\ spent' = [spent EXCEPT !.ops = @ + 1]
    /\ client' = [client EXCEPT ![c] = call]

Store(d, t, withPolicies) ==
    /\ db' = [db EXCEPT ![d] = t]
    /\ rotation' = [rotation EXCEPT
                       !.dirty = IF rotation.pc \in {"reading", "writing"} THEN @ \cup {d} ELSE @]
    /\ raw' = IF withPolicies THEN raw \ {d} ELSE raw \cup {d}

Fault == spent.faults < MaxFaults /\ spent' = [spent EXCEPT !.faults = @ + 1]

-----------------------------------------------------------------------------
\* Documents of mongoose: new ones, and ones hydrated from the database with
\* the snapshot the post("init") hook takes.

New(c) ==
    /\ \E d \in Docs, p \in Plains :
         /\ db[d] = Nothing /\ \A o \in Clients : client[o].doc # d
         /\ Call(c, [Idle EXCEPT !.pc = "held", !.doc = d, !.value = PlainText(p),
                                 !.isNew = TRUE, !.modified = TRUE])
    /\ UNCHANGED <<db, deployed, env, rotation, status, leaks, raw>>

FindById(c) ==
    /\ \E d \in Docs :
         /\ db[d] # Nothing
         /\ Call(c, [Idle EXCEPT !.pc = "held", !.doc = d, !.value = db[d], !.snapshot = db[d]])
    /\ status' = NoStatus
    /\ UNCHANGED <<db, deployed, env, rotation, leaks, raw>>

\* The application assigns a plain value, or puts back what it had loaded.
Assign(c) ==
    /\ client[c].pc = "held" /\ ~client[c].isNew
    /\ \E t \in {PlainText(p) : p \in Plains} \cup {client[c].snapshot} :
         /\ t \notin {client[c].value, Nothing}
         /\ client' = [client EXCEPT ![c].value = t, ![c].modified = TRUE]
    /\ UNCHANGED <<db, deployed, env, rotation, status, leaks, raw, spent>>

\* Mutant of ToProtect.
AlwaysProtects(k) == k.isNew \/ k.modified

\* isProtectionUnchanged() and what the pre("save") hooks protect.
ToProtect(k) == k.isNew \/ (k.modified /\ k.value # k.snapshot)

\* Mutant of PreSave: the triggers are handed the document itself.
DispatchesDocument(c) ==
    LET k == client[c]
        value == IF ToProtect(k) THEN Setter(c, k.value) ELSE k.value IN
    /\ k.pc = "held" /\ k.modified
    /\ client' = [client EXCEPT ![c].pc = "saving", ![c].value = value]
    /\ Dispatch("save", value)
    /\ UNCHANGED <<db, deployed, env, rotation, status, raw, spent>>

\* pre("save"): the value is protected in the document, and the pre triggers
\* are handed a transformed copy of it.
PreSave(c) ==
    LET k == client[c]
        value == IF ToProtect(k) THEN Setter(c, k.value) ELSE k.value IN
    /\ k.pc = "held" /\ k.modified
    /\ client' = [client EXCEPT ![c].pc = "saving", ![c].value = value]
    /\ Dispatch("save", Getter(value))
    /\ UNCHANGED <<db, deployed, env, rotation, status, raw, spent>>

SaveApplied(c) ==
    LET k == client[c] IN
    /\ k.pc = "saving" /\ (k.isNew \/ db[k.doc] # Nothing)
    /\ Store(k.doc, k.value, k.value # k.snapshot \/ k.snapshot.seals # <<>>)
    /\ client' = [client EXCEPT ![c].pc = "saved", ![c].isNew = FALSE, ![c].modified = FALSE]
    /\ UNCHANGED <<deployed, env, status, leaks, spent>>

\* The write fails, or finds the document deleted; the document keeps what the
\* hook left in it.
SaveFails(c) ==
    LET k == client[c] IN
    /\ k.pc = "saving"
    /\ IF k.isNew \/ db[k.doc] # Nothing THEN Fault ELSE UNCHANGED spent
    /\ client' = [client EXCEPT ![c] = IF RetrySaves THEN [@ EXCEPT !.pc = "held"] ELSE Idle]
    /\ UNCHANGED <<db, deployed, env, rotation, status, leaks, raw>>

\* post("save"): the post triggers are handed what findById() reads again.
PostSave(c) ==
    LET k == client[c] IN
    /\ k.pc = "saved"
    /\ Dispatch("save", Getter(IF db[k.doc] # Nothing THEN db[k.doc] ELSE k.value))
    /\ client' = [client EXCEPT ![c].pc = "held"]
    /\ UNCHANGED <<db, deployed, env, rotation, status, raw, spent>>

LetGo(c) ==
    /\ client[c].pc = "held" /\ client' = [client EXCEPT ![c] = Idle]
    /\ UNCHANGED <<db, deployed, env, rotation, status, leaks, raw, spent>>

-----------------------------------------------------------------------------
\* Queries: updateOne()/findOneAndUpdate(), with and without useDataPolicies,
\* deleteOne()/findOneAndDelete() and upsertById() with data policies.

\* The pre hooks protect $set in place, then hand it to the pre triggers.
\* Bound: a raw update writes values without a colon.
PreUpdate(c) ==
    /\ \E d \in Docs, p \in Plains, withPolicies \in BOOLEAN :
         LET value == IF withPolicies THEN Setter(c, PlainText(p)) ELSE PlainText(p) IN
         /\ withPolicies \/ p \notin WithColon
         /\ Call(c, [Idle EXCEPT !.pc = IF withPolicies THEN "updating" ELSE "updatingRaw",
                                 !.doc = d, !.value = value])
         /\ Dispatch("update", value)
    /\ UNCHANGED <<db, deployed, env, rotation, status, raw>>

\* The post triggers are handed the document that is found, under $set.
UpdateApplied(c) ==
    LET k == client[c] IN
    /\ k.pc \in {"updating", "updatingRaw"}
    /\ IF db[k.doc] # Nothing
       THEN Store(k.doc, k.value, k.pc = "updating")
       ELSE UNCHANGED <<db, rotation, raw>>
    /\ Dispatch("update", k.value)
    /\ client' = [client EXCEPT ![c] = Idle]
    /\ UNCHANGED <<deployed, env, status, spent>>

\* pre("deleteOne"): what is found is stashed for the post triggers.
PreDelete(c) ==
    /\ \E d \in Docs :
         /\ db[d] # Nothing
         /\ Call(c, [Idle EXCEPT !.pc = "deleting", !.doc = d, !.value = Getter(db[d])])
         /\ Dispatch("delete", Getter(db[d]))
    /\ UNCHANGED <<db, deployed, env, rotation, status, raw>>

DeleteApplied(c) ==
    /\ client[c].pc = "deleting"
    /\ db' = [db EXCEPT ![client[c].doc] = Nothing]
    /\ Dispatch("delete", client[c].value)
    /\ client' = [client EXCEPT ![c] = Idle]
    /\ UNCHANGED <<deployed, env, rotation, status, raw, spent>>

\* upsertById(): the listener protects the data, then inserts what is missing.
UpsertById(c) ==
    /\ \E d \in Docs, p \in Plains :
         Call(c, [Idle EXCEPT !.pc = "upserting", !.doc = d, !.value = Setter(c, PlainText(p))])
    /\ UNCHANGED <<db, deployed, env, rotation, status, leaks, raw>>

UpsertApplied(c) ==
    LET k == client[c] IN
    /\ k.pc = "upserting"
    /\ IF db[k.doc] = Nothing THEN Store(k.doc, k.value, TRUE) ELSE UNCHANGED <<db, rotation, raw>>
    /\ client' = [client EXCEPT ![c] = Idle]
    /\ UNCHANGED <<deployed, env, status, leaks, spent>>

\* A failed updateOne() ends the call; a failed upsert rejects in the listener,
\* which calls next() only afterwards, and the caller waits for ever.
QueryFails(c) ==
    /\ client[c].pc \in {"updating", "updatingRaw", "deleting", "upserting"}
    /\ Fault
    /\ client' = [client EXCEPT ![c] =
                    IF @.pc = "upserting" THEN [Idle EXCEPT !.pc = "waiting"] ELSE Idle]
    /\ UNCHANGED <<db, deployed, env, rotation, status, leaks, raw>>

\* The process of a client is restarted with v1.
Upgrade(c) ==
    /\ deployed[c] = "v0" /\ client[c].pc \in {"idle", "waiting"}
    /\ deployed' = [deployed EXCEPT ![c] = "v1"]
    /\ client' = [client EXCEPT ![c] = Idle]
    /\ UNCHANGED <<db, env, rotation, status, leaks, raw, spent>>

-----------------------------------------------------------------------------
\* seedRotateProtectionKeys(), once, in a process of v1.

Present == {d \in Docs : db[d] # Nothing}

\* With mode "find" the documents are handed to onDocument without awaiting it:
\* none is collected by the time the collected ones are written.
RotateStart ==
    /\ rotation.pc = "none" /\ \E c \in Clients : deployed[c] = "v1"
    /\ \E mode \in Modes :
         rotation' = IF mode = "find" THEN [rotation EXCEPT !.pc = "done"]
                     ELSE [rotation EXCEPT !.pc = "reading", !.unread = Docs,
                             !.limit = IF mode = "batch" THEN BatchSize ELSE Cardinality(Docs)]
    /\ UNCHANGED <<db, deployed, env, client, status, leaks, raw, spent>>

\* The cursor gives the next document, unprotected.
RotateRead ==
    /\ rotation.pc = "reading" /\ rotation.limit > 0
    /\ \E d \in rotation.unread :
         rotation' = [rotation EXCEPT
           !.unread = @ \ {d},
           !.read = IF db[d] = Nothing THEN @
                    ELSE [e \in DOMAIN @ \cup {d} |-> IF e = d THEN Getter(db[d]) ELSE @[e]],
           !.limit = IF db[d] = Nothing THEN @ ELSE @ - 1,
           !.dirty = @ \ {d}]
    /\ UNCHANGED <<db, deployed, env, client, status, leaks, raw, spent>>

\* upsertManyById() of type "update" with data policies: the listener protects
\* what was read and sends one unordered bulk write.
RotateSend ==
    /\ rotation.pc = "reading" /\ (rotation.unread = {} \/ rotation.limit = 0)
    /\ rotation' = IF DOMAIN rotation.read = {} THEN [NoRotation EXCEPT !.pc = "done"]
                   ELSE [rotation EXCEPT !.pc = "writing",
         !.read = [d \in DOMAIN @ |-> Protect(Policy("v1"), @[d], env)],
         !.todo = DOMAIN rotation.read]
    /\ UNCHANGED <<db, deployed, env, client, status, leaks, raw, spent>>

\* Mutant of RotateWrite: the bulk write upserts.
RotateUpserts ==
    /\ rotation.pc = "writing"
    /\ \E d \in rotation.todo :
         /\ db' = [db EXCEPT ![d] = rotation.read[d]]
         /\ rotation' = [rotation EXCEPT !.todo = @ \ {d}, !.written = @ \cup {d}]
         /\ raw' = raw \ {d}
    /\ UNCHANGED <<deployed, env, client, status, leaks, spent>>

\* One operation of the bulk write is applied; a deleted document stays deleted.
RotateWrite ==
    /\ rotation.pc = "writing"
    /\ \E d \in rotation.todo :
         /\ db' = [db EXCEPT ![d] = IF @ = Nothing THEN Nothing ELSE rotation.read[d]]
         /\ rotation' = [rotation EXCEPT !.todo = @ \ {d}, !.written = @ \cup {d}]
         /\ raw' = raw \ {d}
    /\ UNCHANGED <<deployed, env, client, status, leaks, spent>>

RotateWriteFails ==
    /\ rotation.pc = "writing" /\ Fault
    /\ \E d \in rotation.todo :
         rotation' = [rotation EXCEPT !.todo = @ \ {d}, !.failed = @ \cup {d}]
    /\ UNCHANGED <<db, deployed, env, client, status, leaks, raw>>

\* bulkWriteWithRetry(): the failed operations only, which a single updateOne()
\* does not do; what it throws is lost in the listener.
RotateRetry ==
    /\ rotation.pc = "writing" /\ rotation.todo = {}
    /\ rotation' = IF rotation.failed = {} THEN [NoRotation EXCEPT !.pc = "done"]
                   ELSE IF rotation.attempt < Retries /\ Cardinality(DOMAIN rotation.read) > 1
                   THEN [rotation EXCEPT !.todo = rotation.failed, !.failed = {}, !.attempt = @ + 1]
                   ELSE [NoRotation EXCEPT !.pc = "waiting"]
    /\ UNCHANGED <<db, deployed, env, client, status, leaks, raw, spent>>

-----------------------------------------------------------------------------
\* checkProtectionRotationStatus(), after the rotation.  The operator trusts a
\* check begun when every process has v1 and is idle, and during which no
\* request hydrates a document, whose snapshot it could put back.

StatusStart ==
    /\ status.pc # "reading" /\ Key("v0") \in env /\ rotation.pc \in {"done", "waiting"}
    /\ \A c \in Clients : deployed[c] = "v1" /\ client[c].pc = "idle"
    /\ \E batch \in {"batch" \in Modes, FALSE} :
         status' = [pc |-> "reading", batch |-> batch, unread |-> Docs, outdated |-> 0]
    /\ UNCHANGED <<db, deployed, env, client, rotation, leaks, raw, spent>>

BatchRead == status.batch /\ Cardinality(Present \ status.unread) >= BatchSize

Outdated(t) == ExtractVersion(t).version # "v1"

StatusRead ==
    /\ status.pc = "reading" /\ ~BatchRead
    /\ \E d \in status.unread :
         status' = [status EXCEPT
           !.unread = @ \ {d},
           !.outdated = IF db[d] # Nothing /\ Outdated(db[d]) THEN @ + 1 ELSE @]
    /\ UNCHANGED <<db, deployed, env, client, rotation, leaks, raw, spent>>

StatusDone ==
    /\ status.pc = "reading" /\ (status.unread = {} \/ BatchRead)
    /\ status' = [status EXCEPT !.pc = "done"]
    /\ UNCHANGED <<db, deployed, env, client, rotation, leaks, raw, spent>>

\* The operator removes the key of v0 when no document is outdated.
RemoveOldKey ==
    /\ status.pc = "done" /\ status.outdated = 0
    /\ env' = env \ {Key("v0")}
    /\ UNCHANGED <<db, deployed, client, rotation, status, leaks, raw, spent>>

ClientStep(c) ==
    \/ New(c) \/ FindById(c) \/ Assign(c) \/ PreSave(c) \/ SaveApplied(c) \/ SaveFails(c)
    \/ PostSave(c) \/ LetGo(c) \/ PreUpdate(c) \/ UpdateApplied(c)
    \/ PreDelete(c) \/ DeleteApplied(c) \/ UpsertById(c) \/ UpsertApplied(c)
    \/ QueryFails(c) \/ Upgrade(c)

Rotate == RotateStart \/ RotateRead \/ RotateSend \/ RotateWrite \/ RotateWriteFails \/ RotateRetry

Next ==
    \/ \E c \in Clients : ClientStep(c)
    \/ Rotate
    \/ StatusStart \/ StatusRead \/ StatusDone \/ RemoveOldKey

Spec == Init /\ [][Next]_vars

\* What a process has begun goes on.
FairSpec == Spec /\ WF_vars(RotateRead \/ RotateSend \/ RotateWrite \/ RotateRetry)

-----------------------------------------------------------------------------
TypeOK ==
    /\ deployed \in [Clients -> Versions]
    /\ env \subseteq {Key("v0"), Key("v1")}
    /\ \A c \in Clients : client[c].doc \in Docs \cup {Nothing}
    /\ rotation.pc \in {"none", "reading", "writing", "done", "waiting"}
    /\ rotation.attempt \in 0 .. Retries /\ rotation.limit \in Nat
    /\ status.outdated \in 0 .. Cardinality(Docs)
    /\ leaks \subseteq {"save", "update", "delete"} /\ raw \subseteq Docs

\* Whatever calls, rotation and removal of the key do, the field of every
\* document can be read: it gives back a value somebody wrote.
Readable == \A d \in Docs : db[d] # Nothing => IsPlain(Getter(db[d]))

\* What is written with data policies is protected, and nothing is protected
\* twice: isProtectionUnchanged() and the options of the queries.
ProtectedOnce ==
    \A d \in Docs : db[d] # Nothing =>
        Len(db[d].seals) <= 1 /\ (d \notin raw => Len(db[d].seals) = 1)

\* Through saves that fail and are repeated, updates, upserts, rotation and the
\* removal of the old key.
ReadableAndSealedOnce == TypeOK /\ Readable /\ ProtectedOnce

\* docs/DATA-PROTECTION.md: outdated 0 is what "safe to remove the old key"
\* means.
SafeToRemove ==
    Key("v0") \notin env => \A d \in Docs : db[d] # Nothing => IsPlain(Getter(db[d]))

\* docs/TRIGGERS.md: a trigger never sees raw ciphertext, on any path.
TriggersSeePlain == leaks = {}

\* Saving and deleting keep that promise: whatever is saved, re-read and
\* deleted meanwhile, their triggers see plain values.
DocumentsDispatchPlain == leaks \subseteq {"update"}

Rotates(d) == rotation.pc = "writing" /\ d \in rotation'.written \ rotation.written

\* The rotation gives the documents back as it found them: one that was not
\* written since it was read keeps its value, and no deleted one comes back.
RotationKeepsValues ==
    [][\A d \in Docs : Rotates(d) /\ d \notin rotation.dirty =>
         IF db[d] = Nothing THEN db'[d] = Nothing ELSE Getter(db'[d]) = Getter(db[d])]_vars

\* seedRotateProtectionKeys() resolves or rejects once its writes are over
\* (bulkWriteWithRetry: "gives up and re-throws").
RotationEnds == (rotation.pc = "reading") ~> (rotation.pc = "done")
=============================================================================
