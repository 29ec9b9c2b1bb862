-------------------------- MODULE Documents_proofs --------------------------
(***************************************************************************)
(* Proofs about Documents, for any documents, clients, values and numbers  *)
(* of calls and faults.                                                    *)
(*                                                                         *)
(* The inductive invariant says which texts may be where: a field holds a  *)
(* value sealed once, or one a raw update wrote; a document in the hands   *)
(* of a client is protected by its next save only if its value is plain;   *)
(* and once a check has begun that found nothing outdated, nobody holds a  *)
(* text of the old version that could come back.                           *)
(***************************************************************************)
EXTENDS Documents, TLAPS, FiniteSetTheorems

\* What is asked of the application and of the operator: a document whose save
\* failed is not saved again, and the check is not made with mode "batch", which
\* reads a part of the collection.
CarefulUse == ~RetrySaves /\ "batch" \notin Modes

Encrypted(p, v) ==
    [plain |-> p,
     seals |-> <<[by |-> "encrypt", key |-> <<"symmetric", v>>, under |-> PlainText(p).label]>>,
     label |-> v]

PlainTexts == {PlainText(p) : p \in Plains}
RawTexts == {PlainText(p) : p \in Plains \ WithColon}
SealedTexts == {Encrypted(p, v) : p \in Plains, v \in Versions}
OldTexts == {Encrypted(p, "v0") : p \in Plains}

\* What the field of a document may hold.
Kept == SealedTexts \cup RawTexts

\* The old key is gone, or a check that may lead to its removal has begun.
Guarded == Key("v0") \notin env \/ status.pc # "none"

Deployment ==
    /\ deployed \in [Clients -> Versions]
    /\ env \subseteq {Key("v0"), Key("v1")} /\ Key("v1") \in env
    /\ Guarded => /\ \A c \in Clients : deployed[c] = "v1"
                  /\ rotation.pc \in {"done", "waiting"}

Database ==
    /\ db \in [Docs -> {Nothing} \cup Kept] /\ raw \subseteq Docs
    /\ \A d \in Docs : /\ d \notin raw => db[d] \notin RawTexts
                       /\ Key("v0") \notin env => db[d] \notin OldTexts

Calls == [pc : {"idle", "held", "saving", "saved", "updating", "updatingRaw", "deleting", "upserting", "waiting"},
          doc : Docs \cup {Nothing}, value : {Nothing} \cup Kept \cup PlainTexts,
          snapshot : {Nothing} \cup Kept, isNew : BOOLEAN, modified : BOOLEAN]

CallOK(k) ==
    /\ k.pc \in {"idle", "waiting"} => k.value = Nothing /\ k.snapshot = Nothing
    /\ k.pc \notin {"idle", "waiting"} => k.doc \in Docs /\ k.value # Nothing
    /\ k.pc = "held" /\ (k.isNew \/ (k.modified /\ k.value # k.snapshot)) => k.value \in PlainTexts
    /\ k.pc = "held" /\ ~k.modified => ~k.isNew
    /\ k.pc = "saving" => k.value \in SealedTexts \/ (k.value = k.snapshot /\ k.value \in Kept)
    /\ k.pc = "saved" => k.value \in Kept /\ ~k.isNew /\ ~k.modified
    /\ k.pc \in {"updating", "upserting"} => k.value \in SealedTexts
    /\ k.pc = "updatingRaw" => k.value \in RawTexts
    /\ k.pc = "deleting" => k.value \in PlainTexts

FreshCall(k) == k.value \notin OldTexts /\ k.snapshot \notin OldTexts

ClientsOK ==
    /\ client \in [Clients -> Calls]
    /\ \A c \in Clients : CallOK(client[c]) /\ (Guarded => FreshCall(client[c]))

Reads == UNION {[S -> Kept \cup PlainTexts] : S \in SUBSET Docs}

Run == [pc : {"none", "reading", "writing", "done", "waiting"}, unread : SUBSET Docs, limit : Nat,
        read : Reads, todo : SUBSET Docs, failed : SUBSET Docs, attempt : 0 .. Retries,
        dirty : SUBSET Docs, written : SUBSET Docs]

Rotating ==
    /\ rotation \in Run
    /\ rotation.todo \cup rotation.failed \subseteq DOMAIN rotation.read
    /\ rotation.pc \in {"none", "done", "waiting"} => DOMAIN rotation.read = {}
    /\ \A d \in DOMAIN rotation.read :
         /\ rotation.pc = "reading" => rotation.read[d] \in PlainTexts
         /\ rotation.pc = "writing" => rotation.read[d] \in SealedTexts \ OldTexts
         /\ d \notin rotation.dirty /\ db[d] # Nothing => db[d].plain = rotation.read[d].plain

Checking ==
    /\ status \in [pc : {"none", "reading", "done"}, batch : {FALSE}, unread : SUBSET Docs, outdated : Nat]
    /\ status.outdated + Cardinality(status.unread) <= Cardinality(Docs)
    /\ status.pc = "done" => status.unread = {}
    /\ status.pc # "none" /\ status.outdated = 0 => \A d \in Docs \ status.unread : db[d] \notin OldTexts

Inv == Deployment /\ Database /\ ClientsOK /\ Rotating /\ Checking /\ DocumentsDispatchPlain

-----------------------------------------------------------------------------
\* The texts: what each of them is, and that they differ.
LEMMA TextFacts ==
  ASSUME NEW p \in Plains, NEW v \in Versions
  PROVE  /\ Encrypted(p, v).plain = p /\ Encrypted(p, v).label = v
         /\ Len(Encrypted(p, v).seals) = 1 /\ Encrypted(p, v).seals # << >>
         /\ PlainText(p).plain = p /\ PlainText(p).seals = << >>
         /\ PlainText(p).label \in {"none", "other"} /\ (p \notin WithColon => PlainText(p).label = "none")
         /\ Encrypted(p, v) # Nothing /\ PlainText(p) # Nothing
<1> DEFINE seal == [by |-> "encrypt", key |-> <<"symmetric", v>>, under |-> PlainText(p).label]
<1>1. PlainText(p).label \in {"none", "other"} /\ (p \notin WithColon => PlainText(p).label = "none")
  BY DEF PlainText
<1>2. PlainText(p).plain = p /\ PlainText(p).seals = << >>
  BY DEF PlainText
<1>3. v \in Labels /\ PlainText(p).label \in Labels
  BY <1>1 DEF Labels
<1>4. seal \in Seals
  BY <1>3 DEF Seals
<1> HIDE DEF seal
<1>5. Encrypted(p, v) = [plain |-> p, seals |-> <<seal>>, label |-> v]
  BY DEF Encrypted, seal
<1>6. <<seal>> \in Seq(Seals) /\ << >> \in Seq(Seals) /\ Len(<<seal>>) = 1 /\ <<seal>> # << >>
  BY <1>4
<1>7. Encrypted(p, v) \in Texts
  BY <1>3, <1>5, <1>6 DEF Texts
<1>8. PlainText(p) \in Texts
  BY <1>3, <1>6 DEF PlainText, Texts
<1>9. Nothing \notin Texts
  BY DocumentConstants
<1>10. /\ Encrypted(p, v).plain = p /\ Encrypted(p, v).label = v
       /\ Len(Encrypted(p, v).seals) = 1 /\ Encrypted(p, v).seals # << >>
  BY <1>5, <1>6
<1> QED
  BY <1>1, <1>2, <1>7, <1>8, <1>9, <1>10

LEMMA KeptFacts ==
  /\ RawTexts \subseteq PlainTexts /\ OldTexts \subseteq SealedTexts
  /\ SealedTexts \cap PlainTexts = {}
  /\ Nothing \notin Kept \cup PlainTexts \cup OldTexts
  /\ \A t \in PlainTexts : t.plain \in Plains /\ t = PlainText(t.plain) /\ IsPlain(t) /\ t.seals = << >>
  /\ \A t \in SealedTexts : t.plain \in Plains /\ Len(t.seals) = 1 /\ t.seals # << >>
<1>1. RawTexts \subseteq PlainTexts /\ OldTexts \subseteq SealedTexts
  BY DEF RawTexts, PlainTexts, OldTexts, SealedTexts, Versions
<1>2. \A t \in PlainTexts : /\ t.plain \in Plains /\ t = PlainText(t.plain) /\ IsPlain(t)
                            /\ t.seals = << >> /\ t # Nothing
  BY TextFacts DEF PlainTexts, IsPlain, Versions
<1>3. \A t \in SealedTexts : /\ t.plain \in Plains /\ Len(t.seals) = 1 /\ t.seals # << >>
                             /\ t # Nothing
  BY TextFacts DEF SealedTexts
<1> QED
  BY <1>1, <1>2, <1>3 DEF Kept

\* What a setter makes of a plain value.
LEMMA SetterFacts ==
  ASSUME NEW p \in Plains, NEW v \in Versions, NEW e, Key(v) \in e
  PROVE  Protect(Policy(v), PlainText(p), e) = Encrypted(p, v)
<1> DEFINE variant == [strategy |-> "encrypt", type |-> "symmetric"]
<1>1. Policy(v).activeVersion = v /\ Policy(v).versionConfigs = [x \in {"default"} |-> variant]
  BY DEF Policy
<1>2. v # "default"
  BY DEF Versions
<1>3. Variant(Policy(v), v) = variant
  BY <1>1, <1>2 DEF Variant
<1>4. PlainText(p) # Nothing
  BY TextFacts
<1>5. Protect(Policy(v), PlainText(p), e) = Encrypt(PlainText(p), "symmetric", v, e)
  BY <1>1, <1>3, <1>4 DEF Protect
<1>6. EncryptSecret("encrypt", "symmetric", v) = Key(v)
  BY DEF EncryptSecret, Key
<1>7. Encrypt(PlainText(p), "symmetric", v, e) = Sealed(PlainText(p), "encrypt", <<"symmetric", v>>, v)
  BY <1>6 DEF Encrypt
<1>8. PlainText(p).plain = p /\ PlainText(p).seals = << >>
  BY TextFacts
<1> QED
  BY <1>5, <1>7, <1>8 DEF Sealed, Encrypted

\* Reading with the default strategy.
LEMMA Decrypts ==
  ASSUME NEW t, NEW version, t # Nothing,
         ExtractVersion(t).version = version, version # "default"
  PROVE  Getter(t) = Decrypt([t EXCEPT !.label = "none"], "symmetric", version, env)
<1> DEFINE variant == [strategy |-> "encrypt", type |-> "symmetric"]
           read == ExtractVersion(t)
<1>1. Policy("v1").versionConfigs = [x \in {"default"} |-> variant]
  BY DEF Policy
<1>2. read.version = version /\ read.message = [t EXCEPT !.label = "none"]
  BY DEF ExtractVersion
<1>3. HasVariant(Policy("v1"), version) /\ Variant(Policy("v1"), version) = variant
  BY <1>1 DEF HasVariant, Variant
<1> HIDE DEF read
<1>4. /\ Accessor(Policy("v1"), t) = WithMethod(variant, read)
  BY <1>2, <1>3 DEF Accessor, read
<1>5. /\ WithMethod(variant, read).method = "decrypt" /\ WithMethod(variant, read).text = read.message
      /\ WithMethod(variant, read).version = version /\ WithMethod(variant, read).type = "symmetric"
  BY <1>2 DEF WithMethod
<1> QED
  BY <1>2, <1>4, <1>5 DEF Getter, Unprotect

LEMMA GetterFacts ==
  ASSUME NEW p \in Plains
  PROVE  /\ \A v \in Versions : Key(v) \in env => Getter(Encrypted(p, v)) = PlainText(p)
         /\ p \notin WithColon => Getter(PlainText(p)) = PlainText(p)
<1>1. ASSUME NEW v \in Versions, Key(v) \in env
      PROVE  Getter(Encrypted(p, v)) = PlainText(p)
  <2> DEFINE seal == [by |-> "encrypt", key |-> <<"symmetric", v>>, under |-> PlainText(p).label]
             m == [plain |-> p, seals |-> <<seal>>, label |-> "none"]
  <2>1. ExtractVersion(Encrypted(p, v)).version = v /\ v # "default" /\ Encrypted(p, v) # Nothing
    BY TextFacts DEF ExtractVersion, Versions
  <2>2. [Encrypted(p, v) EXCEPT !.label = "none"] = m
    BY DEF Encrypted
  <2>3. Getter(Encrypted(p, v)) = Decrypt(m, "symmetric", v, env)
    BY <2>1, <2>2, Decrypts
  <2>4. EncryptSecret("decrypt", "symmetric", v) = Key(v)
    BY DEF EncryptSecret, Key
  <2>5. seal.by = "encrypt" /\ seal.key = <<"symmetric", v>> /\ seal.under = PlainText(p).label
    OBVIOUS
  <2> HIDE DEF seal
  <2>6. m.plain = p /\ m.seals = <<seal>> /\ m.label = "none"
    OBVIOUS
  <2> HIDE DEF m
  <2>7. Len(<<seal>>) = 1 /\ <<seal>> # << >> /\ <<seal>>[1] = seal
    OBVIOUS
  <2>8. Outer(m) = seal
    BY <2>6, <2>7 DEF Outer
  <2>9. IsSealed(m, "encrypt", <<"symmetric", v>>)
    BY <2>5, <2>6, <2>7, <2>8 DEF IsSealed
  <2>10. SubSeq(m.seals, 1, Len(m.seals) - 1) = << >>
    BY <2>6, <2>7
  <2>11. Unsealed(m) = [plain |-> p, seals |-> << >>, label |-> PlainText(p).label]
    BY <2>5, <2>6, <2>8, <2>10 DEF Unsealed
  <2> QED
    BY <1>1, <2>3, <2>4, <2>9, <2>11 DEF Decrypt, PlainText
<1>2. ASSUME p \notin WithColon
      PROVE  Getter(PlainText(p)) = PlainText(p)
  <2>1. PlainText(p) = [plain |-> p, seals |-> << >>, label |-> "none"] /\ PlainText(p) # Nothing
    BY <1>2, TextFacts DEF PlainText, Versions
  <2>2. /\ ExtractVersion(PlainText(p)).version = "v0"
        /\ [PlainText(p) EXCEPT !.label = "none"] = PlainText(p) /\ PlainText(p).seals = << >>
    BY <2>1 DEF ExtractVersion
  <2>3. Getter(PlainText(p)) = Decrypt(PlainText(p), "symmetric", "v0", env)
    BY <2>1, <2>2, Decrypts
  <2> QED
    BY <2>2, <2>3 DEF Decrypt, IsSealed
<1> QED
  BY <1>1, <1>2

\* What is kept can be read: with both keys, or if it is not of the old one.
LEMMA ReadFacts ==
  ASSUME NEW t \in Kept, Key("v1") \in env, Key("v0") \in env \/ t \notin OldTexts
  PROVE  /\ t.plain \in Plains /\ Getter(t) = PlainText(t.plain)
         /\ Getter(t) \in PlainTexts /\ IsPlain(Getter(t))
<1>1. CASE t \in SealedTexts
  <2>1. PICK p \in Plains, v \in Versions : t = Encrypted(p, v)
    BY <1>1 DEF SealedTexts
  <2>2. Key(v) \in env
    BY <2>1 DEF Versions, OldTexts
  <2> QED
    BY <2>1, <2>2, TextFacts, GetterFacts, KeptFacts DEF PlainTexts
<1>2. CASE t \in RawTexts
  <2>1. PICK p \in Plains \ WithColon : t = PlainText(p)
    BY <1>2 DEF RawTexts
  <2>2. PlainText(p).plain = p
    BY TextFacts DEF Versions
  <2> QED
    BY <2>1, <2>2, GetterFacts, KeptFacts DEF PlainTexts
<1> QED
  BY <1>1, <1>2 DEF Kept

-----------------------------------------------------------------------------
\* What the steps have in common: they hand something to a trigger, write a
\* field, or move a call.
LEMMA DispatchFacts ==
  ASSUME DocumentsDispatchPlain, NEW op, NEW t, Dispatch(op, t),
         op = "update" \/ t = Nothing \/ t \in PlainTexts
  PROVE  DocumentsDispatchPlain'
BY KeptFacts DEF Dispatch, DocumentsDispatchPlain

\* The setter of a client has its key, and gives nothing old away.
LEMMA Sets ==
  ASSUME Deployment, NEW c \in Clients, NEW t \in PlainTexts
  PROVE  /\ Setter(c, t) \in SealedTexts
         /\ Guarded => Setter(c, t) \notin OldTexts
<1>1. PICK p \in Plains : t = PlainText(p)
  BY DEF PlainTexts
<1> DEFINE v == deployed[c]
<1>2. v \in Versions /\ Key(v) \in env
  BY DEF Deployment, Guarded, Versions
<1>3. Setter(c, t) = Encrypted(p, v)
  BY <1>1, <1>2, SetterFacts DEF Setter
<1>4. Guarded => v = "v1"
  BY DEF Deployment
<1>5. \A q \in Plains : Encrypted(p, v) = Encrypted(q, "v0") => v = "v0"
  BY <1>2, TextFacts DEF Versions
<1> QED
  BY <1>2, <1>3, <1>4, <1>5 DEF SealedTexts, OldTexts

\* A field is written, or its document deleted, while nothing else moves.
Environs == Deployment /\ Database /\ Rotating /\ Checking

LEMMA SameEnvirons ==
  ASSUME Environs, UNCHANGED <<db, deployed, env, rotation, status, raw>>
  PROVE  Environs'
BY DEF Environs, Deployment, Database, Rotating, Checking, Guarded

LEMMA StoreKeeps ==
  ASSUME Environs, NEW d \in Docs, NEW t \in Kept, NEW w \in BOOLEAN, Store(d, t, w),
         w => t \in SealedTexts, Guarded => t \notin OldTexts, UNCHANGED <<deployed, env, status>>
  PROVE  Environs'
<1> USE DEF Environs
<1>1. db' = [db EXCEPT ![d] = t] /\ raw' = IF w THEN raw \ {d} ELSE raw \cup {d}
  BY DEF Store
<1>2. db \in [Docs -> {Nothing} \cup Kept] /\ raw \subseteq Docs
  BY DEF Database
<1>3. db' \in [Docs -> {Nothing} \cup Kept] /\ \A o \in Docs : db'[o] = IF o = d THEN t ELSE db[o]
  BY <1>1, <1>2
<1>4. raw' \subseteq Docs /\ \A o \in Docs \ {d} : o \in raw' <=> o \in raw
  BY <1>1, <1>2
<1>5. Database'
  <2>1. d \notin raw' => t \notin RawTexts
    BY <1>1, KeptFacts
  <2>2. Key("v0") \notin env => t \notin OldTexts
    BY DEF Guarded
  <2> QED
    BY <1>3, <1>4, <2>1, <2>2 DEF Database
<1> DEFINE old == rotation
           dirt == IF old.pc \in {"reading", "writing"} THEN old.dirty \cup {d} ELSE old.dirty
<1>6. rotation' = [old EXCEPT !.dirty = dirt] /\ old \in Run
  BY DEF Store, Rotating
<1>7. dirt \in SUBSET Docs
  BY <1>6 DEF Run
<1>8. DOMAIN old.read # {} => dirt = old.dirty \cup {d}
  BY <1>6 DEF Rotating, Run
<1>9. old = rotation
  OBVIOUS
<1> HIDE DEF old, dirt
<1>10. /\ rotation' \in Run /\ rotation'.pc = old.pc /\ rotation'.read = old.read /\ rotation'.todo = old.todo
       /\ rotation'.failed = old.failed /\ rotation'.dirty = dirt
  BY <1>6, <1>7 DEF Run
<1>11. Deployment'
  BY <1>9, <1>10 DEF Deployment, Guarded
<1>12. Rotating'
  <2>1. \A o \in DOMAIN old.read : o \in Docs
    BY <1>6 DEF Run, Reads
  <2>2. \A o \in DOMAIN old.read : o \notin dirt => o # d /\ o \notin old.dirty
    BY <1>8
  <2>3. /\ old.todo \cup old.failed \subseteq DOMAIN old.read
        /\ old.pc \in {"none", "done", "waiting"} => DOMAIN old.read = {}
        /\ \A o \in DOMAIN old.read :
             /\ old.pc = "reading" => old.read[o] \in PlainTexts
             /\ old.pc = "writing" => old.read[o] \in SealedTexts \ OldTexts
             /\ o \notin old.dirty /\ db[o] # Nothing => db[o].plain = old.read[o].plain
    BY <1>9 DEF Rotating
  <2>4. \A o \in DOMAIN old.read :
             o \notin dirt /\ db'[o] # Nothing => db'[o].plain = old.read[o].plain
    BY <1>3, <2>1, <2>2, <2>3
  <2> QED
    BY <1>10, <2>3, <2>4 DEF Rotating
<1>13. Checking'
  BY <1>3 DEF Checking, Guarded
<1> QED
  BY <1>5, <1>11, <1>12, <1>13

LEMMA RemoveKeeps ==
  ASSUME Environs, NEW d \in Docs, db' = [db EXCEPT ![d] = Nothing],
         UNCHANGED <<deployed, env, status, rotation, raw>>
  PROVE  Environs'
<1> USE DEF Environs
<1>1. /\ db' \in [Docs -> {Nothing} \cup Kept]
      /\ \A o \in Docs : db'[o] = Nothing \/ db'[o] = db[o]
  BY DEF Database
<1>2. Nothing \notin RawTexts /\ Nothing \notin OldTexts
  BY KeptFacts DEF Kept
<1>3. Database'
  BY <1>1, <1>2 DEF Database
<1>4. Deployment'
  BY DEF Deployment, Guarded
<1>5. Rotating'
  <2>1. \A o \in DOMAIN rotation.read : o \in Docs
    BY DEF Rotating, Run, Reads
  <2> QED
    BY <1>1, <2>1 DEF Rotating
<1>6. Checking'
  BY <1>1, <1>2 DEF Checking
<1> QED
  BY <1>3, <1>4, <1>5, <1>6

LEMMA CallKeeps ==
  ASSUME ClientsOK, NEW c \in Clients, NEW k \in Calls, CallOK(k), client' = [client EXCEPT ![c] = k],
         Guarded' => Guarded /\ FreshCall(k)
  PROVE  ClientsOK'
BY DEF ClientsOK

\* A call begins.
LEMMA CallFacts ==
  ASSUME Inv, NEW c \in Clients, NEW k, Call(c, k)
  PROVE  client' = [client EXCEPT ![c] = k]
BY DEF Call

LEMMA IdleFacts ==
  /\ Idle \in Calls /\ CallOK(Idle) /\ FreshCall(Idle)
  /\ Idle.pc = "idle" /\ Idle.value = Nothing /\ Idle.snapshot = Nothing /\ Idle.isNew = FALSE /\ Idle.modified = FALSE
<1>1. Idle \in Calls /\ Idle.pc = "idle" /\ Idle.value = Nothing /\ Idle.snapshot = Nothing
  BY DEF Idle, Calls
<1> QED
  BY <1>1, KeptFacts DEF CallOK, FreshCall, Idle

LEMMA InvFacts ==
  ASSUME Inv, NEW c \in Clients
  PROVE  /\ Environs /\ ClientsOK /\ Deployment /\ DocumentsDispatchPlain
         /\ client[c] \in Calls /\ CallOK(client[c]) /\ (Guarded => FreshCall(client[c]))
         /\ Key("v1") \in env
         /\ \A d \in Docs : /\ db[d] \in {Nothing} \cup Kept
                            /\ db[d] # Nothing =>
                                 db[d] \in Kept /\ (Key("v0") \in env \/ db[d] \notin OldTexts)
BY DEF Inv, Environs, ClientsOK, Deployment, Database

\* A new client document, and one that is loaded.
LEMMA NewKeepsInv == \A c \in Clients : Inv /\ New(c) => Inv'
<1> SUFFICES ASSUME NEW c \in Clients, Inv, New(c) PROVE Inv'
  OBVIOUS
<1> DEFINE none == Idle
<1>1. PICK d \in Docs, p \in Plains :
        Call(c, [none EXCEPT !.pc = "held", !.doc = d, !.value = PlainText(p), !.isNew = TRUE, !.modified = TRUE])
  BY DEF New
<1>2. none \in Calls /\ none.snapshot = Nothing
  BY IdleFacts
<1> HIDE DEF none
<1> DEFINE k == [none EXCEPT !.pc = "held", !.doc = d, !.value = PlainText(p), !.isNew = TRUE, !.modified = TRUE]
<1>3. PlainText(p) \in PlainTexts
  BY DEF PlainTexts
<1>4. /\ k \in Calls /\ k.pc = "held" /\ k.doc = d /\ k.value = PlainText(p) /\ k.snapshot = Nothing
      /\ k.isNew = TRUE /\ k.modified = TRUE
  BY <1>2, <1>3 DEF Calls
<1>5. client' = [client EXCEPT ![c] = k]
  BY <1>1 DEF Call
<1> HIDE DEF k
<1>6. CallOK(k) /\ FreshCall(k)
  BY <1>3, <1>4, KeptFacts DEF CallOK, FreshCall, Kept
<1>7. UNCHANGED <<db, deployed, env, rotation, status, leaks, raw>>
  BY DEF New
<1>8. ClientsOK'
  BY <1>4, <1>5, <1>6, <1>7, InvFacts, CallKeeps DEF Guarded
<1>9. Environs'
  BY <1>7, InvFacts, SameEnvirons
<1> QED
  BY <1>7, <1>8, <1>9, InvFacts DEF Inv, Environs, DocumentsDispatchPlain

LEMMA FindByIdKeepsInv == \A c \in Clients : Inv /\ FindById(c) => Inv'
<1> SUFFICES ASSUME NEW c \in Clients, Inv, FindById(c) PROVE Inv'
  OBVIOUS
<1> DEFINE none == Idle
<1>1. PICK d \in Docs : /\ db[d] # Nothing
                        /\ Call(c, [none EXCEPT !.pc = "held", !.doc = d, !.value = db[d], !.snapshot = db[d]])
  BY DEF FindById
<1>2. none \in Calls /\ none.isNew = FALSE /\ none.modified = FALSE
  BY IdleFacts
<1> HIDE DEF none
<1> DEFINE k == [none EXCEPT !.pc = "held", !.doc = d, !.value = db[d], !.snapshot = db[d]]
<1>3. db[d] \in Kept /\ (Key("v0") \in env \/ db[d] \notin OldTexts)
  BY <1>1, InvFacts
<1>4. /\ k \in Calls /\ k.pc = "held" /\ k.doc = d /\ k.value = db[d] /\ k.snapshot = db[d]
      /\ k.isNew = FALSE /\ k.modified = FALSE
  BY <1>2, <1>3 DEF Calls
<1>5. client' = [client EXCEPT ![c] = k]
  BY <1>1 DEF Call
<1> HIDE DEF k
<1>6. CallOK(k)
  BY <1>1, <1>4 DEF CallOK
<1>7. UNCHANGED <<db, deployed, env, rotation, leaks, raw>> /\ status' = NoStatus
  BY DEF FindById
<1>8. Guarded' => Guarded /\ FreshCall(k)
  <2>1. Guarded' => Key("v0") \notin env
    BY <1>7 DEF Guarded, NoStatus
  <2> QED
    BY <1>3, <1>4, <2>1 DEF Guarded, FreshCall
<1>9. ClientsOK'
  BY <1>4, <1>5, <1>6, <1>8, InvFacts, CallKeeps
<1>10. Deployment' /\ Database' /\ Rotating'
  BY <1>7, <1>8, InvFacts DEF Inv, Deployment, Database, Rotating
<1>11. Checking'
  <2>1. Cardinality({}) = 0 /\ Cardinality(Docs) \in Nat
    BY FS_EmptySet, FS_CardinalityType, DocumentConstants
  <2> QED
    BY <1>7, <2>1 DEF Checking, NoStatus
<1> QED
  BY <1>7, <1>9, <1>10, <1>11, InvFacts DEF Inv, DocumentsDispatchPlain

\* A step of a call, with what it does to the rest.
LEMMA StepOfCall ==
  ASSUME Inv, NEW c \in Clients, NEW k \in Calls, CallOK(k), Guarded => FreshCall(k),
         client' = [client EXCEPT ![c] = k], UNCHANGED <<env, status>>, Environs', DocumentsDispatchPlain'
  PROVE  Inv'
<1>1. Guarded' = Guarded
  BY DEF Guarded
<1>2. ClientsOK'
  BY <1>1, InvFacts, CallKeeps
<1> QED
  BY <1>2 DEF Inv, Environs

LEMMA AssignKeepsInv == \A c \in Clients : Inv /\ Assign(c) => Inv'
<1> SUFFICES ASSUME NEW c \in Clients, Inv, Assign(c) PROVE Inv'
  OBVIOUS
<1> DEFINE old == client[c]
<1>1. PICK t \in {PlainText(p) : p \in Plains} \cup {old.snapshot} :
        /\ t \notin {old.value, Nothing}
        /\ client' = [client EXCEPT ![c].value = t, ![c].modified = TRUE]
  BY DEF Assign
<1> DEFINE k == [old EXCEPT !.value = t, !.modified = TRUE]
<1>2. client' = [client EXCEPT ![c] = k]
  BY <1>1
<1>3. /\ old \in Calls /\ CallOK(old) /\ (Guarded => FreshCall(old)) /\ old.pc = "held" /\ ~old.isNew
      /\ UNCHANGED <<db, deployed, env, rotation, status, leaks, raw>>
  BY InvFacts DEF Assign
<1>4. t \in PlainTexts \/ (t = old.snapshot /\ t \in Kept)
  BY <1>1, <1>3 DEF PlainTexts, Calls
<1> HIDE DEF old
<1>5. k \in Calls /\ k.pc = "held" /\ k.doc = old.doc /\ k.value = t /\ k.snapshot = old.snapshot
      /\ k.isNew = old.isNew /\ k.modified = TRUE
  BY <1>3, <1>4 DEF Calls
<1> HIDE DEF k
<1>6. CallOK(k)
  BY <1>1, <1>3, <1>4, <1>5 DEF CallOK
<1>7. Guarded => FreshCall(k)
  BY <1>3, <1>4, <1>5, KeptFacts DEF FreshCall
<1> QED
  BY <1>2, <1>3, <1>5, <1>6, <1>7, InvFacts, SameEnvirons, StepOfCall DEF DocumentsDispatchPlain

\* What a save protects is plain, and what it does not is as it was loaded.
LEMMA PreSaveKeepsInv == \A c \in Clients : Inv /\ PreSave(c) => Inv'
<1> SUFFICES ASSUME NEW c \in Clients, Inv, PreSave(c) PROVE Inv'
  OBVIOUS
<1> DEFINE old == client[c]
           value == IF ToProtect(old) THEN Setter(c, old.value) ELSE old.value
           k == [old EXCEPT !.pc = "saving", !.value = value]
<1>1. /\ client' = [client EXCEPT ![c] = k] /\ old.pc = "held" /\ old.modified
      /\ Dispatch("save", Getter(value))
      /\ UNCHANGED <<db, deployed, env, rotation, status, raw, spent>>
  BY DEF PreSave
<1>2. old \in Calls /\ CallOK(old) /\ (Guarded => FreshCall(old)) /\ old.value # Nothing /\ old.doc \in Docs
  BY <1>1, InvFacts DEF CallOK
<1>3. ToProtect(old) => old.value \in PlainTexts
  BY <1>1, <1>2 DEF ToProtect, CallOK
<1>4. ~ToProtect(old) => old.value = old.snapshot /\ ~old.isNew
  BY <1>1 DEF ToProtect
<1>5. /\ value \in SealedTexts \/ (value = old.snapshot /\ value \in Kept)
      /\ Guarded => value \notin OldTexts
  <2>1. CASE ToProtect(old)
    BY <1>3, <2>1, InvFacts, Sets
  <2>2. CASE ~ToProtect(old)
    <3>1. old.snapshot \in {Nothing} \cup Kept
      BY <1>2 DEF Calls
    <3> QED
      BY <1>2, <1>4, <2>2, <3>1 DEF FreshCall
  <2> QED
    BY <2>1, <2>2
<1>6. value \in Kept
  BY <1>5 DEF Kept
<1> HIDE DEF value, old
<1>7. k \in Calls /\ k.pc = "saving" /\ k.doc = old.doc /\ k.value = value /\ k.snapshot = old.snapshot
  BY <1>2, <1>6 DEF Calls
<1> HIDE DEF k
<1>8. CallOK(k) /\ (Guarded => FreshCall(k))
  BY <1>2, <1>5, <1>6, <1>7, KeptFacts DEF CallOK, FreshCall
<1>9. DocumentsDispatchPlain'
  <2>1. Getter(value) \in PlainTexts
    BY <1>5, <1>6, InvFacts, ReadFacts DEF Guarded
  <2> QED
    BY <1>1, <2>1, InvFacts, DispatchFacts
<1> QED
  BY <1>1, <1>7, <1>8, <1>9, InvFacts, SameEnvirons, StepOfCall

LEMMA SaveAppliedKeepsInv == \A c \in Clients : Inv /\ SaveApplied(c) => Inv'
<1> SUFFICES ASSUME NEW c \in Clients, Inv, SaveApplied(c) PROVE Inv'
  OBVIOUS
<1> DEFINE old == client[c]
           k == [old EXCEPT !.pc = "saved", !.isNew = FALSE, !.modified = FALSE]
           w == old.value # old.snapshot \/ old.snapshot.seals # << >>
<1>1. /\ client' = [client EXCEPT ![c] = k] /\ old.pc = "saving" /\ Store(old.doc, old.value, w)
      /\ UNCHANGED <<deployed, env, status, leaks, spent>>
  BY DEF SaveApplied
<1>2. old \in Calls /\ CallOK(old) /\ (Guarded => FreshCall(old))
  BY InvFacts
<1>3. old.value \in Kept /\ old.doc \in Docs /\ (old.value \in SealedTexts \/ old.value = old.snapshot)
  BY <1>1, <1>2 DEF CallOK, Kept
<1>4. w => old.value \in SealedTexts
  BY <1>3, KeptFacts DEF Kept
<1>5. w \in BOOLEAN
  OBVIOUS
<1> HIDE DEF old, w
<1>6. k \in Calls /\ k.pc = "saved" /\ k.doc = old.doc /\ k.value = old.value /\ k.snapshot = old.snapshot
      /\ ~k.isNew /\ ~k.modified
  BY <1>2 DEF Calls
<1> HIDE DEF k
<1>7. CallOK(k) /\ (Guarded => FreshCall(k))
  BY <1>2, <1>3, <1>6, KeptFacts DEF CallOK, FreshCall
<1>8. Environs'
  BY <1>1, <1>2, <1>3, <1>4, <1>5, InvFacts, StoreKeeps DEF FreshCall
<1>9. DocumentsDispatchPlain'
  BY <1>1, InvFacts DEF DocumentsDispatchPlain
<1> QED
  BY <1>1, <1>6, <1>7, <1>8, <1>9, InvFacts, StepOfCall

LEMMA SaveFailsKeepsInv == CarefulUse => \A c \in Clients : Inv /\ SaveFails(c) => Inv'
<1> SUFFICES ASSUME CarefulUse, NEW c \in Clients, Inv, SaveFails(c) PROVE Inv'
  OBVIOUS
<1>1. client' = [client EXCEPT ![c] = Idle] /\ UNCHANGED <<db, deployed, env, rotation, status, leaks, raw>>
  BY DEF SaveFails, CarefulUse
<1> QED
  BY <1>1, IdleFacts, InvFacts, SameEnvirons, StepOfCall DEF DocumentsDispatchPlain

LEMMA PostSaveKeepsInv == \A c \in Clients : Inv /\ PostSave(c) => Inv'
<1> SUFFICES ASSUME NEW c \in Clients, Inv, PostSave(c) PROVE Inv'
  OBVIOUS
<1> DEFINE old == client[c]
           k == [old EXCEPT !.pc = "held"]
           stored == IF db[old.doc] # Nothing THEN db[old.doc] ELSE old.value
<1>1. /\ client' = [client EXCEPT ![c] = k] /\ old.pc = "saved" /\ Dispatch("save", Getter(stored))
      /\ UNCHANGED <<db, deployed, env, rotation, status, raw, spent>>
  BY DEF PostSave
<1>2. old \in Calls /\ CallOK(old) /\ (Guarded => FreshCall(old))
  BY InvFacts
<1>3. old.value \in Kept /\ old.value # Nothing /\ old.doc \in Docs /\ ~old.isNew /\ ~old.modified
  BY <1>1, <1>2 DEF CallOK
<1>4. stored \in Kept /\ (Key("v0") \in env \/ stored \notin OldTexts)
  BY <1>2, <1>3, InvFacts DEF FreshCall, Guarded
<1> HIDE DEF old, stored
<1>5. k \in Calls /\ k.pc = "held" /\ k.doc = old.doc /\ k.value = old.value /\ k.snapshot = old.snapshot
      /\ ~k.isNew /\ ~k.modified
  BY <1>2, <1>3 DEF Calls
<1> HIDE DEF k
<1>6. CallOK(k) /\ (Guarded => FreshCall(k))
  BY <1>2, <1>3, <1>5 DEF CallOK, FreshCall
<1>7. DocumentsDispatchPlain'
  <2>1. Getter(stored) \in PlainTexts
    BY <1>4, InvFacts, ReadFacts
  <2> QED
    BY <1>1, <2>1, InvFacts, DispatchFacts
<1> QED
  BY <1>1, <1>5, <1>6, <1>7, InvFacts, SameEnvirons, StepOfCall

LEMMA LetGoKeepsInv == \A c \in Clients : Inv /\ LetGo(c) => Inv'
<1> SUFFICES ASSUME NEW c \in Clients, Inv, LetGo(c) PROVE Inv'
  OBVIOUS
<1>1. client' = [client EXCEPT ![c] = Idle] /\ UNCHANGED <<db, deployed, env, rotation, status, leaks, raw>>
  BY DEF LetGo
<1> QED
  BY <1>1, IdleFacts, InvFacts, SameEnvirons, StepOfCall DEF DocumentsDispatchPlain

\* A query begins, with a value of its own.
LEMMA QueryBegins ==
  ASSUME Inv, NEW c \in Clients, NEW d \in Docs, NEW v \in Kept \cup PlainTexts,
         NEW pc \in {"updating", "updatingRaw", "deleting", "upserting"},
         pc \in {"updating", "upserting"} => v \in SealedTexts,
         pc = "updatingRaw" => v \in RawTexts,
         pc = "deleting" => v \in PlainTexts,
         Guarded => v \notin OldTexts,
         Call(c, [Idle EXCEPT !.pc = pc, !.doc = d, !.value = v]),
         UNCHANGED <<db, deployed, env, rotation, status, raw>>, DocumentsDispatchPlain'
  PROVE  Inv'
<1> DEFINE none == Idle
<1>1. none \in Calls /\ none.snapshot = Nothing
  BY IdleFacts
<1>2. client' = [client EXCEPT ![c] = [none EXCEPT !.pc = pc, !.doc = d, !.value = v]]
  BY DEF Call
<1>3. v # Nothing /\ v \in {Nothing} \cup Kept \cup PlainTexts
  BY KeptFacts
<1>4. pc \in {"idle", "held", "saving", "saved", "updating", "updatingRaw", "deleting", "upserting", "waiting"}
  OBVIOUS
<1> HIDE DEF none
<1> DEFINE k == [none EXCEPT !.pc = pc, !.doc = d, !.value = v]
<1>5. k \in Calls /\ k.pc = pc /\ k.doc = d /\ k.value = v /\ k.snapshot = Nothing
  BY <1>1, <1>3, <1>4 DEF Calls
<1>6. client' = [client EXCEPT ![c] = k]
  BY <1>2
<1> HIDE DEF k
<1>7. CallOK(k) /\ (Guarded => FreshCall(k))
  BY <1>3, <1>5, KeptFacts DEF CallOK, FreshCall
<1> QED
  BY <1>5, <1>6, <1>7, InvFacts, SameEnvirons, StepOfCall

\* A call ends, or waits.
LEMMA QueryEnds ==
  ASSUME Inv, NEW c \in Clients, UNCHANGED <<env, status>>, Environs', DocumentsDispatchPlain',
         client' = [client EXCEPT ![c] = Idle] \/ client' = [client EXCEPT ![c] = [Idle EXCEPT !.pc = "waiting"]]
  PROVE  Inv'
<1> DEFINE none == Idle
           k == [none EXCEPT !.pc = "waiting"]
<1>1. none \in Calls /\ CallOK(none) /\ FreshCall(none) /\ none.value = Nothing /\ none.snapshot = Nothing
  BY IdleFacts
<1>2. CASE client' = [client EXCEPT ![c] = none]
  BY <1>1, <1>2, StepOfCall
<1>3. CASE client' = [client EXCEPT ![c] = k]
  <2> HIDE DEF none
  <2>1. k \in Calls /\ k.pc = "waiting" /\ k.value = none.value /\ k.snapshot = none.snapshot
    BY <1>1 DEF Calls
  <2> HIDE DEF k
  <2>2. CallOK(k) /\ FreshCall(k)
    BY <1>1, <2>1 DEF CallOK, FreshCall
  <2> QED
    BY <1>3, <2>1, <2>2, StepOfCall
<1> QED
  BY <1>2, <1>3

LEMMA PreUpdateKeepsInv == \A c \in Clients : Inv /\ PreUpdate(c) => Inv'
<1> SUFFICES ASSUME NEW c \in Clients, Inv, PreUpdate(c) PROVE Inv'
  OBVIOUS
<1>1. PICK d \in Docs, p \in Plains, w \in BOOLEAN :
        LET value == IF w THEN Setter(c, PlainText(p)) ELSE PlainText(p) IN
        /\ w \/ p \notin WithColon
        /\ Call(c, [Idle EXCEPT !.pc = IF w THEN "updating" ELSE "updatingRaw", !.doc = d, !.value = value])
        /\ Dispatch("update", value)
  BY DEF PreUpdate
<1> DEFINE v == IF w THEN Setter(c, PlainText(p)) ELSE PlainText(p)
           pc == IF w THEN "updating" ELSE "updatingRaw"
<1>2. PlainText(p) \in PlainTexts /\ (p \notin WithColon => PlainText(p) \in RawTexts)
  BY DEF PlainTexts, RawTexts
<1>3. (v \in SealedTexts /\ pc = "updating") \/ (v \in RawTexts /\ pc = "updatingRaw")
  BY <1>1, <1>2, InvFacts, Sets
<1>4. v \in Kept /\ (Guarded => v \notin OldTexts)
  BY <1>1, <1>2, InvFacts, Sets, KeptFacts DEF Kept
<1>5. /\ Call(c, [Idle EXCEPT !.pc = pc, !.doc = d, !.value = v]) /\ Dispatch("update", v)
      /\ UNCHANGED <<db, deployed, env, rotation, status, raw>>
  BY <1>1 DEF PreUpdate
<1> HIDE DEF v, pc
<1>6. DocumentsDispatchPlain'
  BY <1>5, InvFacts, DispatchFacts
<1> QED
  BY <1>3, <1>4, <1>5, <1>6, QueryBegins

LEMMA UpdateAppliedKeepsInv == \A c \in Clients : Inv /\ UpdateApplied(c) => Inv'
<1> SUFFICES ASSUME NEW c \in Clients, Inv, UpdateApplied(c) PROVE Inv'
  OBVIOUS
<1> DEFINE k == client[c]
           w == k.pc = "updating"
<1>1. /\ k.pc \in {"updating", "updatingRaw"} /\ Dispatch("update", k.value)
      /\ client' = [client EXCEPT ![c] = Idle] /\ UNCHANGED <<deployed, env, status, spent>>
      /\ Store(k.doc, k.value, w) \/ UNCHANGED <<db, rotation, raw>>
  BY DEF UpdateApplied
<1>2. /\ k.doc \in Docs /\ k.value \in Kept /\ (w => k.value \in SealedTexts) /\ w \in BOOLEAN
      /\ Guarded => k.value \notin OldTexts
  BY <1>1, InvFacts DEF CallOK, FreshCall, Kept
<1> HIDE DEF k, w
<1>3. Environs'
  BY <1>1, <1>2, InvFacts, StoreKeeps, SameEnvirons
<1>4. DocumentsDispatchPlain'
  BY <1>1, InvFacts, DispatchFacts
<1> QED
  BY <1>1, <1>3, <1>4, QueryEnds

LEMMA PreDeleteKeepsInv == \A c \in Clients : Inv /\ PreDelete(c) => Inv'
<1> SUFFICES ASSUME NEW c \in Clients, Inv, PreDelete(c) PROVE Inv'
  OBVIOUS
<1>1. PICK d \in Docs :
        /\ db[d] # Nothing /\ Dispatch("delete", Getter(db[d]))
        /\ Call(c, [Idle EXCEPT !.pc = "deleting", !.doc = d, !.value = Getter(db[d])])
  BY DEF PreDelete
<1>2. UNCHANGED <<db, deployed, env, rotation, status, raw>>
  BY DEF PreDelete
<1> DEFINE v == Getter(db[d])
<1>3. v \in PlainTexts
  BY <1>1, InvFacts, ReadFacts
<1>4. Call(c, [Idle EXCEPT !.pc = "deleting", !.doc = d, !.value = v]) /\ Dispatch("delete", v)
  BY <1>1
<1> HIDE DEF v
<1>5. v \notin OldTexts
  BY <1>3, KeptFacts
<1>6. DocumentsDispatchPlain'
  BY <1>3, <1>4, InvFacts, DispatchFacts
<1> QED
  BY <1>2, <1>3, <1>4, <1>5, <1>6, QueryBegins

LEMMA DeleteAppliedKeepsInv == \A c \in Clients : Inv /\ DeleteApplied(c) => Inv'
<1> SUFFICES ASSUME NEW c \in Clients, Inv, DeleteApplied(c) PROVE Inv'
  OBVIOUS
<1> DEFINE k == client[c]
<1>1. /\ k.pc = "deleting" /\ db' = [db EXCEPT ![k.doc] = Nothing] /\ Dispatch("delete", k.value)
      /\ client' = [client EXCEPT ![c] = Idle] /\ UNCHANGED <<deployed, env, rotation, status, raw, spent>>
  BY DEF DeleteApplied
<1>2. k.doc \in Docs /\ k.value \in PlainTexts
  BY <1>1, InvFacts DEF CallOK
<1> HIDE DEF k
<1>3. Environs'
  BY <1>1, <1>2, InvFacts, RemoveKeeps
<1>4. DocumentsDispatchPlain'
  BY <1>1, <1>2, InvFacts, DispatchFacts
<1> QED
  BY <1>1, <1>3, <1>4, QueryEnds

LEMMA UpsertByIdKeepsInv == \A c \in Clients : Inv /\ UpsertById(c) => Inv'
<1> SUFFICES ASSUME NEW c \in Clients, Inv, UpsertById(c) PROVE Inv'
  OBVIOUS
<1>1. PICK d \in Docs, p \in Plains :
        Call(c, [Idle EXCEPT !.pc = "upserting", !.doc = d, !.value = Setter(c, PlainText(p))])
  BY DEF UpsertById
<1>2. UNCHANGED <<db, deployed, env, rotation, status, leaks, raw>>
  BY DEF UpsertById
<1> DEFINE v == Setter(c, PlainText(p))
<1>3. v \in SealedTexts /\ (Guarded => v \notin OldTexts)
  <2>1. PlainText(p) \in PlainTexts
    BY DEF PlainTexts
  <2> QED
    BY <2>1, InvFacts, Sets
<1>4. v \in Kept /\ DocumentsDispatchPlain'
  BY <1>2, <1>3, InvFacts DEF Kept, DocumentsDispatchPlain
<1> HIDE DEF v
<1> QED
  BY <1>1, <1>2, <1>3, <1>4, QueryBegins DEF v

LEMMA UpsertAppliedKeepsInv == \A c \in Clients : Inv /\ UpsertApplied(c) => Inv'
<1> SUFFICES ASSUME NEW c \in Clients, Inv, UpsertApplied(c) PROVE Inv'
  OBVIOUS
<1> DEFINE k == client[c]
<1>1. /\ k.pc = "upserting" /\ client' = [client EXCEPT ![c] = Idle] /\ UNCHANGED <<deployed, env, status, leaks, spent>>
      /\ Store(k.doc, k.value, TRUE) \/ UNCHANGED <<db, rotation, raw>>
  BY DEF UpsertApplied
<1>2. k.doc \in Docs /\ k.value \in Kept /\ k.value \in SealedTexts /\ (Guarded => k.value \notin OldTexts)
  BY <1>1, InvFacts DEF CallOK, FreshCall, Kept
<1> HIDE DEF k
<1>3. Environs'
  BY <1>1, <1>2, InvFacts, StoreKeeps, SameEnvirons
<1>4. DocumentsDispatchPlain'
  BY <1>1, InvFacts DEF DocumentsDispatchPlain
<1> QED
  BY <1>1, <1>3, <1>4, QueryEnds

LEMMA QueryFailsKeepsInv == \A c \in Clients : Inv /\ QueryFails(c) => Inv'
<1> SUFFICES ASSUME NEW c \in Clients, Inv, QueryFails(c) PROVE Inv'
  OBVIOUS
<1>1. UNCHANGED <<db, deployed, env, rotation, status, leaks, raw>>
  BY DEF QueryFails
<1>2. client' = [client EXCEPT ![c] = Idle] \/ client' = [client EXCEPT ![c] = [Idle EXCEPT !.pc = "waiting"]]
  BY DEF QueryFails
<1>3. Environs' /\ DocumentsDispatchPlain'
  BY <1>1, InvFacts, SameEnvirons DEF DocumentsDispatchPlain
<1> QED
  BY <1>1, <1>2, <1>3, QueryEnds

LEMMA UpgradeKeepsInv == \A c \in Clients : Inv /\ Upgrade(c) => Inv'
<1> SUFFICES ASSUME NEW c \in Clients, Inv, Upgrade(c) PROVE Inv'
  OBVIOUS
<1>1. /\ client' = [client EXCEPT ![c] = Idle] /\ deployed' = [deployed EXCEPT ![c] = "v1"] /\ deployed[c] = "v0"
      /\ UNCHANGED <<db, env, rotation, status, leaks, raw>>
  BY DEF Upgrade
<1>2. Deployment'
  BY <1>1, InvFacts DEF Deployment, Guarded, Versions
<1>3. Database' /\ Rotating' /\ Checking' /\ DocumentsDispatchPlain'
  BY <1>1, InvFacts DEF Environs, Database, Rotating, Checking, DocumentsDispatchPlain
<1> QED
  BY <1>1, <1>2, <1>3, QueryEnds DEF Environs

-----------------------------------------------------------------------------
\* A step of the rotation or of the check leaves the clients alone.
LEMMA StepOfRun ==
  ASSUME Inv, UNCHANGED <<client, leaks>>, Environs', Guarded' => Guarded
  PROVE  Inv'
BY DEF Inv, Environs, ClientsOK, DocumentsDispatchPlain

LEMMA RunFacts ==
  ASSUME Inv
  PROVE  /\ rotation \in Run /\ Database /\ Checking /\ Deployment
         /\ rotation.todo \cup rotation.failed \subseteq DOMAIN rotation.read
         /\ DOMAIN rotation.read \subseteq Docs /\ rotation.read \in [DOMAIN rotation.read -> Kept \cup PlainTexts]
         /\ rotation.pc \in {"none", "done", "waiting"} => DOMAIN rotation.read = {}
         /\ \A d \in DOMAIN rotation.read :
              /\ rotation.pc = "reading" => rotation.read[d] \in PlainTexts
              /\ rotation.pc = "writing" => rotation.read[d] \in SealedTexts \ OldTexts
              /\ d \notin rotation.dirty /\ db[d] # Nothing => db[d].plain = rotation.read[d].plain
         /\ rotation.pc \in {"none", "reading", "writing"} => Key("v0") \in env /\ status.pc = "none"
         /\ Cardinality(Docs) \in Nat /\ Retries \in Nat /\ BatchSize \in Nat
<1>1. rotation \in Run
  BY DEF Inv, Rotating
<1>2. DOMAIN rotation.read \subseteq Docs /\ rotation.read \in [DOMAIN rotation.read -> Kept \cup PlainTexts]
  BY <1>1 DEF Run, Reads
<1>3. rotation.pc \in {"none", "reading", "writing"} => Key("v0") \in env /\ status.pc = "none"
  BY DEF Inv, Deployment, Guarded
<1>4. Cardinality(Docs) \in Nat /\ Retries \in Nat /\ BatchSize \in Nat
  BY FS_CardinalityType, DocumentConstants
<1> QED
  BY <1>1, <1>2, <1>3, <1>4 DEF Inv, Rotating

\* A run of the rotation that is over, or has not begun.
LEMMA NoRun ==
  ASSUME NEW pc \in {"none", "reading", "writing", "done", "waiting"}
  PROVE  LET r == [NoRotation EXCEPT !.pc = pc] IN
         /\ r \in Run /\ r.pc = pc /\ DOMAIN r.read = {} /\ r.todo = {} /\ r.failed = {}
<1> DEFINE read == [d \in {} |-> Nothing]
           none == NoRotation
           r == [none EXCEPT !.pc = pc]
<1>1. read \in [{} -> Kept \cup PlainTexts] /\ DOMAIN read = {}
  OBVIOUS
<1>2. read \in Reads
  BY <1>1 DEF Reads
<1>3. r = [pc |-> pc, unread |-> {}, limit |-> 0, read |-> read, todo |-> {}, failed |-> {},
           attempt |-> 0, dirty |-> {}, written |-> {}]
  <2>1. none = [pc |-> "none", unread |-> {}, limit |-> 0, read |-> read, todo |-> {}, failed |-> {},
                attempt |-> 0, dirty |-> {}, written |-> {}]
    BY DEF NoRotation
  <2> HIDE DEF read, none
  <2> QED
    BY <2>1
<1> HIDE DEF read, r
<1>4. 0 \in 0 .. Retries
  BY DocumentConstants
<1>5. r \in Run
  BY <1>2, <1>3, <1>4 DEF Run
<1>6. r.pc = pc /\ DOMAIN r.read = {} /\ r.todo = {} /\ r.failed = {}
  BY <1>1, <1>3
<1> QED
  BY <1>5, <1>6 DEF r, none

\* The rotation changes its own state.
LEMMA StepOfRotation ==
  ASSUME Inv, UNCHANGED <<db, deployed, env, client, status, leaks, raw>>, Rotating',
         rotation.pc \in {"none", "reading", "writing"}
  PROVE  Inv'
<1>1. Deployment'
  BY RunFacts DEF Deployment, Guarded
<1>2. Database' /\ Checking' /\ (Guarded' => Guarded)
  BY RunFacts DEF Database, Checking, Guarded
<1> QED
  BY <1>1, <1>2, StepOfRun DEF Environs

LEMMA RotateStartKeepsInv == Inv /\ RotateStart => Inv'
<1> SUFFICES ASSUME Inv, RotateStart PROVE Inv'
  OBVIOUS
<1> DEFINE old == rotation
<1>1. PICK mode \in Modes :
        rotation' = IF mode = "find" THEN [old EXCEPT !.pc = "done"]
                    ELSE [old EXCEPT !.pc = "reading", !.unread = Docs,
                            !.limit = IF mode = "batch" THEN BatchSize ELSE Cardinality(Docs)]
  BY DEF RotateStart
<1>2. old \in Run /\ old.pc = "none" /\ DOMAIN old.read = {} /\ old.todo \cup old.failed \subseteq DOMAIN old.read
  BY RunFacts DEF RotateStart
<1> DEFINE limit == IF mode = "batch" THEN BatchSize ELSE Cardinality(Docs)
<1>3. limit \in Nat
  BY RunFacts
<1> HIDE DEF old, limit
<1>4. \/ rotation' = [old EXCEPT !.pc = "done"]
      \/ rotation' = [old EXCEPT !.pc = "reading", !.unread = Docs, !.limit = limit]
  BY <1>1 DEF limit
<1>5. rotation' \in Run /\ rotation'.read = old.read /\ rotation'.todo = old.todo /\ rotation'.failed = old.failed
  BY <1>2, <1>3, <1>4 DEF Run
<1>6. Rotating'
  BY <1>2, <1>5 DEF Rotating
<1> QED
  BY <1>2, <1>6, StepOfRotation DEF RotateStart, old

LEMMA RotateReadKeepsInv == Inv /\ RotateRead => Inv'
<1> SUFFICES ASSUME Inv, RotateRead PROVE Inv'
  OBVIOUS
<1> DEFINE old == rotation
<1>1. PICK d \in old.unread :
         rotation' = [old EXCEPT
           !.unread = @ \ {d},
           !.read = IF db[d] = Nothing THEN @
                    ELSE [e \in DOMAIN @ \cup {d} |-> IF e = d THEN Getter(db[d]) ELSE @[e]],
           !.limit = IF db[d] = Nothing THEN @ ELSE @ - 1,
           !.dirty = @ \ {d}]
  BY DEF RotateRead
<1> DEFINE read == IF db[d] = Nothing THEN old.read
                   ELSE [e \in DOMAIN old.read \cup {d} |-> IF e = d THEN Getter(db[d]) ELSE old.read[e]]
           limit == IF db[d] = Nothing THEN old.limit ELSE old.limit - 1
<1>2. /\ old \in Run /\ old.pc = "reading" /\ old.limit > 0 /\ d \in Docs /\ Key("v0") \in env
      /\ old.todo \cup old.failed \subseteq DOMAIN old.read
  BY RunFacts DEF RotateRead, Run
<1>3. limit \in Nat
  BY <1>2 DEF Run
<1>4. /\ DOMAIN old.read \subseteq Docs /\ old.read \in [DOMAIN old.read -> Kept \cup PlainTexts]
      /\ \A e \in DOMAIN old.read :
           /\ old.read[e] \in PlainTexts
           /\ e \notin old.dirty /\ db[e] # Nothing => db[e].plain = old.read[e].plain
  BY <1>2, RunFacts
<1>5. db[d] # Nothing => Getter(db[d]) \in PlainTexts /\ Getter(db[d]).plain = db[d].plain
  <2> SUFFICES ASSUME db[d] # Nothing
               PROVE  Getter(db[d]) \in PlainTexts /\ Getter(db[d]).plain = db[d].plain
    OBVIOUS
  <2>1. db[d] \in Kept /\ Key("v1") \in env
    BY <1>2, RunFacts DEF Database, Deployment
  <2>2. Getter(db[d]) \in PlainTexts /\ Getter(db[d]) = PlainText(db[d].plain) /\ db[d].plain \in Plains
    BY <1>2, <2>1, ReadFacts
  <2> QED
    BY <2>2, TextFacts DEF Versions
<1>6. /\ DOMAIN old.read \subseteq DOMAIN read /\ DOMAIN read \subseteq Docs
      /\ read \in [DOMAIN read -> Kept \cup PlainTexts]
      /\ \A e \in DOMAIN read :
           /\ read[e] \in PlainTexts
           /\ e \notin old.dirty \ {d} /\ db[e] # Nothing => db[e].plain = read[e].plain
  <2>1. CASE db[d] = Nothing
    BY <1>4, <2>1
  <2>2. CASE db[d] # Nothing
    <3>1. /\ DOMAIN read = DOMAIN old.read \cup {d}
          /\ \A e \in DOMAIN read : read[e] = IF e = d THEN Getter(db[d]) ELSE old.read[e]
          /\ read = [e \in DOMAIN old.read \cup {d} |-> IF e = d THEN Getter(db[d]) ELSE old.read[e]]
      BY <2>2
    <3> HIDE DEF read
    <3>2. \A e \in DOMAIN read :
           /\ read[e] \in PlainTexts
           /\ e \notin old.dirty \ {d} /\ db[e] # Nothing => db[e].plain = read[e].plain
      BY <1>4, <1>5, <2>2, <3>1
    <3> QED
      BY <1>2, <1>4, <3>1, <3>2
  <2> QED
    BY <2>1, <2>2
<1>7. rotation' = [old EXCEPT !.unread = @ \ {d}, !.read = read, !.limit = limit, !.dirty = @ \ {d}]
  BY <1>1
<1> HIDE DEF old, read, limit
<1>8. read \in Reads
  BY <1>6 DEF Reads
<1>9. /\ rotation' \in Run /\ rotation'.pc = "reading" /\ rotation'.read = read /\ rotation'.todo = old.todo
      /\ rotation'.failed = old.failed /\ rotation'.dirty = old.dirty \ {d}
  BY <1>2, <1>3, <1>7, <1>8 DEF Run
<1>10. UNCHANGED <<db, deployed, env, client, status, leaks, raw>>
  BY DEF RotateRead
<1>11. Rotating'
  BY <1>2, <1>6, <1>9, <1>10 DEF Rotating
<1> QED
  BY <1>2, <1>10, <1>11, StepOfRotation DEF old

LEMMA RotateSendKeepsInv == Inv /\ RotateSend => Inv'
<1> SUFFICES ASSUME Inv, RotateSend PROVE Inv'
  OBVIOUS
<1> DEFINE old == rotation
           read == [d \in DOMAIN old.read |-> Protect(Policy("v1"), old.read[d], env)]
<1>1. /\ old \in Run /\ old.pc = "reading" /\ Key("v1") \in env
      /\ old.todo \cup old.failed \subseteq DOMAIN old.read /\ DOMAIN old.read \subseteq Docs
      /\ UNCHANGED <<db, deployed, env, client, status, leaks, raw>>
  BY RunFacts DEF RotateSend, Deployment
<1>2. \/ rotation' = [NoRotation EXCEPT !.pc = "done"]
      \/ rotation' = [old EXCEPT !.pc = "writing", !.read = read, !.todo = DOMAIN old.read]
  BY DEF RotateSend
<1>3. CASE rotation' = [NoRotation EXCEPT !.pc = "done"]
  <2>1. Rotating'
    BY <1>3, NoRun DEF Rotating
  <2> QED
    BY <1>1, <2>1, StepOfRotation
<1>4. CASE rotation' = [old EXCEPT !.pc = "writing", !.read = read, !.todo = DOMAIN old.read]
  <2>1. \A d \in DOMAIN old.read :
          /\ old.read[d] \in PlainTexts
          /\ d \notin old.dirty /\ db[d] # Nothing => db[d].plain = old.read[d].plain
    BY <1>1, RunFacts
  <2>2. DOMAIN read = DOMAIN old.read
    OBVIOUS
  <2>3. ASSUME NEW d \in DOMAIN old.read
        PROVE  read[d] \in SealedTexts \ OldTexts /\ read[d].plain = old.read[d].plain
    <3>1. PICK p \in Plains : old.read[d] = PlainText(p)
      BY <2>1 DEF PlainTexts
    <3>2. read[d] = Encrypted(p, "v1")
      BY <1>1, <3>1, SetterFacts DEF Versions
    <3>3. PlainText(p).plain = p /\ Encrypted(p, "v1").plain = p
      BY TextFacts DEF Versions
    <3>4. \A q \in Plains : Encrypted(q, "v0") # Encrypted(p, "v1")
      BY TextFacts DEF Versions
    <3> QED
      BY <3>1, <3>2, <3>3, <3>4 DEF SealedTexts, OldTexts, Versions
  <2>4. read \in [DOMAIN old.read -> Kept \cup PlainTexts]
    <3>1. \A d \in DOMAIN old.read : read[d] \in Kept \cup PlainTexts
      BY <2>3 DEF Kept
    <3> QED
      BY <3>1
  <2>5. DOMAIN old.read \in SUBSET Docs
    BY <1>1
  <2>6. read \in Reads
    BY <2>4, <2>5 DEF Reads
  <2> HIDE DEF old, read
  <2>7. /\ rotation' \in Run /\ rotation'.pc = "writing" /\ rotation'.read = read /\ rotation'.todo = DOMAIN old.read
        /\ rotation'.failed = old.failed /\ rotation'.dirty = old.dirty
    BY <1>1, <1>4, <2>5, <2>6 DEF Run
  <2>8. Rotating'
    BY <1>1, <2>1, <2>2, <2>3, <2>7 DEF Rotating
  <2> QED
    BY <1>1, <2>8, StepOfRotation DEF old
<1> QED
  BY <1>2, <1>3, <1>4

LEMMA RotateWriteKeepsInv == Inv /\ RotateWrite => Inv'
<1> SUFFICES ASSUME Inv, RotateWrite PROVE Inv'
  OBVIOUS
<1> DEFINE old == rotation
<1>1. PICK d \in old.todo :
         /\ db' = [db EXCEPT ![d] = IF @ = Nothing THEN Nothing ELSE old.read[d]]
         /\ rotation' = [old EXCEPT !.todo = @ \ {d}, !.written = @ \cup {d}]
         /\ raw' = raw \ {d}
  BY DEF RotateWrite
<1>2. /\ old \in Run /\ old.pc = "writing" /\ d \in Docs /\ d \in DOMAIN old.read
      /\ Key("v0") \in env /\ status.pc = "none"
      /\ old.todo \cup old.failed \subseteq DOMAIN old.read /\ DOMAIN old.read \subseteq Docs
      /\ UNCHANGED <<deployed, env, client, status, leaks>>
  BY RunFacts DEF RotateWrite
<1>3. \A e \in DOMAIN old.read :
        /\ old.read[e] \in SealedTexts \ OldTexts
        /\ e \notin old.dirty /\ db[e] # Nothing => db[e].plain = old.read[e].plain
  BY <1>2, RunFacts
<1>4. db \in [Docs -> {Nothing} \cup Kept] /\ raw \subseteq Docs /\ \A e \in Docs : e \notin raw => db[e] \notin RawTexts
  BY RunFacts DEF Database
<1>5. \A e \in Docs : db'[e] = IF e # d \/ db[e] = Nothing THEN db[e] ELSE old.read[d]
  BY <1>1, <1>2, <1>4
<1>6. db' \in [Docs -> {Nothing} \cup Kept]
  <2>1. old.read[d] \in Kept
    BY <1>2, <1>3 DEF Kept
  <2> HIDE DEF old
  <2> QED
    BY <1>1, <1>2, <1>4, <2>1
<1> HIDE DEF old
<1>7. /\ rotation' \in Run /\ rotation'.pc = "writing" /\ rotation'.read = old.read /\ rotation'.todo \subseteq old.todo
      /\ rotation'.failed = old.failed /\ rotation'.dirty = old.dirty
  BY <1>1, <1>2 DEF Run
<1>8. Rotating'
  <2>1. \A e \in DOMAIN old.read : e \notin old.dirty /\ db'[e] # Nothing => db'[e].plain = old.read[e].plain
    BY <1>2, <1>3, <1>5
  <2> QED
    BY <1>2, <1>3, <1>7, <2>1 DEF Rotating
<1>9. Database'
  <2>1. raw' \subseteq Docs /\ \A e \in Docs : e \notin raw' => e = d \/ e \notin raw
    BY <1>1, <1>4
  <2>2. db'[d] \notin RawTexts
    BY <1>2, <1>3, <1>5, KeptFacts DEF Kept
  <2>3. \A e \in Docs \ {d} : db'[e] = db[e]
    BY <1>5
  <2> QED
    BY <1>2, <1>4, <1>6, <2>1, <2>2, <2>3 DEF Database
<1>10. Deployment' /\ (Guarded' => Guarded)
  BY <1>2, <1>7, RunFacts DEF Deployment, Guarded
<1>11. Checking'
  BY <1>2, RunFacts DEF Checking
<1> QED
  BY <1>2, <1>8, <1>9, <1>10, <1>11, StepOfRun DEF Environs

LEMMA RotateWriteFailsKeepsInv == Inv /\ RotateWriteFails => Inv'
<1> SUFFICES ASSUME Inv, RotateWriteFails PROVE Inv'
  OBVIOUS
<1> DEFINE old == rotation
<1>1. PICK d \in old.todo : rotation' = [old EXCEPT !.todo = @ \ {d}, !.failed = @ \cup {d}]
  BY DEF RotateWriteFails
<1>2. /\ old \in Run /\ old.pc = "writing" /\ old.todo \cup old.failed \subseteq DOMAIN old.read
      /\ UNCHANGED <<db, deployed, env, client, status, leaks, raw>> /\ d \in Docs
      /\ \A e \in DOMAIN old.read :
           /\ old.read[e] \in SealedTexts \ OldTexts
           /\ e \notin old.dirty /\ db[e] # Nothing => db[e].plain = old.read[e].plain
  BY RunFacts DEF RotateWriteFails
<1> HIDE DEF old
<1>3. /\ rotation' \in Run /\ rotation'.pc = "writing" /\ rotation'.read = old.read /\ rotation'.todo \subseteq old.todo
      /\ rotation'.failed = old.failed \cup {d} /\ rotation'.dirty = old.dirty
  BY <1>1, <1>2 DEF Run
<1>4. Rotating'
  BY <1>1, <1>2, <1>3 DEF Rotating
<1> QED
  BY <1>2, <1>4, StepOfRotation DEF old

LEMMA RotateRetryKeepsInv == Inv /\ RotateRetry => Inv'
<1> SUFFICES ASSUME Inv, RotateRetry PROVE Inv'
  OBVIOUS
<1> DEFINE old == rotation
<1>1. /\ old \in Run /\ old.pc = "writing" /\ old.todo \cup old.failed \subseteq DOMAIN old.read
      /\ UNCHANGED <<db, deployed, env, client, status, leaks, raw>>
      /\ \A e \in DOMAIN old.read :
           /\ old.read[e] \in SealedTexts \ OldTexts
           /\ e \notin old.dirty /\ db[e] # Nothing => db[e].plain = old.read[e].plain
  BY RunFacts DEF RotateRetry
<1>2. CASE rotation' = [NoRotation EXCEPT !.pc = "done"] \/ rotation' = [NoRotation EXCEPT !.pc = "waiting"]
  <2>1. Rotating'
    BY <1>2, NoRun DEF Rotating
  <2> QED
    BY <1>1, <2>1, StepOfRotation
<1>3. CASE old.attempt < Retries /\ rotation' = [old EXCEPT !.todo = old.failed, !.failed = {}, !.attempt = @ + 1]
  <2> HIDE DEF old
  <2>1. old.attempt + 1 \in 0 .. Retries
    BY <1>1, <1>3, RunFacts DEF Run
  <2>2. /\ rotation' \in Run /\ rotation'.pc = "writing" /\ rotation'.read = old.read /\ rotation'.todo = old.failed
        /\ rotation'.failed = {} /\ rotation'.dirty = old.dirty
    BY <1>1, <1>3, <2>1 DEF Run
  <2>3. Rotating'
    BY <1>1, <2>2 DEF Rotating
  <2> QED
    BY <1>1, <2>3, StepOfRotation DEF old
<1> QED
  BY <1>2, <1>3 DEF RotateRetry

-----------------------------------------------------------------------------
\* The check.
LEMMA StatusFacts ==
  ASSUME Inv
  PROVE  /\ status \in [pc : {"none", "reading", "done"}, batch : {FALSE}, unread : SUBSET Docs, outdated : Nat]
         /\ status.outdated + Cardinality(status.unread) <= Cardinality(Docs) /\ Cardinality(Docs) \in Nat
         /\ Cardinality(status.unread) \in Nat
<1>1. status \in [pc : {"none", "reading", "done"}, batch : {FALSE}, unread : SUBSET Docs, outdated : Nat]
  BY DEF Inv, Checking
<1>2. status.unread \subseteq Docs
  BY <1>1
<1>3. Cardinality(status.unread) \in Nat /\ Cardinality(Docs) \in Nat
  BY <1>2, FS_Subset, FS_CardinalityType, DocumentConstants
<1> QED
  BY <1>1, <1>3 DEF Inv, Checking

LEMMA StatusStartKeepsInv == CarefulUse => (Inv /\ StatusStart => Inv')
<1> SUFFICES ASSUME CarefulUse, Inv, StatusStart PROVE Inv'
  OBVIOUS
<1>1. /\ status' = [pc |-> "reading", batch |-> FALSE, unread |-> Docs, outdated |-> 0]
      /\ UNCHANGED <<db, deployed, env, client, rotation, leaks, raw>>
  <2>1. PICK batch \in {"batch" \in Modes, FALSE} :
          status' = [pc |-> "reading", batch |-> batch, unread |-> Docs, outdated |-> 0]
    BY DEF StatusStart
  <2>2. ("batch" \in Modes) = FALSE
    BY DEF CarefulUse
  <2>3. batch = FALSE
    BY <2>2
  <2> QED
    BY <2>1, <2>3 DEF StatusStart
<1>2. rotation.pc \in {"done", "waiting"} /\ \A c \in Clients : deployed[c] = "v1" /\ client[c].pc = "idle"
  BY DEF StatusStart
<1>3. Deployment'
  BY <1>1, <1>2 DEF Inv, Deployment
<1>4. Checking'
  BY <1>1, RunFacts DEF Checking
<1>5. Database' /\ Rotating'
  BY <1>1 DEF Inv, Database, Rotating
<1>6. ClientsOK'
  <2>1. \A c \in Clients : FreshCall(client[c])
    BY <1>2, KeptFacts DEF Inv, ClientsOK, CallOK, FreshCall
  <2> QED
    BY <1>1, <2>1 DEF Inv, ClientsOK
<1> QED
  BY <1>1, <1>3, <1>4, <1>5, <1>6 DEF Inv, DocumentsDispatchPlain

\* What the check counts as outdated has everything of the old version.
LEMMA OldIsOutdated == \A t \in OldTexts : Outdated(t)
BY DEF OldTexts, Encrypted, Outdated, ExtractVersion

LEMMA StatusReadKeepsInv == Inv /\ StatusRead => Inv'
<1> SUFFICES ASSUME Inv, StatusRead PROVE Inv'
  OBVIOUS
<1> DEFINE old == status
<1>1. PICK d \in old.unread :
        status' = [old EXCEPT !.unread = @ \ {d},
                     !.outdated = IF db[d] # Nothing /\ Outdated(db[d]) THEN @ + 1 ELSE @]
  BY DEF StatusRead
<1>2. UNCHANGED <<db, deployed, env, client, rotation, leaks, raw>> /\ old.pc = "reading" /\ Inv
  BY DEF StatusRead
<1>3. /\ old \in [pc : {"none", "reading", "done"}, batch : {FALSE}, unread : SUBSET Docs, outdated : Nat]
      /\ old.outdated + Cardinality(old.unread) <= Cardinality(Docs) /\ Cardinality(Docs) \in Nat
      /\ Cardinality(old.unread) \in Nat
  BY StatusFacts
<1>4. old.outdated = 0 => \A o \in Docs \ old.unread : db[o] \notin OldTexts
  BY <1>2 DEF Inv, Checking
<1>5. IsFiniteSet(old.unread)
  BY <1>3, FS_Subset, DocumentConstants
<1> DEFINE outdated == IF db[d] # Nothing /\ Outdated(db[d]) THEN old.outdated + 1 ELSE old.outdated
<1>6. outdated \in Nat /\ outdated <= old.outdated + 1 /\ (outdated = 0 => old.outdated = 0)
  BY <1>3
<1>7. outdated = 0 => db[d] \notin OldTexts
  <2>1. Nothing \notin OldTexts
    BY KeptFacts
  <2>2. old.outdated + 1 # 0
    BY <1>3
  <2> QED
    BY <2>1, <2>2, OldIsOutdated
<1>8. Cardinality(old.unread \ {d}) = Cardinality(old.unread) - 1
  BY <1>5, FS_RemoveElement
<1>9. status' = [old EXCEPT !.unread = @ \ {d}, !.outdated = outdated]
  BY <1>1
<1>10. UNCHANGED <<deployed, env, rotation>> /\ (Guarded' => Guarded)
  BY <1>2 DEF Guarded
<1> HIDE DEF old, outdated
<1>11. /\ status' \in [pc : {"none", "reading", "done"}, batch : {FALSE}, unread : SUBSET Docs, outdated : Nat]
       /\ status'.pc = "reading" /\ status'.unread = old.unread \ {d} /\ status'.outdated = outdated
  BY <1>2, <1>3, <1>6, <1>9
<1>12. outdated + Cardinality(old.unread \ {d}) <= Cardinality(Docs)
  BY <1>3, <1>6, <1>8
<1>13. Checking'
  BY <1>2, <1>4, <1>6, <1>7, <1>11, <1>12 DEF Checking
<1>14. Deployment' /\ Database' /\ Rotating'
  BY <1>2, <1>10 DEF Inv, Deployment, Database, Rotating
<1> QED
  BY <1>2, <1>10, <1>13, <1>14, StepOfRun DEF Environs

LEMMA StatusDoneKeepsInv == Inv /\ StatusDone => Inv'
<1> SUFFICES ASSUME Inv, StatusDone PROVE Inv'
  OBVIOUS
<1> DEFINE old == status
<1>1. /\ status' = [old EXCEPT !.pc = "done"] /\ old.pc = "reading" /\ Inv
      /\ UNCHANGED <<db, deployed, env, client, rotation, leaks, raw>>
  BY DEF StatusDone
<1>2. /\ old \in [pc : {"none", "reading", "done"}, batch : {FALSE}, unread : SUBSET Docs, outdated : Nat]
      /\ old.outdated + Cardinality(old.unread) <= Cardinality(Docs)
  BY StatusFacts
<1>3. old.unread = {}
  BY <1>2 DEF StatusDone, BatchRead
<1>4. old.outdated = 0 => \A o \in Docs \ old.unread : db[o] \notin OldTexts
  BY <1>1 DEF Inv, Checking
<1>5. UNCHANGED <<deployed, env, rotation>> /\ (Guarded' => Guarded)
  BY <1>1 DEF Guarded
<1> HIDE DEF old
<1>6. /\ status' \in [pc : {"none", "reading", "done"}, batch : {FALSE}, unread : SUBSET Docs, outdated : Nat]
      /\ status'.unread = old.unread /\ status'.outdated = old.outdated
  BY <1>1, <1>2
<1>7. Checking'
  BY <1>1, <1>2, <1>3, <1>4, <1>6 DEF Checking
<1>8. Deployment' /\ Database' /\ Rotating'
  BY <1>1, <1>5 DEF Inv, Deployment, Database, Rotating
<1> QED
  BY <1>1, <1>5, <1>7, <1>8, StepOfRun DEF Environs

LEMMA RemoveOldKeyKeepsInv == Inv /\ RemoveOldKey => Inv'
<1> SUFFICES ASSUME Inv, RemoveOldKey PROVE Inv'
  OBVIOUS
<1>1. /\ status.pc = "done" /\ status.outdated = 0 /\ env' = env \ {Key("v0")}
      /\ UNCHANGED <<db, deployed, client, rotation, status, leaks, raw>>
  BY DEF RemoveOldKey
<1>2. \A d \in Docs : db[d] \notin OldTexts
  BY <1>1 DEF Inv, Checking
<1>3. Guarded
  BY <1>1 DEF Guarded
<1>4. Key("v0") # Key("v1")
  BY DEF Key
<1>5. Deployment'
  BY <1>1, <1>3, <1>4 DEF Inv, Deployment
<1>6. Database' /\ Rotating' /\ Checking'
  BY <1>1, <1>2 DEF Inv, Database, Rotating, Checking
<1> QED
  BY <1>1, <1>3, <1>5, <1>6, StepOfRun DEF Environs

-----------------------------------------------------------------------------
LEMMA InitInv == Init => Inv
<1> SUFFICES ASSUME Init PROVE Inv
  OBVIOUS
<1>1. /\ deployed = [c \in Clients |-> "v0"] /\ env = {Key("v0"), Key("v1")}
      /\ client = [c \in Clients |-> Idle] /\ rotation = NoRotation /\ status = NoStatus
      /\ leaks = {} /\ raw = {}
  BY DEF Init
<1>2. ~Guarded
  BY <1>1 DEF Guarded, NoStatus
<1>3. Deployment
  BY <1>1, <1>2 DEF Deployment, Versions
<1>4. Database
  <2> DEFINE p == CHOOSE p \in Plains : TRUE
             t == Protect(Policy("v0"), PlainText(p), {Key("v0")})
  <2>1. PICK ds \in SUBSET Docs : db = [d \in Docs |-> IF d \in ds THEN t ELSE Nothing]
    BY DEF Init
  <2>2. p \in Plains
    BY DocumentConstants
  <2> HIDE DEF p
  <2>3. t = Encrypted(p, "v0")
    BY <2>2, SetterFacts DEF Versions
  <2> HIDE DEF t
  <2>4. t \in SealedTexts
    BY <2>2, <2>3 DEF SealedTexts, Versions
  <2>5. t \in Kept /\ t \notin RawTexts /\ Nothing \notin RawTexts
    BY <2>4, KeptFacts DEF Kept
  <2>6. db \in [Docs -> {Nothing} \cup Kept] /\ \A d \in Docs : db[d] \in {t, Nothing}
    BY <2>1, <2>5
  <2> QED
    BY <1>1, <2>5, <2>6 DEF Database
<1>5. ClientsOK
  BY <1>1, <1>2, IdleFacts DEF ClientsOK
<1>6. Rotating
  <2>1. NoRotation = [NoRotation EXCEPT !.pc = "none"]
    BY DEF NoRotation
  <2> DEFINE r == [NoRotation EXCEPT !.pc = "none"]
  <2>2. r \in Run /\ r.pc = "none" /\ DOMAIN r.read = {} /\ r.todo = {} /\ r.failed = {}
    BY NoRun
  <2>3. rotation = r
    BY <1>1, <2>1
  <2> HIDE DEF r
  <2> QED
    BY <2>2, <2>3 DEF Rotating
<1>7. Checking
  <2>1. Cardinality({}) = 0 /\ Cardinality(Docs) \in Nat
    BY FS_EmptySet, FS_CardinalityType, DocumentConstants
  <2> QED
    BY <1>1, <2>1 DEF Checking, NoStatus
<1> QED
  BY <1>1, <1>3, <1>4, <1>5, <1>6, <1>7 DEF Inv, DocumentsDispatchPlain

LEMMA NextKeepsInv == CarefulUse => (Inv /\ [Next]_vars => Inv')
<1> SUFFICES ASSUME CarefulUse, Inv, [Next]_vars PROVE Inv'
  OBVIOUS
<1>1. ASSUME NEW c \in Clients, ClientStep(c) PROVE Inv'
  BY <1>1, NewKeepsInv, FindByIdKeepsInv, AssignKeepsInv, PreSaveKeepsInv, SaveAppliedKeepsInv,
     SaveFailsKeepsInv, PostSaveKeepsInv, LetGoKeepsInv, PreUpdateKeepsInv, UpdateAppliedKeepsInv,
     PreDeleteKeepsInv, DeleteAppliedKeepsInv, UpsertByIdKeepsInv, UpsertAppliedKeepsInv,
     QueryFailsKeepsInv, UpgradeKeepsInv DEF ClientStep
<1>2. CASE Rotate
  BY <1>2, RotateStartKeepsInv, RotateReadKeepsInv, RotateSendKeepsInv, RotateWriteKeepsInv,
     RotateWriteFailsKeepsInv, RotateRetryKeepsInv DEF Rotate
<1>3. CASE StatusStart \/ StatusRead \/ StatusDone \/ RemoveOldKey
  BY <1>3, StatusStartKeepsInv, StatusReadKeepsInv, StatusDoneKeepsInv, RemoveOldKeyKeepsInv
<1>4. CASE UNCHANGED vars
  BY <1>4 DEF vars, Inv, Deployment, Database, ClientsOK, Rotating, Checking, DocumentsDispatchPlain, Guarded
<1> QED
  BY <1>1, <1>2, <1>3, <1>4 DEF Next

\* In every reachable state, under careful use.
THEOREM DocumentsInvariant == CarefulUse => (Spec => []Inv)
<1> SUFFICES ASSUME CarefulUse PROVE Spec => []Inv
  OBVIOUS
<1>1. Init => Inv
  BY InitInv
<1>2. Inv /\ [Next]_vars => Inv'
  BY NextKeepsInv
<1> QED
  BY <1>1, <1>2, PTL DEF Spec

LEMMA InvImpliesReadable == Inv => ReadableAndSealedOnce
<1> SUFFICES ASSUME Inv PROVE ReadableAndSealedOnce
  OBVIOUS
<1>1. TypeOK
  <2>1. \A c \in Clients : client[c].doc \in Docs \cup {Nothing}
    BY DEF Inv, ClientsOK, Calls
  <2>2. /\ rotation.pc \in {"none", "reading", "writing", "done", "waiting"}
        /\ rotation.attempt \in 0 .. Retries /\ rotation.limit \in Nat
    BY DEF Inv, Rotating, Run
  <2>3. status.outdated \in 0 .. Cardinality(Docs)
    BY StatusFacts
  <2> QED
    BY <2>1, <2>2, <2>3 DEF TypeOK, Inv, Deployment, Database, DocumentsDispatchPlain
<1>2. \A d \in Docs : db[d] # Nothing => /\ db[d] \in Kept /\ IsPlain(Getter(db[d]))
                                         /\ (d \notin raw => db[d] \in SealedTexts)
  BY ReadFacts DEF Inv, Deployment, Database, Kept
<1>3. \A t \in Kept : Len(t.seals) <= 1 /\ (t \in SealedTexts => Len(t.seals) = 1)
  <2>1. ASSUME NEW t \in SealedTexts PROVE Len(t.seals) = 1 /\ Len(t.seals) <= 1
    <3>1. Len(t.seals) = 1
      BY KeptFacts
    <3> QED
      BY <3>1
  <2>2. ASSUME NEW t \in RawTexts PROVE t \notin SealedTexts /\ Len(t.seals) <= 1
    <3>1. t.seals = << >> /\ t \notin SealedTexts
      BY KeptFacts
    <3>2. Len(<< >>) <= 1
      OBVIOUS
    <3> QED
      BY <3>1, <3>2
  <2> QED
    BY <2>1, <2>2 DEF Kept
<1>4. Readable /\ ProtectedOnce
  BY <1>2, <1>3 DEF Readable, ProtectedOnce
<1> QED
  BY <1>1, <1>4 DEF ReadableAndSealedOnce

\* Whatever the calls, the roll-out, the rotation and the removal of the old key do,
\* every field can be read and nothing is protected twice, if no failed save is
\* repeated and the check is not made with mode "batch": the hooks and the statics
\* of the data protection.
THEOREM FieldsStayReadable == CarefulUse => (Spec => []ReadableAndSealedOnce)
<1> SUFFICES ASSUME CarefulUse PROVE Spec => []ReadableAndSealedOnce
  OBVIOUS
<1>1. Spec => []Inv
  BY DocumentsInvariant
<1>2. Inv => ReadableAndSealedOnce
  BY InvImpliesReadable
<1> QED
  BY <1>1, <1>2, PTL

\* The triggers of saves and deletes are handed plain values only: the transformed
\* copies of the hooks.
THEOREM TriggersOfSavesSeePlain == CarefulUse => (Spec => []DocumentsDispatchPlain)
<1> SUFFICES ASSUME CarefulUse PROVE Spec => []DocumentsDispatchPlain
  OBVIOUS
<1>1. Spec => []Inv
  BY DocumentsInvariant
<1>2. Inv => DocumentsDispatchPlain
  BY DEF Inv
<1> QED
  BY <1>1, <1>2, PTL

\* Only an applied operation of the bulk write counts as written.
LEMMA OnlyWritesWrite ==
  ASSUME Inv, [Next]_vars, NEW d \in Docs, Rotates(d)
  PROVE  RotateWrite
<1> DEFINE old == rotation
<1>1. old \in Run /\ old.pc = "writing" /\ rotation'.written # old.written /\ d \in rotation'.written
  BY RunFacts DEF Rotates
<1>2. \A D : [old EXCEPT !.dirty = D].written = old.written
  BY <1>1 DEF Run
<1>3. ASSUME NEW c \in Clients, ClientStep(c) PROVE FALSE
  <2>1. UNCHANGED rotation \/ \E D : rotation' = [old EXCEPT !.dirty = D]
    BY <1>3 DEF ClientStep, New, FindById, Assign, PreSave, SaveApplied, SaveFails, PostSave, LetGo, PreUpdate,
          UpdateApplied, PreDelete, DeleteApplied, UpsertById, UpsertApplied, QueryFails, Upgrade, Store
  <2> QED
    BY <1>1, <1>2, <2>1
<1>4. ASSUME RotateWriteFails PROVE FALSE
  <2>1. PICK e : rotation' = [old EXCEPT !.todo = @ \ {e}, !.failed = @ \cup {e}]
    BY <1>4 DEF RotateWriteFails
  <2> QED
    BY <1>1, <2>1 DEF Run
<1>5. ASSUME RotateRetry PROVE FALSE
  <2>1. \A pc : [NoRotation EXCEPT !.pc = pc].written = {}
    BY DEF NoRotation
  <2>2. [old EXCEPT !.todo = old.failed, !.failed = {}, !.attempt = @ + 1].written = old.written
    BY <1>1 DEF Run
  <2> QED
    BY <1>1, <1>5, <2>1, <2>2 DEF RotateRetry
<1>6. ~(RotateStart \/ RotateRead \/ RotateSend)
  BY <1>1 DEF RotateStart, RotateRead, RotateSend
<1>7. ~(StatusStart \/ StatusRead \/ StatusDone \/ RemoveOldKey \/ UNCHANGED vars)
  BY <1>1 DEF StatusStart, StatusRead, StatusDone, RemoveOldKey, vars
<1> QED
  BY <1>3, <1>4, <1>5, <1>6, <1>7 DEF Next, Rotate

LEMMA StepsKeepValues ==
  ASSUME Inv, [Next]_vars, NEW d \in Docs, Rotates(d), d \notin rotation.dirty
  PROVE  IF db[d] = Nothing THEN db'[d] = Nothing ELSE Getter(db'[d]) = Getter(db[d])
<1> DEFINE old == rotation
<1>1. RotateWrite
  BY OnlyWritesWrite
<1>2. PICK e \in old.todo :
        /\ db' = [db EXCEPT ![e] = IF @ = Nothing THEN Nothing ELSE old.read[e]]
        /\ rotation' = [old EXCEPT !.todo = @ \ {e}, !.written = @ \cup {e}]
  BY <1>1 DEF RotateWrite
<1>3. /\ old \in Run /\ old.pc = "writing" /\ e \in DOMAIN old.read /\ old.read[e] \in SealedTexts \ OldTexts
      /\ e \notin old.dirty /\ db[e] # Nothing => db[e].plain = old.read[e].plain
      /\ db \in [Docs -> {Nothing} \cup Kept] /\ Key("v0") \in env /\ Key("v1") \in env
  BY <1>1, RunFacts DEF RotateWrite, Database, Deployment
<1>4. rotation'.written = old.written \cup {e}
  <2> HIDE DEF old
  <2> QED
    BY <1>2, <1>3 DEF Run
<1>5. d = e
  BY <1>4 DEF Rotates
<1>6. CASE db[d] = Nothing
  BY <1>2, <1>3, <1>5, <1>6
<1>7. CASE db[d] # Nothing
  <2>1. db'[d] = old.read[d]
    BY <1>2, <1>3, <1>5, <1>7
  <2>2. old.read[d] \in Kept /\ db[d] \in Kept /\ db[d].plain = old.read[d].plain
    BY <1>3, <1>5, <1>7 DEF Kept
  <2>3. Getter(old.read[d]) = PlainText(old.read[d].plain) /\ Getter(db[d]) = PlainText(db[d].plain)
    BY <1>3, <2>2, ReadFacts
  <2>4. Getter(db'[d]) = Getter(old.read[d])
    BY <2>1
  <2> QED
    BY <1>7, <2>2, <2>3, <2>4
<1> QED
  BY <1>6, <1>7

\* What the rotation writes back has the value it read, unless the document was
\* written meanwhile, and a deleted document stays deleted: the bulk write of
\* upsertManyById() of type "update".
THEOREM RotationKeepsTheValues == CarefulUse => (Spec => RotationKeepsValues)
<1> SUFFICES ASSUME CarefulUse PROVE Spec => RotationKeepsValues
  OBVIOUS
<1>1. Inv /\ [Next]_vars =>
        [\A d \in Docs : Rotates(d) /\ d \notin rotation.dirty =>
           IF db[d] = Nothing THEN db'[d] = Nothing ELSE Getter(db'[d]) = Getter(db[d])]_vars
  BY StepsKeepValues
<1>2. Spec => []Inv
  BY DocumentsInvariant
<1> QED
  BY <1>1, <1>2, PTL DEF Spec, RotationKeepsValues

\* docs/DATA-PROTECTION.md: outdated 0 is what "safe to remove the old key" means.
THEOREM RemovalIsSafe == CarefulUse => (Spec => []SafeToRemove)
<1> SUFFICES ASSUME CarefulUse PROVE Spec => []SafeToRemove
  OBVIOUS
<1>1. Spec => []Inv
  BY DocumentsInvariant
<1>2. Inv => SafeToRemove
  BY ReadFacts DEF SafeToRemove, Inv, Deployment, Database
<1> QED
  BY <1>1, <1>2, PTL
=============================================================================
