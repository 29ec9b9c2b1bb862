--------------------------- MODULE ObjectRotation ---------------------------
(***************************************************************************)
(* Rotating the encryption keys of the objects of a bucket                 *)
(* (storage/rotation-core.ts over storage/connector.ts).  runRotate() and  *)
(* runCheck() walk the keys page by page while the application writes and  *)
(* deletes objects.  Every request to the store is one atomic step.        *)
(*                                                                         *)
(* An object is its plaintext and the version of the key it is encrypted   *)
(* under.  The checksum is computed over the plaintext, so plaintexts      *)
(* stand for their checksums.  Keys are numbers: the store lists them in   *)
(* their order, and a continuation token is the last key of its page.      *)
(***************************************************************************)
EXTENDS Naturals, FiniteSetsExt

CONSTANTS
    NumKeys,        \* the keys an object may be put under
    Contents,       \* plaintexts
    Rotators,       \* processes that run rotateEncryptionKeys()
    Checkers,       \* processes that run checkEncryptionRotationStatus()
    PageSize,       \* maxKeysPerPage
    OldWriters,     \* an instance that encrypts under an older version still writes
    MaxWrites,      \* bound: the writes and deletes of the application
    MaxFaults       \* bound: the requests that fail

ObjectKeys == 1 .. NumKeys
Workers == Rotators \cup Checkers

VARIABLES
    bucket,     \* bucket[k]: the object, or Absent
    pc,         \* pc[w]: where the run of w stands
    page,       \* page[w]: the keys of its page that are still to be done
    token,      \* token[w]: the continuation token; 0: none
    before,     \* before[w]: the checksum getMetadata() returned first
    plaintext,  \* plaintext[w]: what get() returned
    outdated,   \* outdated[w]: keys a check has found on other versions, or on none
    failed,     \* failed[w]: the keys of result.failed
    due,        \* ghost: due[w]: what a rotation found to do at its start, and
                \* nobody has written or deleted since
    raced,      \* ghost: raced[w]: the object in hand has changed since w looked
                \* at it for the last time
    writes, faults  \* how much of the bounds has been spent

vars == <<bucket, pc, page, token, before, plaintext, outdated, failed, due,
          raced, writes, faults>>
walkVars == <<page, token>>
readVars == <<before, plaintext>>
resultVars == <<outdated, failed>>
ghostVars == <<due, raced>>
boundVars == <<writes, faults>>

Active == "active"                      \* encryptSettings.version
Versions == {Active, "older", "none"}   \* "none": never encrypted
Object == [content: Contents, version: Versions]
Absent == [version |-> "absent"]
NoContent == "nothing"

Exists(k) == bucket[k] # Absent

\* getMetadata(): the checksum of the plaintext and the version of an object.
Metadata(k) == bucket[k]

Outdated(k) == Metadata(k) # Absent /\ Metadata(k).version # Active

Init ==
    /\ bucket \in [ObjectKeys -> Object \cup {Absent}]
    /\ pc = [w \in Workers |-> "new"]
    /\ page = [w \in Workers |-> {}] /\ token = [w \in Workers |-> 0]
    /\ before = [w \in Workers |-> NoContent]
    /\ plaintext = [w \in Workers |-> NoContent]
    /\ outdated = [w \in Workers |-> {}] /\ failed = [w \in Workers |-> {}]
    /\ due = [w \in Workers |-> {}] /\ raced = [w \in Workers |-> FALSE]
    /\ writes = 0 /\ faults = 0

----------------------------------------------------------------------------
(* The walk. *)

Key(w) == Min(page[w])

\* The object under k changes.
Race(k) == [w \in Workers |-> raced[w] \/ (pc[w] = "put" /\ Key(w) = k)]

\* Mutant of PageFrom.
PageSkips(from) ==
    LET rest == {k \in ObjectKeys : k > from + 1 /\ Exists(k)}
    IN  {k \in rest : Cardinality({j \in rest : j < k}) < PageSize}

\* listPage(): the first keys after the token.
PageFrom(from) ==
    LET rest == {k \in ObjectKeys : k > from /\ Exists(k)}
    IN  {k \in rest : Cardinality({j \in rest : j < k}) < PageSize}

\* IsTruncated: there is more after this page.
Truncated(keys) == keys # {} /\ \E k \in ObjectKeys : k > Max(keys) /\ Exists(k)

\* A run starts with its first page, or asks for the next.
List(w) ==
    /\ pc[w] \in {"new", "listing"}
    /\ LET keys == PageFrom(token[w]) IN
       /\ page' = [page EXCEPT ![w] = keys]
       /\ token' = [token EXCEPT ![w] = IF Truncated(keys) THEN Max(keys) ELSE 0]
       /\ pc' = [pc EXCEPT ![w] = IF keys = {} THEN "done" ELSE "head"]
    /\ due' = [due EXCEPT ![w] =
                 IF pc[w] = "new" THEN {k \in ObjectKeys : Outdated(k)} ELSE @]
    /\ UNCHANGED <<bucket, readVars, resultVars, raced, boundVars>>

\* A page that cannot be listed ends the run with an error.
ListFails(w) ==
    /\ pc[w] \in {"new", "listing"}
    /\ faults < MaxFaults /\ faults' = faults + 1
    /\ pc' = [pc EXCEPT ![w] = "rejected"]
    /\ UNCHANGED <<bucket, walkVars, readVars, resultVars, ghostVars, writes>>

\* On to the next key, the next page, or the end.
Advance(w) ==
    /\ page' = [page EXCEPT ![w] = @ \ {Key(w)}]
    /\ pc' = [pc EXCEPT ![w] = IF page[w] # {Key(w)} THEN "head"
                               ELSE IF token[w] # 0 THEN "listing" ELSE "done"]
    /\ before' = [before EXCEPT ![w] = NoContent]
    /\ plaintext' = [plaintext EXCEPT ![w] = NoContent]
    /\ UNCHANGED token

----------------------------------------------------------------------------
(* runRotate(), for one key. *)

\* getMetadata(): nothing to do for a key that is gone or already active.
RotateHead(w) ==
    /\ pc[w] = "head" /\ w \in Rotators
    /\ IF Outdated(Key(w))
       THEN /\ before' = [before EXCEPT ![w] = Metadata(Key(w)).content]
            /\ pc' = [pc EXCEPT ![w] = "get"]
            /\ UNCHANGED <<walkVars, plaintext>>
       ELSE Advance(w)
    /\ UNCHANGED <<bucket, resultVars, ghostVars, boundVars>>

\* get(), decrypted under the version of the object.
Get(w) ==
    /\ pc[w] = "get"
    /\ IF Exists(Key(w))
       THEN /\ plaintext' = [plaintext EXCEPT ![w] = bucket[Key(w)].content]
            /\ pc' = [pc EXCEPT ![w] = "recheck"]
            /\ UNCHANGED <<walkVars, before>>
       ELSE Advance(w)
    /\ UNCHANGED <<bucket, resultVars, ghostVars, boundVars>>

\* Mutant of Unchanged.
AnyChecksum(w) == Metadata(Key(w)) # Absent

Unchanged(w) == Metadata(Key(w)) # Absent /\ Metadata(Key(w)).content = before[w]

\* getMetadata() again, "immediately before writing".
Recheck(w) ==
    /\ pc[w] = "recheck"
    /\ IF Unchanged(w)
       THEN /\ pc' = [pc EXCEPT ![w] = "put"]
            /\ raced' = [raced EXCEPT ![w] = FALSE]
            /\ UNCHANGED <<walkVars, readVars>>
       ELSE Advance(w) /\ UNCHANGED raced
    /\ UNCHANGED <<bucket, resultVars, due, boundVars>>

\* put(): the object as encrypted by this instance, whatever is there now.
Stored(w) == [bucket EXCEPT ![Key(w)] = [content |-> plaintext[w], version |-> Active]]

Put(w) ==
    /\ pc[w] = "put"
    /\ bucket' = Stored(w)
    /\ raced' = Race(Key(w))
    /\ Advance(w)
    /\ UNCHANGED <<resultVars, due, boundVars>>

\* A request for the key fails; of a put, perhaps only the answer is lost.
KeyFails(w) ==
    /\ pc[w] \in {"head", "get", "recheck", "put"} /\ w \in Rotators
    /\ faults < MaxFaults /\ faults' = faults + 1
    /\ \/ UNCHANGED <<bucket, raced>>
       \/ pc[w] = "put" /\ bucket' = Stored(w) /\ raced' = Race(Key(w))
    /\ failed' = [failed EXCEPT ![w] = @ \cup {Key(w)}]
    /\ Advance(w)
    /\ UNCHANGED <<outdated, due, writes>>

----------------------------------------------------------------------------
(* runCheck(), for one key. *)

CheckHead(w) ==
    /\ pc[w] = "head" /\ w \in Checkers
    /\ outdated' = [outdated EXCEPT ![w] =
                      IF Outdated(Key(w)) THEN @ \cup {Key(w)} ELSE @]
    /\ Advance(w)
    /\ UNCHANGED <<bucket, failed, ghostVars, boundVars>>

\* Here a request that fails ends the run.
CheckFails(w) ==
    /\ pc[w] = "head" /\ w \in Checkers
    /\ faults < MaxFaults /\ faults' = faults + 1
    /\ pc' = [pc EXCEPT ![w] = "rejected"]
    /\ UNCHANGED <<bucket, walkVars, readVars, resultVars, ghostVars, writes>>

SafeToRetireOldKeys(w) == pc[w] = "done" /\ outdated[w] = {}

----------------------------------------------------------------------------
(* The application. *)

WritingVersions == IF OldWriters THEN Versions ELSE {Active}

\* Somebody puts or deletes the object under k.
Write(k) ==
    /\ writes < MaxWrites /\ writes' = writes + 1
    /\ \/ \E c \in Contents, v \in WritingVersions :
            bucket' = [bucket EXCEPT ![k] = [content |-> c, version |-> v]]
       \/ Exists(k) /\ bucket' = [bucket EXCEPT ![k] = Absent]
    /\ due' = [w \in Workers |-> due[w] \ {k}]
    /\ raced' = Race(k)
    /\ UNCHANGED <<pc, walkVars, readVars, resultVars, faults>>

Request(w) ==
    \/ List(w) \/ ListFails(w)
    \/ RotateHead(w) \/ Get(w) \/ Recheck(w) \/ Put(w) \/ KeyFails(w)
    \/ CheckHead(w) \/ CheckFails(w)

Next == (\E w \in Workers : Request(w)) \/ (\E k \in ObjectKeys : Write(k))

Spec == Init /\ [][Next]_vars

\* A run that has started goes on.
FairSpec == Spec /\ \A w \in Workers : WF_vars(Request(w))

----------------------------------------------------------------------------
(* Properties. *)

\* The variables keep their types; a run that is over has nothing left to do.
TypeOK ==
    /\ bucket \in [ObjectKeys -> Object \cup {Absent}]
    /\ pc \in [Workers -> {"new", "listing", "head", "get", "recheck", "put",
                           "done", "rejected"}]
    /\ page \in [Workers -> SUBSET ObjectKeys] /\ token \in [Workers -> ObjectKeys \cup {0}]
    /\ \A w \in Workers :
         /\ pc[w] \in {"head", "get", "recheck", "put"} => page[w] # {}
         /\ pc[w] = "done" => page[w] = {} /\ token[w] = 0
    /\ before \in [Workers -> Contents \cup {NoContent}]
    /\ plaintext \in [Workers -> Contents \cup {NoContent}]
    /\ outdated \in [Workers -> SUBSET ObjectKeys] /\ failed \in [Workers -> SUBSET ObjectKeys]

\* A rotation leaves nothing out: when it is over, every object it found to do
\* and the application has not touched is on the active version, or is listed
\* in result.failed; although objects come and go while it walks the pages.
RunMigrates ==
    \A w \in Rotators : pc[w] = "done" => \A k \in due[w] : ~Outdated(k) \/ k \in failed[w]

\* As long as new writes use the active version, safeToRetireOldKeys is not
\* only true when it is reported but stays so: no object depends on another
\* key, although objects were created and rotated behind the walk.
SafeMeansSafe ==
    ~OldWriters => \A w \in Checkers : SafeToRetireOldKeys(w) => \A k \in ObjectKeys : ~Outdated(k)

\* What a walk reports is true of the bucket, whatever changed behind it.
ReportsAreTrue == TypeOK /\ RunMigrates /\ SafeMeansSafe

Stores(w) == pc[w] = "put" /\ pc'[w] # "put" /\ bucket' = Stored(w)
Holds(k, content) == Exists(k) /\ bucket[k].content = content

\* When a rotation overwrites other content than it read, that content is newer
\* than the re-check, or it had read something else than what it first looked
\* at: the re-check narrows the race down to these two cases.  It does not close
\* it: the put is unconditional.
RecheckNarrows ==
    [][\A w \in Rotators :
         Stores(w) /\ ~Holds(Key(w), plaintext[w])
         => raced[w] \/ plaintext[w] # before[w]]_vars

\* Every run comes to an end.
Finishes == \A w \in Workers : pc[w] # "new" ~> pc[w] \in {"done", "rejected"}
=============================================================================
