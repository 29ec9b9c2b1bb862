--------------------------- MODULE LocalObjects ---------------------------
(***************************************************************************)
(* One key of createLocalFilesystemObjectStorage(): an object is a file of *)
(* bytes and a file of metadata next to it.  No call is atomic: a file is  *)
(* created before it is filled, put() writes two of them, and get() reads  *)
(* two.  A process may end in the middle of a call.                        *)
(***************************************************************************)
EXTENDS Naturals

CONSTANTS
    Users,      \* callers, of any processes
    Contents,   \* what is put
    MaxPuts,    \* bound: puts begun
    NoFile      \* Deno.errors.NotFound

VARIABLES
    bytes, meta,    \* a content, "created" while it is not filled, or NoFile
    user,           \* user[u]: the call it is in
    puts,           \* puts begun
    visible         \* visible[u]: what the object has been during the get() of u

localVars == <<bytes, meta, user, puts, visible>>

Resting == [pc |-> "idle", content |-> NoFile, result |-> NoFile]

LocalInit ==
    /\ bytes = NoFile /\ meta = NoFile /\ puts = 0
    /\ user = [u \in Users |-> Resting]
    /\ visible = [u \in Users |-> {}]

\* There is an object when both files are filled.
Object(b, m) == IF b \in Contents /\ m \in Contents THEN b ELSE NoFile

Files(b, m) ==
    /\ bytes' = b /\ meta' = m
    /\ visible' = [u \in Users |-> IF user[u].pc = "idle" THEN {} ELSE visible[u] \cup {Object(b, m)}]

At(u, from, to) == user[u].pc = from /\ user' = [user EXCEPT ![u].pc = to]

StartPut(u) ==
    /\ puts < MaxPuts /\ puts' = puts + 1 /\ user[u].pc = "idle"
    /\ \E content \in Contents :
         user' = [user EXCEPT ![u] = [Resting EXCEPT !.pc = "put", !.content = content]]
    /\ UNCHANGED <<bytes, meta, visible>>

\* Mutant of WriteFiles: the metadata is written first.
MetadataFirst(u) ==
    \/ At(u, "put", "bytes") /\ Files(bytes, "created")
    \/ At(u, "bytes", "meta") /\ Files(bytes, user[u].content)
    \/ At(u, "meta", "filling") /\ Files("created", meta)
    \/ At(u, "filling", "idle") /\ Files(user[u].content, meta)

\* put(): the bytes, then the metadata.
WriteFiles(u) ==
    \/ At(u, "put", "bytes") /\ Files("created", meta)
    \/ At(u, "bytes", "meta") /\ Files(user[u].content, meta)
    \/ At(u, "meta", "filling") /\ Files(bytes, "created")
    \/ At(u, "filling", "idle") /\ Files(bytes, user[u].content)

StartGet(u) ==
    /\ user[u].pc = "idle"
    /\ user' = [user EXCEPT ![u] = [Resting EXCEPT !.pc = "get"]]
    /\ visible' = [visible EXCEPT ![u] = {Object(bytes, meta)}]
    /\ UNCHANGED <<bytes, meta, puts>>

\* get(): the metadata, which has to parse, then the bytes.
ReadMeta(u) ==
    /\ user[u].pc = "get"
    /\ user' = [user EXCEPT ![u].pc = IF meta \in Contents THEN "gotMeta" ELSE "got",
                            ![u].result = IF meta = "created" THEN "rejected" ELSE NoFile]
    /\ UNCHANGED <<bytes, meta, puts, visible>>

ReadBytes(u) ==
    /\ user[u].pc = "gotMeta"
    /\ user' = [user EXCEPT ![u].pc = "got", ![u].result = bytes]
    /\ UNCHANGED <<bytes, meta, puts, visible>>

Return(u) ==
    /\ user[u].pc = "got" /\ user' = [user EXCEPT ![u] = Resting]
    /\ visible' = [visible EXCEPT ![u] = {}]
    /\ UNCHANGED <<bytes, meta, puts>>

\* delete(): each file, whether or not it is there.
Delete(u) ==
    \/ At(u, "idle", "delete") /\ UNCHANGED <<bytes, meta, visible>>
    \/ At(u, "delete", "deleted") /\ Files(NoFile, meta)
    \/ At(u, "deleted", "idle") /\ Files(bytes, NoFile)

\* The process of the caller ends.
Crash(u) ==
    /\ user[u].pc \in {"bytes", "meta", "filling", "deleted"}
    /\ user' = [user EXCEPT ![u] = Resting]
    /\ UNCHANGED <<bytes, meta, puts, visible>>

LocalNext ==
    \E u \in Users :
        \/ StartPut(u) \/ StartGet(u) \/ ReadMeta(u) \/ ReadBytes(u) \/ Return(u) \/ Crash(u)
        \/ (WriteFiles(u) \/ Delete(u)) /\ UNCHANGED puts

-----------------------------------------------------------------------------
\* A get() of a key that is put once is atomic, or rejects: it returns what the
\* object was at one instant of the call, whatever it overlaps or follows.
GetIsAtomic ==
    puts <= 1 => \A u \in Users :
        user[u].pc = "got" => user[u].result \in visible[u] \cup {"rejected"}
=============================================================================
