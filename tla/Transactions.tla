--------------------------- MODULE Transactions ---------------------------
(***************************************************************************)
(* Model.startTransaction() (schema/statics/transactions.ts): every call   *)
(* replaces Model.create, which is one for the process, and the endSession *)
(* of its session puts back what create was when the call was made.        *)
(***************************************************************************)
CONSTANTS
    Callers,        \* requests of one process, each in one transaction
    ReplicaSet      \* what isReplicaSet() says

VARIABLES
    create,     \* Model.create: of "mongoose", or the "override" of a transaction
    txn,        \* txn[c]: the transaction of the caller
    stored,     \* the callers whose document is in the collection
    overlapped  \* a session ended before one that was begun during it

transactionVars == <<create, txn, stored, overlapped>>

Session == [pc |-> "none", original |-> "mongoose", pending |-> FALSE, during |-> {}]

TransactionsInit ==
    /\ create = "mongoose"
    /\ txn = [c \in Callers |-> Session]
    /\ stored = {} /\ overlapped = FALSE

\* The callers whose session has begun and not ended.
InSession == {c \in Callers : txn[c].pc \in {"open", "committing", "aborting", "rejected"}}

\* startSession() is awaited; the rest of startTransaction() is one step.
StartSession(c) ==
    /\ txn[c].pc = "none"
    /\ txn' = [txn EXCEPT ![c].pc = "starting"]
    /\ UNCHANGED <<create, stored, overlapped>>

\* Without a replica set it throws, and nothing ends the session.
StartTransaction(c) ==
    /\ txn[c].pc = "starting"
    /\ IF ReplicaSet
       THEN /\ txn' = [txn EXCEPT ![c] = [@ EXCEPT !.pc = "open", !.original = create,
                                                   !.during = InSession]]
            /\ create' = "override"
       ELSE /\ txn' = [txn EXCEPT ![c].pc = "leaked"]
            /\ UNCHANGED create
    /\ UNCHANGED <<stored, overlapped>>

\* Mutant of Create: the override drops the options.
SavesOutside(c) ==
    /\ txn[c].pc = "open" /\ c \notin stored /\ ~txn[c].pending
    /\ stored' = stored \cup {c}
    /\ UNCHANGED <<create, txn, overlapped>>

\* Model.create(doc, { session }): the override saves in the session; the
\* create of mongoose takes the options for a second document.
Create(c) ==
    /\ txn[c].pc = "open" /\ c \notin stored /\ ~txn[c].pending
    /\ IF create = "override"
       THEN txn' = [txn EXCEPT ![c].pending = TRUE] /\ UNCHANGED stored
       ELSE stored' = stored \cup {c} /\ UNCHANGED txn
    /\ UNCHANGED <<create, overlapped>>

-----------------------------------------------------------------------------
Commit(c) ==
    /\ txn[c].pc = "open"
    /\ txn' = [txn EXCEPT ![c].pc = "committing"]
    /\ UNCHANGED <<create, stored, overlapped>>

Abort(c) ==
    /\ txn[c].pc = "open"
    /\ txn' = [txn EXCEPT ![c].pc = "aborting", ![c].pending = FALSE]
    /\ UNCHANGED <<create, stored, overlapped>>

\* session.endSession(), as startTransaction() replaced it.
EndSession(c, outcome) ==
    /\ txn' = [txn EXCEPT ![c].pc = outcome]
    /\ create' = txn[c].original
    /\ overlapped' = (overlapped \/ \E o \in InSession : c \in txn[o].during)

Committed(c) ==
    /\ txn[c].pc = "committing"
    /\ stored' = IF txn[c].pending THEN stored \cup {c} ELSE stored
    /\ EndSession(c, "committed")

\* A commit that fails aborts.  The driver may refuse to abort what it tried to
\* commit: then commit() rejects with the session open.
CommitFails(c) ==
    /\ txn[c].pc = "committing"
    /\ \E pc \in {"aborting", "rejected"} :
         txn' = [txn EXCEPT ![c].pc = pc, ![c].pending = FALSE]
    /\ UNCHANGED <<create, stored, overlapped>>

Aborted(c) ==
    /\ txn[c].pc = "aborting"
    /\ EndSession(c, "aborted")
    /\ UNCHANGED stored

TransactionsNext ==
    \E c \in Callers :
        \/ StartSession(c) \/ StartTransaction(c) \/ Create(c)
        \/ Commit(c) \/ Committed(c) \/ CommitFails(c) \/ Abort(c) \/ Aborted(c)

-----------------------------------------------------------------------------
\* While the sessions end in the order opposite to that in which they began,
\* the document of a transaction is stored exactly when it commits.
Atomic ==
    ~overlapped => \A c \in Callers :
        /\ c \in stored => txn[c].pc = "committed"
        /\ txn[c].pc = "committed" /\ txn[c].pending => c \in stored

\* With every session ended, in that order, create is that of mongoose again.
CreateRestored == ~overlapped /\ InSession = {} => create = "mongoose"

\* While sessions nest, a transaction is one, and so is what comes after it.
TransactionsAreIsolated == Atomic /\ CreateRestored
=============================================================================
