------------------------------ MODULE MCParts ------------------------------
(* The small modules, as parts of one specification: Seeders,              *)
(* Transactions, KVStore, LocalObjects, Serialization, Pagination,         *)
(* Dispatch and Transforms.  A behaviour is that of one of them: the       *)
(* seeders stay in an initial state in those of the others, the variables  *)
(* of the others are Off.                                                  *)
EXTENDS Seeders, FiniteSets

CONSTANTS
    Callers, ReplicaSet,
    Absent,
    Workers, Connectors, TTLs, MaxNow, MaxSets,
    Users, Contents, MaxPuts, NoFile,
    WithColon, Nothing, Requests,
    Words, Limit, MaxWrites,
    FieldValues, Conditions, Triggers,
    Documents, Paths, Indices,
    Off

\* The numbers are numbers, what stands for nothing is no value, and a content
\* is neither an empty file nor an answer that get() has for it.
ASSUME PartConstants ==
    /\ TTLs \subseteq Int /\ Absent \notin Nat
    /\ {NoFile, "created", "rejected"} \cap Contents = {} /\ NoFile \notin {"created", "rejected"}
    /\ {MaxNow, MaxSets, MaxPuts} \subseteq Nat

\* The documents are numbered from one, and a page holds some.
ASSUME PaginationConstants == Words \in Seq(Seq(STRING)) /\ Limit \in Nat \ {0}

\* A document has a root, and what has something below it is a node; a path
\* has a key.
ASSUME TransformConstants ==
    /\ Paths \subseteq Seq(STRING) \ {<<>>}
    /\ \A d \in Documents :
         /\ DOMAIN d \subseteq Seq(STRING) /\ <<>> \in DOMAIN d /\ d[<<>>] \in {"object", "array", "map"}
         /\ d \in [DOMAIN d -> {"leaf", "falsy", "null", "object", "array", "map"}]
         /\ \A a \in DOMAIN d : \A n \in 0 .. Len(a) - 1 :
              SubSeq(a, 1, n) \in DOMAIN d /\ d[SubSeq(a, 1, n)] \in {"object", "array", "map"}

VARIABLES
    part,       \* the module whose behaviour it is
    create, txn, stored, overlapped,                    \* Transactions
    row, now, worker, promised, locked, lost, sets,     \* KVStore
    bytes, meta, user, puts, visible,                   \* LocalObjects
    schema, store, pending, shown, threw, asked,        \* Serialization
    present, query, walk, constant, writes,             \* Pagination
    doc, call, action, amqp, disturbed,                 \* Dispatch
    input, ret, calls, thrown                           \* Transforms

T == INSTANCE Transactions
K == INSTANCE KVStore
L == INSTANCE LocalObjects
J == INSTANCE Serialization
P == INSTANCE Pagination
D == INSTANCE Dispatch
X == INSTANCE Transforms

\* A field holds a number, an action is of one phase and its conditions are
\* among those there are, with what they are made of, and nothing is no document.
ASSUME DispatchConstants ==
    /\ FieldValues \subseteq Int
    /\ Triggers \subseteq Seq([phase : {"pre", "post"}, kind : D!Kinds, conditions : Seq(Conditions)])
    /\ \A c \in Conditions : c.is \in {"and", "or", "not"} => c.of \in Seq(Conditions)
    /\ \A fields \in SUBSET D!Fields : Absent \notin [fields -> FieldValues]

transactionVars == <<create, txn, stored, overlapped>>
kvVars == <<row, now, worker, promised, locked, lost, sets>>
localVars == <<bytes, meta, user, puts, visible>>
serializationVars == <<schema, store, pending, shown, threw, asked>>
paginationVars == <<present, query, walk, constant, writes>>
dispatchVars == <<doc, call, action, amqp, disturbed>>
transformVars == <<input, ret, calls, thrown>>

partsVars ==
    <<part, vars, transactionVars, kvVars, localVars, serializationVars, paginationVars, dispatchVars, transformVars>>

PartsInit ==
    /\ part \in {"seeders", "transactions", "kv", "local", "serialization", "pagination", "dispatch",
                "transforms"}
    /\ Init /\ (part # "seeders" => registered = <<>>)
    /\ IF part = "transactions" THEN T!TransactionsInit
       ELSE create = Off /\ txn = Off /\ stored = Off /\ overlapped = Off
    /\ IF part = "kv" THEN K!KVInit
       ELSE row = Off /\ now = Off /\ worker = Off /\ promised = Off /\ locked = Off /\ lost = Off /\ sets = Off
    /\ IF part = "local" THEN L!LocalInit
       ELSE bytes = Off /\ meta = Off /\ user = Off /\ puts = Off /\ visible = Off
    /\ IF part = "serialization" THEN J!SerializationInit
       ELSE schema = Off /\ store = Off /\ pending = Off /\ shown = Off /\ threw = Off /\ asked = Off
    /\ IF part = "pagination" THEN P!PaginationInit
       ELSE present = Off /\ query = Off /\ walk = Off /\ constant = Off /\ writes = Off
    /\ IF part = "dispatch" THEN D!DispatchInit
       ELSE doc = Off /\ call = Off /\ action = Off /\ amqp = Off /\ disturbed = Off
    /\ IF part = "transforms" THEN X!TransformsInit
       ELSE input = Off /\ ret = Off /\ calls = Off /\ thrown = Off

PartsNext ==
    \/ /\ part = "seeders" /\ Next
       /\ UNCHANGED <<part, transactionVars, kvVars, localVars, serializationVars, paginationVars, dispatchVars, transformVars>>
    \/ /\ part = "transactions" /\ T!TransactionsNext
       /\ UNCHANGED <<part, vars, kvVars, localVars, serializationVars, paginationVars, dispatchVars, transformVars>>
    \/ /\ part = "kv" /\ K!KVNext
       /\ UNCHANGED <<part, vars, transactionVars, localVars, serializationVars, paginationVars, dispatchVars, transformVars>>
    \/ /\ part = "local" /\ L!LocalNext
       /\ UNCHANGED <<part, vars, transactionVars, kvVars, serializationVars, paginationVars, dispatchVars, transformVars>>
    \/ /\ part = "serialization" /\ J!SerializationNext
       /\ UNCHANGED <<part, vars, transactionVars, kvVars, localVars, paginationVars, dispatchVars, transformVars>>
    \/ /\ part = "pagination" /\ P!PaginationNext
       /\ UNCHANGED <<part, vars, transactionVars, kvVars, localVars, serializationVars, dispatchVars, transformVars>>
    \/ /\ part = "dispatch" /\ D!DispatchNext
       /\ UNCHANGED <<part, vars, transactionVars, kvVars, localVars, serializationVars, paginationVars, transformVars>>
    \/ /\ part = "transforms" /\ X!TransformsNext
       /\ UNCHANGED <<part, vars, transactionVars, kvVars, localVars, serializationVars, paginationVars, dispatchVars>>

PartsSpec == PartsInit /\ [][PartsNext]_partsVars

-----------------------------------------------------------------------------
\* Seeders!SeedersTakeEffect holds in every part: the seeders are still in most.

\* A transaction stores its document exactly when it commits, and leaves
\* Model.create as it was, while sessions nest.
TransactionsAreIsolated == part = "transactions" => T!TransactionsAreIsolated

\* A key of the SQLite store lives exactly its TTL, and its lock serializes.
KeyKeepsItsPromises == part = "kv" => K!KeyKeepsItsPromises

\* A get() of a local object put once returns what it was at one instant.
GetIsAtomic == part = "local" => L!GetIsAtomic

\* Access policies hide fields from serialization, and only from it.
AccessIsForSerialization == part = "serialization" => J!AccessIsForSerialization

\* A page holds what was asked for, and a walk over pages misses nothing.
PagesAreExact == part = "pagination" => P!PagesAreExact

\* A post trigger decides on the document as the call left it.
PostDecidesOnTheDocument == part = "dispatch" => D!PostDecidesOnTheDocument

\* A trigger that fails does not disturb the others, nor the call.
FailuresAreIsolated == part = "dispatch" => D!FailuresAreIsolated

\* A transform changes what its path names, and nothing else.
TransformsAreExact == part = "transforms" => X!TransformsAreExact
=============================================================================
