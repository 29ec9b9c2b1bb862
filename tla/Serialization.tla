--------------------------- MODULE Serialization ---------------------------
(***************************************************************************)
(* What a request is shown of a field with data policies, when it reads it *)
(* and when it serializes its document: the getters of database/policies/, *)
(* and the toJSON of processor/schema/transforms/.  The store is that of   *)
(* the AsyncLocalStorage of the request.                                   *)
(***************************************************************************)
EXTENDS Protection

CONSTANTS Requests    \* bound: how often the request enters the store, reads and serializes

VARIABLES
    schema,     \* the field: its policies, and the schema's own transform
    store,      \* the store: [session, useDataAccessGet]
    pending,    \* a toJSON that awaits the schema's own transform
    shown,      \* what the last read or serialization gave
    threw,      \* a getter has thrown during a serialization
    asked       \* how much of Requests is spent

serializationVars == <<schema, store, pending, shown, threw, asked>>

Environment == {<<"DATA_AES_KEY", "v0">>}

Policy(strategy) ==
    NormalizeDataProtection([strategy |-> strategy, type |-> "symmetric"])

\* preprocessSchema(): the accessors of a path, and what they were made with.
\* There is no access, no protection, or both: dataPoliciesGetter().
PreprocessSchema ==
    [access : {"none", "public", "protected", "private", "internal"},
     protection : {"none", "mask", "encrypt", "hash"},
     transform : {"none", "transformByDataProtection"}]

HasDataAccess == schema.access # "none"

\* The value in the document.
Raw ==
    IF schema.protection = "none" THEN PlainText("value")
    ELSE Protect(Policy(schema.protection), PlainText("value"), Environment)

SerializationInit ==
    /\ schema \in PreprocessSchema
    /\ store = [session |-> "none", useDataAccessGet |-> FALSE]
    /\ pending = Nothing /\ shown = Nothing
    /\ threw = FALSE /\ asked = 0

Asks == asked < Requests /\ asked' = asked + 1

\* getModel() with useALS.  The session is an object whoever asks, one without
\* a type if the request has no session.
UseALS ==
    /\ Asks
    /\ \E type \in {"untyped", "anonymous", "user"} :
         store' = [session |-> type, useDataAccessGet |-> FALSE]
    /\ UNCHANGED <<schema, pending, shown, threw>>

-----------------------------------------------------------------------------
\* Getters.

Value(t) == [method |-> "none", text |-> t, version |-> "none", type |-> "none"]

DataAccessGetter(in) == Value(Access(schema.access, Raw, in.session))

DataProtectionGetter == Accessor(Policy(schema.protection), Raw)

\* dataPoliciesGetter() is the one or the other.
DataPoliciesGetter(in) ==
    IF in.useDataAccessGet THEN DataAccessGetter(in) ELSE DataProtectionGetter

Getter(in) ==
    IF ~HasDataAccess /\ schema.protection = "none" THEN Value(Raw)
    ELSE IF ~HasDataAccess THEN DataProtectionGetter
    ELSE IF schema.protection = "none" THEN DataAccessGetter(in)
    ELSE DataPoliciesGetter(in)

Shows(by, session, got) == shown' = [by |-> by, session |-> session, got |-> got]

\* The application reads the field.
Read ==
    /\ Asks
    /\ Shows("read", store.session, Getter(store))
    /\ UNCHANGED <<schema, store, pending, threw>>

-----------------------------------------------------------------------------
\* toJSON.

\* The session in effect: the explicit one, or that of the store.
Effective(given, in) == IF given = "none" THEN in.session ELSE given

\* transformByDataAccess() goes through the getters, and what the transforms
\* before it made is gone, or filters what it is given.
ByGetters(given, in) == given = "none" /\ in.session # "none"

\* Mutant of TransformByDataAccess: the getters are not told.
AsksForNoAccess(ret, given, in) ==
    IF ByGetters(given, in) THEN Getter(in)
    ELSE Value(Access(schema.access, ret, Effective(given, in)))

TransformByDataAccess(ret, given, in) ==
    IF ByGetters(given, in) THEN Getter([in EXCEPT !.useDataAccessGet = TRUE])
    ELSE Value(Access(schema.access, ret, Effective(given, in)))

\* baseTransformations(): the transforms of toJSON after the schema's own.
BaseTransformations(ret, given, in) ==
    IF HasDataAccess THEN TransformByDataAccess(ret, given, in) ELSE Value(ret)

\* What transformByDataProtection() resolves to.
Decoded ==
    IF schema.protection = "none" THEN Raw
    ELSE Unprotect(Policy(schema.protection), Raw, Environment)

\* The schema has no transform of its own: the store is changed for the
\* duration of the getters, and restored.
ToJSON(given) ==
    /\ schema.transform = "none" /\ Asks
    /\ Shows("toJSON", Effective(given, store), BaseTransformations(Raw, given, store))
    /\ UNCHANGED <<schema, store, pending, threw>>

\* A getter of the application throws in the middle: nothing is restored.
ToJSONThrows(given) ==
    /\ schema.transform = "none" /\ Asks
    /\ HasDataAccess /\ ByGetters(given, store)
    /\ store' = [store EXCEPT !.useDataAccessGet = TRUE]
    /\ threw' = TRUE
    /\ UNCHANGED <<schema, pending, shown>>

\* It has one that gives a promise: the others wait for it, in the store of now.
AwaitTransform(given) ==
    /\ schema.transform # "none" /\ pending = Nothing /\ Asks
    /\ pending' = [given |-> given, in |-> store]
    /\ UNCHANGED <<schema, store, shown, threw>>

\* A getter that throws now changes the store of the callback alone.
TransformResolves ==
    /\ pending # Nothing
    /\ \/ HasDataAccess /\ ByGetters(pending.given, pending.in) /\ UNCHANGED shown
       \/ Shows("toJSON", Effective(pending.given, pending.in),
                BaseTransformations(Decoded, pending.given, pending.in))
    /\ pending' = Nothing
    /\ UNCHANGED <<schema, store, threw, asked>>

SerializationNext ==
    \/ UseALS \/ Read \/ TransformResolves
    \/ \E given \in {"none", "anonymous", "user"} :
         ToJSON(given) \/ ToJSONThrows(given) \/ AwaitTransform(given)

-----------------------------------------------------------------------------
\* The field's text, stored, decrypted, or without its label.
Withheld ==
    {Raw, Decoded} \cup (IF schema.protection = "none" THEN {} ELSE {DataProtectionGetter.text})

\* However a field with an access policy is serialized -- with the session of
\* the store or with an explicit one, at once or after a transform that took
\* its time -- nobody is shown more than the policy gives the session: an
\* anonymous one sees neither the stored nor the decrypted text of a field that
\* is not public (transforms/data-policies.ts, policies/access.ts).
NothingBeyondThePolicy ==
    shown # Nothing /\ shown.by = "toJSON" /\ HasDataAccess =>
        LET text == shown.got.text IN
        /\ schema.access = "internal" \/ shown.session = "none" => text = Nothing
        /\ shown.session = "anonymous" =>
             /\ schema.access = "private" => text = Nothing
             /\ schema.access = "protected" => text \notin Withheld \ {Nothing}

\* docs/DATA-PROTECTION.md: on a plain field access dataPoliciesGetter() is
\* dataProtectionGetter() alone.  So it is, whatever was serialized before,
\* unless a getter threw while it was.
ReadsIgnoreTheAccess ==
    shown # Nothing /\ shown.by = "read" /\ schema.protection # "none" /\ ~threw
        => shown.got = DataProtectionGetter

\* The policy of access decides what a serialization shows, and nothing else.
AccessIsForSerialization == NothingBeyondThePolicy /\ ReadsIgnoreTheAccess
=============================================================================
