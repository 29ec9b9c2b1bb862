------------------------------ MODULE MCModels ------------------------------
(* Instances for TLC of the small modules about models and stores: the     *)
(* constants of MCParts.                                                   *)
EXTENDS MCParts

CONSTANTS
    s1, s2

TwoSeeders == <<s1, s2>>

\* Texts that are prefixes and substrings of each other.
SomeWords == <<<<"a">>, <<"a", "b">>, <<"b", "a">>, <<"a", "a">>>>

SomeTTLs == {-1, 0, 1, 2}

Single(field, op, value) == [is |-> "single", field |-> field, op |-> op, value |-> value]

\* None, nested ones, and one that throws if it is reached.
SomeConditions ==
    {<<>>,
     <<Single("plan", "=", 1), [is |-> "not", of |-> <<Single("status", "=", 2), Single("plan", "!=", 2)>>]>>,
     <<[is |-> "or", of |-> <<Single("status", ">", 1), [is |-> "malformed"]>>]>>}

\* All of these, and those in "not" and "or".
AllConditions ==
    LET tops == UNION {ToSet(conditions) : conditions \in SomeConditions} IN
    tops \cup UNION {ToSet(c.of) : c \in {t \in tops : t.is # "single"}}

Act(phase, kind, conditions) == [phase |-> phase, kind |-> kind, conditions |-> conditions]

\* One action before and two after, of which one is never skipped.
SomeTriggers ==
    {<<Act("pre", one, conditions), Act("post", two, conditions), Act("post", "custom", <<>>)>> :
        one, two \in {"mail", "custom", "other"}, conditions \in SomeConditions}

\* Documents of two levels: falsy and other leaves, nulls, objects, maps, arrays;
\* and of three, where a map holds an array or an object.
Node(kind, of) ==
    [a \in {<<>>} \cup UNION {{<<k>> \o b : b \in DOMAIN of[k]} : k \in DOMAIN of} |->
        IF a = <<>> THEN kind ELSE of[Head(a)][Tail(a)]]

NodesOf(kind, keys, values) == {Node(kind, of) : of \in UNION {[s -> values] : s \in SUBSET keys}}

Scalars == {[a \in {<<>>} |-> kind] : kind \in {"leaf", "falsy", "null"}}

SomeValues == Scalars \cup NodesOf("object", {"a", "b"}, Scalars) \cup NodesOf("object", {"a", "_id"}, Scalars)
                      \cup NodesOf("map", {"a"}, Scalars) \cup NodesOf("map", {"0"}, Scalars)
                      \cup NodesOf("array", {"0"}, Scalars)
                      \cup NodesOf("map", {"a"}, NodesOf("array", {"0"}, Scalars) \cup NodesOf("object", {"a"}, Scalars))

SomeDocuments == NodesOf("object", {"a", "_id"}, SomeValues)

SomePaths == {<<"a">>, <<"a", "*">>, <<"a", "a">>, <<"a", "0">>, <<"a", "*", "a">>, <<"a", "*", "0">>,
              <<"*", "a">>, <<"*", "*", "a">>, <<"a", "*", "*">>, <<"a", "*", "*", "*">>,
              <<"a", "a", "a">>, <<"a", "0", "a">>, <<"*">>}
=============================================================================
