---------------------------- MODULE Transforms ----------------------------
(***************************************************************************)
(* transformShallowByPaths() and transformDeepByPaths() (schema/transforms *)
(* /shallow.ts and recursively.ts): what a transform does, in place, to a  *)
(* document under a path with wildcards.  A document is a function from    *)
(* addresses, sequences of keys, to what is there: a leaf (falsy as 0 and  *)
(* "", or not), null, or a node: an object, an array or a map.  A step is  *)
(* a turn of a loop or a call of the recursion; what is still to be done   *)
(* is a set, since no call meets what another one does.  No metadata is    *)
(* deleted, no transform is asynchronous.                                  *)
(***************************************************************************)
EXTENDS Integers, Sequences

CONSTANTS
    Documents,  \* the documents that are transformed
    Paths,      \* the paths of the configuration, as sequences of keys
    Indices     \* the keys that start with a digit

VARIABLES
    input,      \* [value, path, deep, removes]: one call
    ret,        \* the document, as it is now
    calls,      \* [at, does]: a path followed, or every value below ("all"),
                \* of which the result is dropped ("dropped")
    thrown       \* it ended with a TypeError

transformVars == <<input, ret, calls, thrown>>

Leaves == {"leaf", "falsy"}

Nodes == {"object", "array", "map"}

Below(b, a) == Len(a) <= Len(b) /\ \A i \in DOMAIN a : b[i] = a[i]

Children(a) == {b \in DOMAIN ret : Len(b) = Len(a) + 1 /\ Below(b, a)}

\* An address is a key in its parent.
LastKey(a) == a[Len(a)]

Parent(a) == SubSeq(a, 1, Len(a) - 1)

\* The last "*" of a path is not needed.
Keys == IF LastKey(input.path) = "*" THEN Parent(input.path) ELSE input.path

\* The next key of a call.
Key(c) == Keys[Len(c.at) + 1]

Follow(addresses) == {[at |-> a, does |-> "path"] : a \in addresses}

Goes(c, more, document) ==
    /\ ret' = document /\ calls' = (calls \ {c}) \cup more
    /\ UNCHANGED <<input, thrown>>

Throws == thrown' = TRUE /\ calls' = {} /\ UNCHANGED <<input, ret>>

-----------------------------------------------------------------------------
\* transformShallowByPaths(): a null on the way becomes an empty value, which
\* kind is said by the key after "*", or by the key itself.
Empty(a) ==
    LET n == Len(a) + IF Keys[Len(a)] = "*" THEN 1 ELSE 0 IN
    IF n \in DOMAIN Keys /\ Keys[n] \in Indices THEN "array" ELSE "object"

\* Mutant of NextDst: what a map has is replaced as well.
EmptiesMaps(a) == IF ret[a] = "null" THEN [ret EXCEPT ![a] = Empty(a)] ELSE ret

\* defineNextDst(), in the parent, unless it is a map.
NextDst(a) == IF ret[a] = "null" /\ ret[Parent(a)] # "map" THEN [ret EXCEPT ![a] = Empty(a)] ELSE ret

\* responseValidation(): the value is replaced, or removed, with all below it.
Put(a) ==
    LET others == {b \in DOMAIN ret : ~Below(b, a)} IN
    [b \in others \cup (IF input.removes THEN {} ELSE {a}) |-> IF b = a THEN "done" ELSE ret[b]]

\* A key that starts with a digit is looked up as a number, which no map has.
Has(a, key) == Append(a, key) \in DOMAIN ret /\ ~(ret[a] = "map" /\ key \in Indices)

\* A turn of traverse(): the path ends, or there is nothing to go on with.
TraverseEnds(c) ==
    /\ Len(c.at) = Len(Keys) \/ ret[c.at] \in {"null", "falsy"}
    /\ Goes(c, {}, NextDst(c.at))

TraverseAll(c) ==
    /\ Len(c.at) < Len(Keys) /\ ret[c.at] \notin {"null", "falsy"} /\ Key(c) = "*"
    /\ Goes(c, Follow(Children(c.at)), ret)

\* "in" wants an object.
TraverseLeaf(c) ==
    /\ Len(c.at) < Len(Keys) /\ ret[c.at] = "leaf" /\ Key(c) # "*"
    /\ Throws

TraverseKey(c) ==
    LET next == Append(c.at, Key(c)) IN
    /\ Len(c.at) < Len(Keys) /\ ret[c.at] \in Nodes /\ Key(c) # "*"
    /\ IF ~Has(c.at, Key(c)) THEN Goes(c, {}, ret)
       ELSE IF Len(next) = Len(Keys) THEN Goes(c, {}, Put(next)) ELSE Goes(c, Follow({next}), ret)

TransformShallowByPaths(c) ==
    /\ ~input.deep
    /\ TraverseEnds(c) \/ TraverseAll(c) \/ TraverseLeaf(c) \/ TraverseKey(c)

-----------------------------------------------------------------------------
\* transformDeepByPaths(): the call for a value, as far as it is defined.
TransformAll(c) ==
    /\ Len(c.at) < Len(Keys) /\ Key(c) = "*"
    /\ IF ret[c.at] = "null" THEN Throws
       ELSE Goes(c, Follow({b \in Children(c.at) : ret[c.at] = "map" \/ LastKey(b) # "_id"}), ret)

TransformLast(c) ==
    LET next == {Append(c.at, Key(c))} \cap DOMAIN ret IN
    /\ Len(c.at) + 1 = Len(Keys) /\ Key(c) # "*"
    /\ IF ret[c.at] = "null" THEN Throws ELSE Goes(c, {[at |-> a, does |-> "all"] : a \in next}, ret)

\* The result is assigned as the property of an object, of a map too.
TransformHere(c) ==
    LET does == IF ret[Parent(c.at)] = "map" THEN "dropped" ELSE "all" IN
    /\ Len(c.at) = Len(Keys)
    /\ Goes(c, IF ret[c.at] \in {"null", "falsy"} THEN {} ELSE {[at |-> c.at, does |-> does]}, ret)

TransformNext(c) ==
    /\ Len(c.at) + 1 < Len(Keys) /\ Key(c) # "*"
    /\ Goes(c, Follow({Append(c.at, Key(c))} \cap DOMAIN ret), ret)

\* baseRecursiveTransform(): every leaf, but not what an object has as _id; an
\* array is made anew, the others stay.
BaseNode(c) ==
    LET does == IF ret[c.at] = "array" THEN c.does ELSE "all"
        values == {b \in Children(c.at) : ret[c.at] # "object" \/ LastKey(b) # "_id"} IN
    /\ ret[c.at] \in Nodes
    /\ Goes(c, {[at |-> b, does |-> does] : b \in values}, ret)

BaseValue(c) ==
    /\ ret[c.at] \notin Nodes
    /\ Goes(c, {}, IF ret[c.at] = "null" \/ c.does = "dropped" THEN ret ELSE [ret EXCEPT ![c.at] = "done"])

TransformDeepByPaths(c) ==
    /\ input.deep
    /\ IF c.does = "path" THEN TransformAll(c) \/ TransformLast(c) \/ TransformHere(c) \/ TransformNext(c)
       ELSE BaseNode(c) \/ BaseValue(c)

-----------------------------------------------------------------------------
TransformsInit ==
    /\ \E value \in Documents, path \in Paths, deep, removes \in BOOLEAN :
         /\ deep => ~removes
         /\ input = [value |-> value, path |-> path, deep |-> deep, removes |-> removes]
    /\ ret = input.value /\ thrown = FALSE
    /\ calls = Follow(IF input.deep THEN {<<Keys[i]>> : i \in DOMAIN Keys \cap {1}} \cap DOMAIN ret ELSE {<<>>})

TransformsNext == \E c \in calls : TransformShallowByPaths(c) \/ TransformDeepByPaths(c)

-----------------------------------------------------------------------------
\* What a document had at the address of its first n keys.
Above(a, n) == input.value[SubSeq(a, 1, n)]

\* The address fits the first keys of the path.  A shallow transform finds no
\* digits in a map; a deep one takes no _id for a "*", nor a "*" that comes first.
Fits(a) ==
    /\ Len(a) <= Len(Keys)
    /\ \A i \in DOMAIN a :
         /\ Keys[i] \in {a[i], "*"}
         /\ ~input.deep /\ Keys[i] # "*" => ~(Above(a, i - 1) = "map" /\ Keys[i] \in Indices)
         /\ input.deep /\ Keys[i] = "*" =>
              IF i = 1 THEN a[i] = "*" ELSE Above(a, i - 1) = "map" \/ a[i] # "_id"

Under(a) == Len(Keys) <= Len(a) /\ Fits(SubSeq(a, 1, Len(Keys)))

\* The path names values, and not what an object or an array has.
Selects == Keys # <<>> /\ LastKey(Keys) # "*"

\* A null on the way.
Emptied(a) ==
    /\ a # <<>> /\ Fits(a) /\ (Selects => Len(a) < Len(Keys))
    /\ input.value[a] = "null" /\ Above(a, Len(a) - 1) # "map"

\* A shallow transform reaches exactly the values at the path: whatever it has
\* done so far, every other address has what it had, except a null on the way,
\* in an object or an array, which becomes an empty value.
ShallowIsExact ==
    ~input.deep =>
        /\ DOMAIN ret \subseteq DOMAIN input.value
        /\ \A a \in DOMAIN input.value : ~(Selects /\ Under(a)) =>
             a \in DOMAIN ret /\ (ret[a] = input.value[a] \/ (Emptied(a) /\ ret[a] \in {"array", "object"}))
        /\ calls = {} /\ ~thrown => \A a \in DOMAIN input.value :
             /\ Emptied(a) => ret[a] # "null"
             /\ Selects /\ Len(a) = Len(Keys) /\ Fits(a) =>
                  IF input.removes THEN a \notin DOMAIN ret ELSE ret[a] = "done"

\* What a deep transform finds itself at the end of its path is left alone if
\* it is falsy, and if a map has it, a leaf in nothing but new arrays is.
FoundReaches(a) ==
    /\ Len(a) > Len(Keys) \/ input.value[a] # "falsy"
    /\ \/ Above(a, Len(Keys) - 1) # "map"
       \/ \E n \in Len(Keys) .. Len(a) - 1 : Above(a, n) \in {"object", "map"}

\* And so is what is below the _id of an object.
DeepReaches(a) ==
    /\ Keys # <<>> /\ Under(a)
    /\ \A i \in Len(Keys) + 1 .. Len(a) : a[i] = "_id" => Above(a, i - 1) # "object"
    /\ Len(Keys) = 1 \/ LastKey(Keys) = "*" => FoundReaches(a)

\* A deep transform changes only leaves at and below the path, and in the end
\* all that it reaches.
DeepIsExact ==
    input.deep =>
        /\ DOMAIN ret = DOMAIN input.value
        /\ \A a \in DOMAIN input.value :
             ret[a] = input.value[a] \/ (ret[a] = "done" /\ input.value[a] \in Leaves /\ DeepReaches(a))
        /\ calls = {} /\ ~thrown =>
             \A a \in DOMAIN input.value : input.value[a] \in Leaves /\ DeepReaches(a) => ret[a] = "done"

\* Both traversals change what their path names and leave the rest alone.
TransformsAreExact == ShallowIsExact /\ DeepIsExact
=============================================================================
