---------------------------- MODULE Pagination ----------------------------
(***************************************************************************)
(* A client reads a collection page by page while others write to it:      *)
(* paginate() and paginateCursor() (schema/statics/pagination.ts) with the *)
(* filters of buildSearchFilter() (search.ts) and protectFilterByPaths()   *)
(* (transforms/filter.ts).  A document has one text field, a word, that is *)
(* stored masked, hashed or as it is.                                      *)
(***************************************************************************)
EXTENDS Integers, Sequences, SequencesExt, FiniteSetsExt

CONSTANTS
    Words,      \* Words[id]: the text of the document with this _id, a number from 1
    Limit,      \* the size of a page
    MaxWrites   \* bound: documents inserted and deleted during the walk

VARIABLES
    present,    \* the documents of the collection
    query,      \* the options of the walk: what it reads and how
    walk,       \* how far it is
    constant,   \* the documents present since it began
    writes      \* documents inserted and deleted

paginationVars == <<present, query, walk, constant, writes>>

Ids == DOMAIN Words

-----------------------------------------------------------------------------
\* What is stored, and what a query condition matches.

\* mask() is keyed by position, under the label of the version.
Masked(w) == <<<<0, "v1">>>> \o [i \in DOMAIN w |-> <<i, w[i]>>]

Stored(id) ==
    CASE query.strategy = "none" -> Words[id]
      [] query.strategy = "mask" -> Masked(Words[id])
      [] query.strategy = "hash" -> <<"hash", Words[id]>>

Substring(w, text) == \E i \in 0..Len(text) : IsPrefix(w, SubSeq(text, i + 1, Len(text)))

\* A condition is [op, value]; the one without a value takes any text.
Anything == [op |-> "any"]

Matches(condition, text) ==
    CASE condition.op = "any" -> TRUE
      [] condition.op = "eq" -> text = condition.value
      [] condition.op = "in" -> text \in condition.value
      [] condition.op = "regex" -> Substring(condition.value, text)
      [] condition.op = "prefix" -> IsPrefix(condition.value, text)

\* buildSearchFilter(): the pattern for the term of the query.
BuildSearchFilter ==
    CASE query.search = <<>> -> Anything
      [] query.search # <<>> /\ query.strategy = "none" -> [op |-> "regex", value |-> query.search]
      [] query.search # <<>> /\ query.strategy # "none" -> [op |-> "prefix", value |-> Masked(query.search)]

\* protectFilterByPaths(), where it does not throw.
ProtectFilter(condition) ==
    CASE condition.op = "eq" -> [op |-> "eq", value |-> Masked(condition.value)]
      [] condition.op = "in" -> [op |-> "in", value |-> {Masked(w) : w \in condition.value}]
      [] condition.op \notin {"eq", "in"} -> condition

FieldFilter ==
    IF query.useDataPolicies /\ query.strategy # "none" THEN ProtectFilter(query.field) ELSE query.field

\* Searching needs a strategy that keeps prefixes; the data policies need mask
\* and equality, and find the pattern of the search in the filter as well.
Throws ==
    \/ query.search # <<>> /\ query.strategy = "hash"
    \/ /\ query.useDataPolicies /\ query.strategy # "none"
       /\ \/ query.search # <<>>
          \/ query.field.op # "any" /\ query.strategy # "mask"
          \/ query.field.op \notin {"any", "eq", "in"}

Accepted(id) == Matches(FieldFilter, Stored(id)) /\ Matches(BuildSearchFilter, Stored(id))

\* Mutant of AcceptedId: search and filter are merged, key by key.
CursorWins(id) ==
    /\ walk.cursor = 0 => id \in query.ids
    /\ id > walk.cursor

\* The _id condition of the caller and the cursor.  Next to a search, the
\* filter of the caller is a branch of an $and and keeps its _id; without one
\* the cursor takes the place of the _id of the filter.
AcceptedId(id) ==
    /\ (walk.cursor = 0 \/ query.search # <<>>) => id \in query.ids
    /\ id > walk.cursor

Found == {id \in present : Accepted(id) /\ AcceptedId(id)}

\* How many of a set of documents come up to this one, by _id.
Rank(id, ids) == Cardinality({other \in ids : other <= id})

\* The first n of them, in their order.
FirstOf(ids, n) ==
    [i \in 1..Min({n, Cardinality(ids)}) |-> CHOOSE id \in ids : Rank(id, ids) = i]

-----------------------------------------------------------------------------
PaginationInit ==
    /\ present \in SUBSET Ids
    /\ constant = present /\ writes = 0
    /\ \E strategy \in {"none", "mask", "hash"}, kind \in {"page", "cursor"},
          search \in {<<>>} \cup {Words[id] : id \in Ids},
          field \in {Anything} \cup {[op |-> "eq", value |-> Words[id]] : id \in Ids}
                    \cup {[op |-> "in", value |-> {Words[id] : id \in Ids}],
                          [op |-> "regex", value |-> Words[Max(Ids)]]},
          ids \in {Ids, Ids \ {Max(Ids)}}, useDataPolicies \in BOOLEAN :
         /\ field # Anything => search = <<>> /\ useDataPolicies
         /\ query = [strategy |-> strategy, kind |-> kind, search |-> search, field |-> field,
                     ids |-> ids, useDataPolicies |-> useDataPolicies]
    /\ walk = [pc |-> "asking", page |-> 1, cursor |-> 0, docs |-> <<>>, seen |-> <<>>, total |-> 0]

QueryThrows ==
    /\ walk.pc = "asking" /\ Throws
    /\ walk' = [walk EXCEPT !.pc = "threw"]
    /\ UNCHANGED <<present, query, constant, writes>>

\* paginate(): find() and countDocuments() run at the same time.
FindPage ==
    /\ walk.pc \in {"asking", "counted"} /\ ~Throws /\ query.kind = "page"
    /\ LET skip == (walk.page - 1) * Limit
           docs == FirstOf(Found, skip + Limit) IN
         walk' = [walk EXCEPT !.docs = SubSeq(docs, skip + 1, Len(docs)),
                              !.pc = IF @ = "asking" THEN "found" ELSE "read"]
    /\ UNCHANGED <<present, query, constant, writes>>

CountDocuments ==
    /\ walk.pc \in {"asking", "found"} /\ ~Throws /\ query.kind = "page"
    /\ walk' = [walk EXCEPT !.total = Cardinality(Found),
                            !.pc = IF @ = "asking" THEN "counted" ELSE "read"]
    /\ UNCHANGED <<present, query, constant, writes>>

\* The caller goes on to the next page while hasNextPage says so.
NextPage ==
    /\ walk.pc = "read"
    /\ walk' = [walk EXCEPT !.seen = @ \o walk.docs, !.docs = <<>>, !.page = @ + 1,
                            !.pc = IF walk.page * Limit < walk.total THEN "asking" ELSE "done"]
    /\ UNCHANGED <<present, query, constant, writes>>

\* paginateCursor(): one document more than a page tells whether there is
\* another; the last one of the page is its cursor.
PaginateCursor ==
    LET docs == FirstOf(Found, Limit + 1) IN
    /\ walk.pc = "asking" /\ ~Throws /\ query.kind = "cursor"
    /\ walk' = IF Len(docs) > Limit
               THEN [walk EXCEPT !.seen = @ \o Front(docs), !.cursor = docs[Limit]]
               ELSE [walk EXCEPT !.seen = @ \o docs, !.pc = "done"]
    /\ UNCHANGED <<present, query, constant, writes>>

OthersWrite ==
    /\ writes < MaxWrites /\ writes' = writes + 1 /\ walk.pc \notin {"done", "threw"}
    /\ \E id \in Ids :
         /\ present' = IF id \in present THEN present \ {id} ELSE present \cup {id}
         /\ constant' = constant \ {id}
    /\ UNCHANGED <<query, walk>>

Walk == QueryThrows \/ FindPage \/ CountDocuments \/ NextPage \/ PaginateCursor

PaginationNext == Walk \/ OthersWrite

-----------------------------------------------------------------------------
\* What the options ask for, in terms of the plain text: equality, a substring
\* of what is stored as it is, and a prefix of what is masked.
Asked(id) ==
    /\ Matches(query.field, Words[id])
    /\ IF query.strategy = "none" THEN Substring(query.search, Words[id])
       ELSE IsPrefix(query.search, Words[id])

\* Every document that is returned is one that was asked for; after its first
\* page, a cursor walk without a search forgets the condition on the _id.
ReturnsWhatWasAsked ==
    \A i \in DOMAIN walk.seen :
        /\ Asked(walk.seen[i])
        /\ (query.kind = "page" \/ query.search # <<>> \/ i <= Limit) => walk.seen[i] \in query.ids

\* A walk by cursor returns nothing twice, and whatever matched throughout,
\* while documents come and go before and behind it; a walk by pages does so
\* when nobody writes.
WalksAll ==
    query.kind = "cursor" \/ writes = 0 =>
        /\ IsInjective(walk.seen)
        /\ walk.pc = "done" => {id \in constant : Asked(id) /\ id \in query.ids} \subseteq ToSet(walk.seen)

\* The pages of a walk hold what was asked for, all of it and nothing else.
PagesAreExact == ReturnsWhatWasAsked /\ WalksAll
=============================================================================
