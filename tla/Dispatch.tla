----------------------------- MODULE Dispatch -----------------------------
(***************************************************************************)
(* One call on a document of a model with triggers: the hooks around it    *)
(* (processor/triggers/mod.ts), the conditions of each action              *)
(* (conditions.ts) and the jobs they are sent to (dispatch.ts).  Somebody  *)
(* else may write to the document meanwhile.  What a protected field looks *)
(* like to a trigger is in Documents.                                      *)
(***************************************************************************)
EXTENDS Integers, Sequences

CONSTANTS
    FieldValues,    \* the numbers that a field may hold
    Conditions,     \* the conditions there are, and those they are made of
    Triggers,       \* what a model may have: sequences of actions, in both phases
    Absent          \* undefined: no document, no field

VARIABLES
    doc,        \* the document: [status, plan], or Absent
    call,       \* the operation, its filter, its $set, how far it is
    action,     \* action[a]: an action of a pre or post trigger
    amqp,       \* AMQP_URI is set
    disturbed   \* somebody else wrote during the call

dispatchVars == <<doc, call, action, amqp, disturbed>>

Fields == {"status", "plan"}

Kinds == {"mail", "custom", "other"}

\* jobNameFor(): mail and request have a default job, custom names its own,
\* and nothing is registered for the other kind.
HasJob(kind) == kind \in {"mail", "custom"}

-----------------------------------------------------------------------------
\* Conditions: a field compared with a value, or and/or/not over a sequence.

Field(data, field) == IF data = Absent \/ field \notin DOMAIN data THEN Absent ELSE data[field]

Compare(op, left, right) ==
    CASE op = "=" -> left = right
      [] op = "!=" -> left # right
      [] op \in {"<", ">"} ->
           left # Absent /\ right # Absent /\ IF op = "<" THEN left < right ELSE left > right

\* every() and some() stop at the first result that is not the one to go on after.
FirstNot(results, on) ==
    IF \A i \in DOMAIN results : results[i] = on THEN on
    ELSE results[CHOOSE i \in DOMAIN results : results[i] # on /\ \A j \in 1 .. i - 1 : results[j] = on]

Every(results) == FirstNot(results, "true")

Some(results) == FirstNot(results, "false")

Not(result) == CASE result = "true" -> "false" [] result = "false" -> "true" [] result = "throws" -> "throws"

EvaluateCondition(condition, data) ==
    LET result[c \in Conditions] ==
          LET results == [i \in DOMAIN c.of |-> result[c.of[i]]] IN
          CASE c.is = "single" -> IF Compare(c.op, Field(data, c.field), c.value) THEN "true" ELSE "false"
            [] c.is = "and" -> Every(results)
            [] c.is = "or" -> Some(results)
            [] c.is = "not" -> Not(Every(results))
            [] c.is = "malformed" -> "throws"
    IN result[condition]

ValidateConditions(data, conditions) ==
    Every([i \in DOMAIN conditions |-> EvaluateCondition(conditions[i], data)])

-----------------------------------------------------------------------------
\* A filter is the document's _id or its status; $set is a part of the fields.

Selected(d) == d # Absent /\ (call.filter = Absent \/ d.status = call.filter)

Merged(d, set) == [f \in DOMAIN set \cup (IF d = Absent THEN {} ELSE DOMAIN d) |->
                      IF f \in DOMAIN set THEN set[f] ELSE d[f]]

Updates == {"updateOne", "findOneAndUpdate"}

\* What the pre hooks hand to the triggers: of an update, only what it sets.
PreData ==
    CASE call.op = "create" -> call.set
      [] call.op \in Updates -> call.set
      [] call.op = "deleteOne" -> IF Selected(doc) THEN doc ELSE Absent

\* Mutant of PostData: what updateOne() wrote is not read again.
NotReread ==
    CASE call.op = "create" -> doc
      [] call.op \in Updates -> Merged(Absent, call.set)
      [] call.op = "deleteOne" -> call.stash

\* And the post hooks: the document read again, by the filter of the update;
\* what findOneAndUpdate() returned, which is as it was before; and what was
\* stashed before the delete.
PostData ==
    CASE call.op = "create" -> IF doc # Absent THEN doc ELSE call.set
      [] call.op = "updateOne" -> Merged(IF Selected(doc) THEN doc ELSE Absent, call.set)
      [] call.op = "findOneAndUpdate" -> Merged(call.stash, call.set)
      [] call.op = "deleteOne" -> call.stash

Of(phase) == {a \in DOMAIN action : action[a].phase = phase}

\* dispatchAction() up to its first await: the actions of one phase, together.
Begun(a, data) ==
    LET outcome == ValidateConditions(data, a.conditions) IN
    IF outcome = "throws" THEN "failed"
    ELSE IF outcome = "false" THEN "skipped"
    ELSE IF ~HasJob(a.kind) THEN "failed"
    ELSE IF amqp THEN "publishing" ELSE "sent"

\* Mutant of DispatchAll: an action that fails ends the loop.
OneAtATime(phase, data) ==
    action' = [a \in DOMAIN action |->
                 IF action[a].phase # phase \/ \E b \in Of(phase) : b < a /\ Begun(action[b], data) = "failed"
                 THEN action[a]
                 ELSE [action[a] EXCEPT !.is = Begun(action[a], data)]]

DispatchAll(phase, data) ==
    action' = [a \in DOMAIN action |->
                 IF action[a].phase # phase THEN action[a]
                 ELSE [action[a] EXCEPT !.is = Begun(action[a], data)]]

-----------------------------------------------------------------------------
DispatchInit ==
    /\ amqp \in BOOLEAN /\ disturbed = FALSE
    /\ \E op \in {"create", "deleteOne"} \cup Updates, filter \in FieldValues \cup {Absent}, value \in FieldValues,
          fields \in {{"status"}, {"plan"}, Fields} :
         /\ op = "create" => fields = Fields /\ filter = Absent
         /\ call = [op |-> op, pc |-> "pre", filter |-> filter, set |-> [f \in fields |-> value],
                    stash |-> Absent, after |-> Absent, applied |-> FALSE]
    /\ doc \in IF call.op = "create" THEN {Absent} ELSE [Fields -> FieldValues]
    /\ \E trigger \in Triggers :
         action = [a \in DOMAIN trigger |-> [phase |-> trigger[a].phase, kind |-> trigger[a].kind,
                                             conditions |-> trigger[a].conditions, is |-> "waiting"]]

\* The hook of a delete that finds nothing dispatches nothing.
Pre ==
    /\ call.pc = "pre"
    /\ IF call.op = "deleteOne" /\ PreData = Absent THEN UNCHANGED action ELSE DispatchAll("pre", PreData)
    /\ call' = [call EXCEPT !.pc = "preWait", !.stash = IF call.op = "deleteOne" THEN PreData ELSE Absent]
    /\ UNCHANGED <<doc, amqp, disturbed>>

\* The queue takes a job, or refuses it.
Publish(a, is) ==
    /\ action[a].is = "publishing"
    /\ action' = [action EXCEPT ![a].is = is]
    /\ UNCHANGED <<doc, call, amqp, disturbed>>

\* Promise.all(): the first failure rejects, whatever the others are doing.
Waits(phase, next) ==
    call' = [call EXCEPT !.pc = IF \E a \in Of(phase) : action[a].is = "failed" THEN "rejected" ELSE next]

Settled(phase) ==
    \/ \E a \in Of(phase) : action[a].is = "failed"
    \/ \A a \in Of(phase) : action[a].is # "publishing"

PreSettled ==
    /\ call.pc = "preWait" /\ Settled("pre") /\ Waits("pre", "write")
    /\ UNCHANGED <<doc, action, amqp, disturbed>>

Applied ==
    LET hit == call.op = "create" \/ Selected(doc)
        after == CASE ~hit -> doc
                   [] hit /\ call.op = "create" -> call.set
                   [] hit /\ call.op \in Updates -> Merged(doc, call.set)
                   [] hit /\ call.op = "deleteOne" -> Absent IN
    /\ call.pc = "write" /\ doc' = after
    /\ call' = [call EXCEPT !.pc = "post", !.after = after, !.applied = hit,
                            !.stash = IF call.op = "findOneAndUpdate" /\ hit THEN doc ELSE @]
    /\ UNCHANGED <<action, amqp, disturbed>>

WriteFails ==
    /\ call.pc = "write" /\ call' = [call EXCEPT !.pc = "rejected"]
    /\ UNCHANGED <<doc, action, amqp, disturbed>>

Post ==
    /\ call.pc = "post"
    /\ IF PostData = Absent THEN UNCHANGED action ELSE DispatchAll("post", PostData)
    /\ call' = [call EXCEPT !.pc = "postWait"]
    /\ UNCHANGED <<doc, amqp, disturbed>>

PostSettled ==
    /\ call.pc = "postWait" /\ Settled("post") /\ Waits("post", "resolved")
    /\ UNCHANGED <<doc, action, amqp, disturbed>>

OthersWriteDoc ==
    /\ call.pc \notin {"pre", "resolved", "rejected"} /\ ~disturbed /\ disturbed' = TRUE
    /\ doc # Absent /\ doc' \in [Fields -> FieldValues] \cup {Absent}
    /\ UNCHANGED <<call, action, amqp>>

DispatchNext ==
    \/ Pre \/ PreSettled \/ Applied \/ WriteFails \/ Post \/ PostSettled \/ OthersWriteDoc
    \/ \E a \in DOMAIN action, is \in {"sent", "failed"} : Publish(a, is)

-----------------------------------------------------------------------------
\* The conditions of a post trigger are decided on the document that the call
\* left, or removed: unless somebody else wrote meanwhile, the update changed
\* the status its filter asks for, or it found nothing to change.
PostDecidesOnTheDocument ==
    LET ownFilter == call.op = "updateOne" /\ ~Selected(call.after)
        seen == IF call.op = "deleteOne" THEN call.stash ELSE call.after IN
    call.pc \in {"postWait", "resolved"} /\ call.applied /\ ~disturbed /\ ~ownFilter =>
        \A a \in Of("post") : (action[a].is = "skipped") <=> ValidateConditions(seen, action[a].conditions) = "false"

\* An action that fails keeps no other action of its phase from being sent;
\* the call fails, although it may have been applied.
FailuresAreIsolated ==
    call.pc \in {"resolved", "rejected"} =>
        /\ \A a \in DOMAIN action : action[a].is = "failed" =>
             \A b \in Of(action[a].phase) : action[b].is # "waiting"
        /\ call.pc = "resolved" => \A a \in DOMAIN action : action[a].is # "failed"
=============================================================================
