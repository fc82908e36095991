-------------------------- MODULE EvaluationRegister --------------------------
(***************************************************************************)
(* What the evaluation service promises, with no process, no await and no  *)
(* transaction: a register of evaluations.  An evaluation is born once and *)
(* stays; it takes at most one human decision, which answers one request   *)
(* for ever; asking for a re-check is the same step as the birth of the    *)
(* evaluation that re-checks; and a key that was answered keeps its answer.*)
(***************************************************************************)

CONSTANT None

VARIABLES
    parent,    \* evaluation -> the evaluation it re-checks, or None
    decided,   \* evaluation -> its decision and the child, if it has one
    answers    \* <<scope, key>> -> response

vars == <<parent, decided, answers>>

Init == parent = <<>> /\ decided = <<>> /\ answers = <<>>

With(table, key, value) ==
    [k \in DOMAIN table \cup {key} |-> IF k = key THEN value ELSE table[k]]

\* Evaluations nobody asked a decision for: a seed, or a run without a key.
BornTogether ==
    /\ \E ids \in SUBSET (DOMAIN parent' \ DOMAIN parent) :
         /\ ids # {}
         /\ parent' = [id \in DOMAIN parent \cup ids |->
                          IF id \in ids THEN None ELSE parent[id]]
    /\ UNCHANGED <<decided, answers>>

Verified ==
    \E id \in DOMAIN parent' \ DOMAIN parent :
      \E at \in DOMAIN answers' \ DOMAIN answers :
        /\ parent'  = With(parent, id, None)
        /\ answers' = With(answers, at, [evaluation |-> id])
        /\ UNCHANGED decided

DecidedOnce ==
    \E id \in DOMAIN parent \ DOMAIN decided :
      \E at \in DOMAIN answers' \ DOMAIN answers :
        LET response == answers'[at]
            child    == response.child
        IN /\ response.evaluation = id
           /\ decided' = With(decided, id, [decision |-> response.decision, child |-> child])
           /\ answers' = With(answers, at, response)
           /\ IF response.decision = "Re-check requested"
                THEN child \notin DOMAIN parent /\ parent' = With(parent, child, id)
                ELSE child = None /\ UNCHANGED parent

Next == BornTogether \/ Verified \/ DecidedOnce

Spec == Init /\ [][Next]_vars

=============================================================================
