--------------------------- MODULE MCStewardAgent ---------------------------
(* An instance for TLC: the candidate, the commit before or after it, and the *)
(* changes a push, a CI run, a deployment or a bad page make.                 *)
EXTENDS StewardAgentProperties

CONSTANTS candidate, other

TwoCommits == {candidate, other}

CI(conclusion) == [c \in Commits |-> IF c = Candidate THEN conclusion ELSE "success"]

StartWorlds ==
    [main : Commits, ci : {CI("success"), CI("running")},
     deployed : {other}, page : {"product"}]

\* A push to main or its revert, a CI that completes, a deployment that serves
\* the product or not, a marker or a page that breaks.
MovesOf(w) ==
    {[w EXCEPT !.main = c] : c \in Commits \ {w.main}}
    \cup {[w EXCEPT !.ci = CI(x)] : x \in {"success", "failure"}}
    \cup {[w EXCEPT !.deployed = Candidate, !.page = x] : x \in {"product", "other"}}
    \cup {[w EXCEPT !.deployed = Garbled], [w EXCEPT !.page = "other"]}

=============================================================================
