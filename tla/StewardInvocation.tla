-------------------------- MODULE StewardInvocation --------------------------
(***************************************************************************)
(* What the release worker may expect of one call of its runners: the      *)
(* steps of ReleaseSteward that stand for a whole invocation (Observed,    *)
(* ObservationFailed, ObservationDropped, SendPost, IncidentReturns).  No  *)
(* model, no tools and no requests.                                        *)
(***************************************************************************)
EXTENDS Naturals

VARIABLES phase, outcome, posts, issues, refusals

vars == <<phase, outcome, posts, issues, refusals>>

NoOutcome == [kind |-> "none", signal |-> "NONE"]

Signals(p) ==
    CASE p = "FIRST_OBSERVATION"     -> {"EVIDENCE_INVALID", "REQUIRED_CI_FAILED",
                                         "CANDIDATE_READY", "NORMAL_WAIT_REQUIRED"}
      [] p = "LATER_OBSERVATION"     -> {"CANDIDATE_READY", "NORMAL_WAIT_REQUIRED"}
      [] p = "EXTENSION_OBSERVATION" -> {"EXTENSION_READY", "EXTENSION_EXHAUSTED"}

Stops == {"EVIDENCE_INVALID", "EVIDENCE_UNAVAILABLE", "DEPLOYMENT_UNHEALTHY",
          "HOMEPAGE_SMOKE_UNHEALTHY"}

Init ==
    /\ phase \in {"FIRST_OBSERVATION", "LATER_OBSERVATION", "EXTENSION_OBSERVATION",
                  "ESCALATION_RESUME"}
    /\ outcome = NoOutcome /\ posts = 0 /\ issues = 0 /\ refusals = 0

Is(kind, signal) == outcome' = [kind |-> kind, signal |-> signal]

Observes ==
    /\ phase # "ESCALATION_RESUME" /\ outcome = NoOutcome
    /\ \/ \E signal \in Signals(phase) : Is("result", signal)
       \/ \E signal \in Stops : Is("stop", signal)
       \/ Is("dropped", "NONE")
    /\ UNCHANGED <<phase, posts, issues, refusals>>

\* Nothing was recorded of a dropped observation: the run is observed again.
ObservesAgain ==
    /\ outcome.kind = "dropped" /\ outcome' = NoOutcome
    /\ UNCHANGED <<phase, posts, issues, refusals>>

Posts ==
    /\ phase = "ESCALATION_RESUME" /\ outcome = NoOutcome /\ posts = 0
    /\ posts' = 1
    /\ UNCHANGED <<phase, outcome, issues, refusals>>

Settles ==
    /\ issues + refusals < posts
    /\ \/ issues' = issues + 1 /\ UNCHANGED refusals
       \/ refusals' = refusals + 1 /\ UNCHANGED issues
    /\ UNCHANGED <<phase, outcome, posts>>

Acts ==
    /\ phase = "ESCALATION_RESUME" /\ outcome = NoOutcome
    /\ \/ issues > 0 /\ Is("action", "CONFIRMED")
       \/ refusals > 0 /\ Is("action", "REJECTED")
       \/ Is("action", "UNCERTAIN")
    /\ UNCHANGED <<phase, posts, issues, refusals>>

Next == Observes \/ ObservesAgain \/ Posts \/ Settles \/ Acts

Spec == Init /\ [][Next]_vars

=============================================================================
