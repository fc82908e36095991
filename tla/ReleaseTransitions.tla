------------------------- MODULE ReleaseTransitions -------------------------
(***************************************************************************)
(* The closed vocabulary of a release run and its transition kernel:       *)
(* contracts/src/release-run.ts, contracts/src/release-transition.ts and   *)
(* the EVENT_SIGNALS table of storage/src/release-run-event-projection.ts. *)
(*                                                                         *)
(* The kernel is a map from (state, signal) to the next state and the stop *)
(* code.  In it a signal leads to one state whatever the state it is sent  *)
(* from, so it is written here as three functions of the signal: the       *)
(* states that accept it, the state it leads to, and its stop code.        *)
(***************************************************************************)

ActiveStates   == {"MONITORING", "WAITING", "AWAITING_DECISION", "RESUMING"}
TerminalStates == {"COMPLETED", "ESCALATED", "STOPPED"}
States         == ActiveStates \cup TerminalStates

\* The `null` state of a run that has no event yet, the absent signal of an
\* event that moves no state, and the absent stop code.
NoState  == "NO_STATE"
NoSignal == "NO_SIGNAL"
NoCode   == "NO_CODE"

\* What one observation cycle may find wrong, whatever the phase.
ObservationStops == {"REQUIRED_CI_FAILED", "EVIDENCE_INVALID",
                     "EVIDENCE_UNAVAILABLE", "DEPLOYMENT_UNHEALTHY",
                     "HOMEPAGE_SMOKE_UNHEALTHY"}

MonitoringSignals ==
    ObservationStops \cup
    {"CANDIDATE_READY", "NORMAL_WAIT_REQUIRED", "OBSERVATION_BUDGET_EXHAUSTED",
     "EXTENSION_READY", "EXTENSION_EXHAUSTED"}
DecisionSignals == {"WAIT_AND_RECHECK_AUTHORIZED",
                    "ESCALATE_INCIDENT_AUTHORIZED", "DECISION_EXPIRED"}
ActionSignals   == {"ACTION_CONFIRMED", "ACTION_REJECTED", "ACTION_UNCERTAIN"}

\* STALE_DECISION is in the vocabulary and in no row of the kernel.
Signals == {"TRIGGER_ACCEPTED", "WAIT_DUE", "SUPERSEDED", "STALE_DECISION"}
             \cup MonitoringSignals \cup DecisionSignals \cup ActionSignals

SourceStates(signal) ==
    CASE signal = "TRIGGER_ACCEPTED"   -> {NoState}
      [] signal = "WAIT_DUE"           -> {"WAITING"}
      [] signal = "SUPERSEDED"         -> ActiveStates
      [] signal \in MonitoringSignals  -> {"MONITORING"}
      [] signal \in DecisionSignals    -> {"AWAITING_DECISION"}
      [] signal \in ActionSignals      -> {"RESUMING"}
      [] OTHER                         -> {}

Target(signal) ==
    CASE signal \in {"TRIGGER_ACCEPTED", "WAIT_DUE"}           -> "MONITORING"
      [] signal \in {"NORMAL_WAIT_REQUIRED",
                     "WAIT_AND_RECHECK_AUTHORIZED"}            -> "WAITING"
      [] signal = "OBSERVATION_BUDGET_EXHAUSTED"               -> "AWAITING_DECISION"
      [] signal = "ESCALATE_INCIDENT_AUTHORIZED"               -> "RESUMING"
      [] signal \in {"CANDIDATE_READY", "EXTENSION_READY"}     -> "COMPLETED"
      [] signal = "ACTION_CONFIRMED"                           -> "ESCALATED"
      [] OTHER                                                 -> "STOPPED"

StopCode(signal) ==
    CASE Target(signal) # "STOPPED"   -> NoCode
      [] signal = "ACTION_UNCERTAIN"  -> "ACTION_OUTCOME_UNCERTAIN"
      [] OTHER                        -> signal

-----------------------------------------------------------------------------

EventTypes ==
    {"release-triggered", "observation-recorded", "wait-scheduled", "run-woke",
     "decision-requested", "decision-recorded", "action-reserved",
     "action-attempted", "action-confirmed", "action-rejected",
     "action-uncertain", "run-completed", "run-stopped", "run-superseded"}

\* The signals an event of a given type may carry; a type with none is a fact
\* recorded beside the state, and needs a run that is still active.
EventSignals(type) ==
    CASE type = "release-triggered"  -> {"TRIGGER_ACCEPTED"}
      [] type = "wait-scheduled"     -> {"NORMAL_WAIT_REQUIRED"}
      [] type = "run-woke"           -> {"WAIT_DUE"}
      [] type = "decision-requested" -> {"OBSERVATION_BUDGET_EXHAUSTED"}
      [] type = "decision-recorded"  -> {"WAIT_AND_RECHECK_AUTHORIZED",
                                         "ESCALATE_INCIDENT_AUTHORIZED"}
      [] type = "action-confirmed"   -> {"ACTION_CONFIRMED"}
      [] type = "action-rejected"    -> {"ACTION_REJECTED"}
      [] type = "action-uncertain"   -> {"ACTION_UNCERTAIN"}
      [] type = "run-completed"      -> {"CANDIDATE_READY", "EXTENSION_READY"}
      [] type = "run-stopped"        -> ObservationStops \cup
                                        {"DECISION_EXPIRED", "EXTENSION_EXHAUSTED"}
      [] type = "run-superseded"     -> {"SUPERSEDED"}
      [] OTHER                       -> {}

=============================================================================
