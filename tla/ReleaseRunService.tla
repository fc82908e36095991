-------------------------- MODULE ReleaseRunService --------------------------
(***************************************************************************)
(* The use cases of application/src/release-run-service.ts over the        *)
(* ledger: what a worker may commit from the claim it holds, and what a    *)
(* decision submission does.  No variable of its own: the service keeps no *)
(* state outside the ledger.                                               *)
(*                                                                         *)
(* A claim is the worker's snapshot of one run.  claimNextDue takes the    *)
(* head in the claiming transaction and reads the history and the action   *)
(* after it, so the counts of a snapshot may be newer than its version.    *)
(***************************************************************************)
EXTENDS ReleaseRunLedger

CONSTANTS
    NoRun,                \* the run of a worker that holds no claim
    NormalObservations,   \* normalDeploymentObservations of the policy profile
    Delay,                \* delayBetweenObservationsMs
    DecisionTTL,          \* humanDecisionTtlMs
    Extension,            \* authorizedExtensionMs
    ActionWindow,         \* providerTimeoutMs + 1000: what a lease must outlast
    ActionEnabled         \* whether the process holds the incident authority

ASSUME ServiceAssumption ==
    /\ NoRun \notin Runs
    /\ NormalObservations \in Nat /\ NormalObservations >= 2
    /\ Delay \in Nat \ {0} /\ DecisionTTL \in Nat \ {0}
    /\ Extension \in Nat \ {0} /\ ActionWindow \in Nat
    /\ ActionEnabled \in BOOLEAN

-----------------------------------------------------------------------------
(* What the service reads out of a history.                                *)

EventsOf(l, type)  == {i \in DOMAIN l : l[i].type = type}
CountEvents(l, type) == Cardinality(EventsOf(l, type))

\* readRecordedDecisionChoice.
DecisionChoice(l) ==
    IF EventsOf(l, "decision-recorded") = {} THEN "NONE"
    ELSE IF \E i \in EventsOf(l, "decision-recorded") :
                l[i].signal = "WAIT_AND_RECHECK_AUTHORIZED"
           THEN "WAIT_AND_RECHECK" ELSE "ESCALATE_INCIDENT"

\* The decision envelope: the payload of the one decision-requested event.
Prompted(l)  == EventsOf(l, "decision-requested") # {}
PromptAt(l)  == CHOOSE i \in EventsOf(l, "decision-requested") : TRUE
ExpiresAt(l) == l[PromptAt(l)].wake

\* expectedRunVersion of the envelope: the version its own event produces.
EnvelopeVersion(l) == PromptAt(l)

\* observationCount of the envelope.
EnvelopeObservations(l) ==
    Cardinality({i \in EventsOf(l, "observation-recorded") : i < PromptAt(l)})

\* findDecisionAuthorization.
Authorized(l)   == EventsOf(l, "decision-recorded") # {}
AuthorizedAt(l) == l[CHOOSE i \in EventsOf(l, "decision-recorded") : TRUE].at

\* measuredWaitMs of projectReleaseRun: from each wait's start to its wake.
IsWaitStart(e) == \/ e.type = "wait-scheduled"
                  \/ e.signal = "WAIT_AND_RECHECK_AUTHORIZED"

WaitStart(l, i) == Max({j \in 1..(i - 1) : IsWaitStart(l[j])})

Waits(l) == [i \in EventsOf(l, "run-woke") |-> l[i].at - l[WaitStart(l, i)].at]

Total(f) == FoldFunction(+, 0, f)

MeasuredWait(l) == Total(Waits(l))

\* Variant: the plan covers the whole history, the authorization included.
FingerprintOfHistory(l, authorizedAt) ==
    [authorizedAt |-> authorizedAt, observations |-> Len(l), waited |-> MeasuredWait(l)]

\* What buildGitHubIncidentPlan hashes of the run's history.
Fingerprint(l, authorizedAt) ==
    [authorizedAt |-> authorizedAt,
     observations |-> EnvelopeObservations(l),
     waited       |-> MeasuredWait(l)]

-----------------------------------------------------------------------------
(* Claims.                                                                 *)

NoClaim == [run |-> NoRun, version |-> 0, state |-> NoState, wake |-> None,
            expires |-> None, observations |-> 0, waits |-> 0, prompts |-> 0,
            choice |-> "NONE", status |-> "NONE"]

\* Variant: the snapshot forgets whose it is.
HeadClaimWithoutRun(r, t) ==
    [NoClaim EXCEPT !.version = head[r].version, !.state = head[r].state,
                    !.wake = head[r].wake, !.expires = t + LeaseDuration]

\* The head part of the snapshot: the row the claiming transaction returns.
HeadClaim(r, t) ==
    [NoClaim EXCEPT !.run = r, !.version = head[r].version,
                    !.state = head[r].state, !.wake = head[r].wake,
                    !.expires = t + LeaseDuration]

\* The rest of the snapshot: listEvents and getExternalAction.
FullClaim(c) ==
    [c EXCEPT !.observations = CountEvents(log[c.run], "observation-recorded"),
              !.waits   = CountEvents(log[c.run], "wait-scheduled"),
              !.prompts = CountEvents(log[c.run], "decision-requested"),
              !.choice  = DecisionChoice(log[c.run]),
              !.status  = action[c.run].status]

\* observationPhase of the worker and expectedObservationPhase of the service.
\* With no phase the worker throws.
Phase(c) ==
    CASE c.prompts = 0 /\ c.observations = 0                -> "FIRST_OBSERVATION"
      [] c.prompts = 0 /\ c.observations > 0                -> "LATER_OBSERVATION"
      [] c.prompts = 1 /\ c.choice = "WAIT_AND_RECHECK"     -> "EXTENSION_OBSERVATION"
      [] OTHER                                              -> "NONE"

\* The signals validateReleaseStewardPostconditions can derive in a phase: the
\* source and CI evidence are judged in the first observation only.
ObservationSignals(phase) ==
    CASE phase = "FIRST_OBSERVATION"     -> {"EVIDENCE_INVALID", "REQUIRED_CI_FAILED",
                                             "CANDIDATE_READY", "NORMAL_WAIT_REQUIRED"}
      [] phase = "LATER_OBSERVATION"     -> {"CANDIDATE_READY", "NORMAL_WAIT_REQUIRED"}
      [] phase = "EXTENSION_OBSERVATION" -> {"EXTENSION_READY", "EXTENSION_EXHAUSTED"}
      [] OTHER                           -> {}

-----------------------------------------------------------------------------
(* What a claim commits: the events and the state its caller expects.      *)

\* Variants: the budget counted from the wrong side, by one.
LastNormalObservationLate(c)  == c.observations + 1 > NormalObservations
LastNormalObservationEarly(c) == c.observations + 2 >= NormalObservations

LastNormalObservation(c) == c.observations + 1 >= NormalObservations

\* The events of commitObservation for the signal the evidence yields.
ObservationEvents(c, signal, t) ==
    <<Event("observation-recorded", NoSignal, t, None),
      CASE signal = "NORMAL_WAIT_REQUIRED" /\ ~ LastNormalObservation(c) ->
             Event("wait-scheduled", signal, t, t + Delay)
        [] signal = "NORMAL_WAIT_REQUIRED" /\ LastNormalObservation(c) ->
             Event("decision-requested", "OBSERVATION_BUDGET_EXHAUSTED", t, t + DecisionTTL)
        [] Target(signal) = "COMPLETED" -> Event("run-completed", signal, t, None)
        [] OTHER                        -> Event("run-stopped", signal, t, None)>>

\* The checks commitObservation makes on the claim before it writes.  A prompt
\* needs the source and CI evidence of an earlier observation.
ObservationAdmitted(c, signal) ==
    /\ c.state = "MONITORING"
    /\ signal \in ObservationSignals(Phase(c))
    /\ signal = "NORMAL_WAIT_REQUIRED" =>
         /\ c.prompts = 0
         /\ LastNormalObservation(c) => c.waits = c.observations /\ c.observations > 0

ObservationTarget(c, signal) ==
    IF signal = "NORMAL_WAIT_REQUIRED" /\ LastNormalObservation(c)
      THEN "AWAITING_DECISION" ELSE Target(signal)

CanCommitObservation(c, signal, t) ==
    /\ ObservationAdmitted(c, signal)
    /\ CanAppend(c.run, c.version, ObservationEvents(c, signal, t),
                 ObservationTarget(c, signal))

CommitObservation(c, signal, t) ==
    /\ CanCommitObservation(c, signal, t)
    /\ AppendTransition(c.run, c.version, ObservationEvents(c, signal, t),
                        ObservationTarget(c, signal))

WakeEvents(t) == <<Event("run-woke", "WAIT_DUE", t, None)>>

CanWake(c, t) ==
    /\ c.state = "WAITING" /\ c.wake <= t
    /\ CanAppend(c.run, c.version, WakeEvents(t), "MONITORING")

WakeDueRun(c, t) ==
    /\ CanWake(c, t)
    /\ AppendTransition(c.run, c.version, WakeEvents(t), "MONITORING")

StopEvents(signal, t) == <<Event("run-stopped", signal, t, None)>>

CanStop(c, signal, t) ==
    /\ c.state \in SourceStates(signal)
    /\ CanAppend(c.run, c.version, StopEvents(signal, t), Target(signal))

StopClaim(c, signal, t) ==
    /\ CanStop(c, signal, t)
    /\ AppendTransition(c.run, c.version, StopEvents(signal, t), Target(signal))

CanExpire(c, t) ==
    /\ c.state = "AWAITING_DECISION" /\ c.wake <= t
    /\ CanStop(c, "DECISION_EXPIRED", t)

ExpireDecision(c, t) == CanExpire(c, t) /\ StopClaim(c, "DECISION_EXPIRED", t)

\* beginIncidentAction: the lease must outlast the provider call, and the plan
\* rebuilt from the history must be the one whose fingerprint was reserved.
CanBeginIncident(c, t) ==
    /\ c.state = "RESUMING" /\ c.choice = "ESCALATE_INCIDENT"
    /\ c.status = "RESERVED"
    /\ c.expires - t >= ActionWindow
    /\ Fingerprint(log[c.run], AuthorizedAt(log[c.run])) = reserved[c.run]
    /\ CanBegin(c.run, c.version, t)

BeginIncidentAction(c, t) ==
    /\ CanBeginIncident(c, t)
    /\ BeginExternalAction(c.run, c.version, t)

-----------------------------------------------------------------------------
(* Decisions.                                                              *)

\* Variant: every submission is dated when it arrives, a retry too.
SubmittedOnArrival(l, t) == t

\* What submitDecision hands to the ledger.  A submission after the recorded
\* one is rebuilt from the time of the recorded one.
SubmittedAt(l, t) == IF Authorized(l) THEN AuthorizedAt(l) ELSE t

SubmittedFingerprint(l, choice, t) ==
    IF choice = "ESCALATE_INCIDENT"
      THEN Fingerprint(l, SubmittedAt(l, t)) ELSE NoFingerprint

SubmittedWake(l, choice, t) ==
    IF choice = "WAIT_AND_RECHECK" THEN SubmittedAt(l, t) + Extension ELSE None

\* The answer of POST /api/decisions/:id at t, by the name of its outcome:
\* 200 for "recorded" and "replayed", 410 for "gone", 404 for "unknown", 500 for
\* "error", 409 for the others.
SubmitReply(r, key, choice, expected, t) ==
    IF choice = "ESCALATE_INCIDENT" /\ ~ ActionEnabled THEN "disabled"
    ELSE IF ~ Prompted(log[r]) THEN "unknown"
    ELSE LET reply == DecisionReply(r, key, choice, expected,
                                    SubmittedFingerprint(log[r], choice, t),
                                    SubmittedAt(log[r], t),
                                    SubmittedWake(log[r], choice, t))
         IN  IF reply \in {"state", "expired"} /\ t >= ExpiresAt(log[r])
               THEN "gone" ELSE reply

SubmitDecision(r, key, choice, expected, t) ==
    /\ SubmitReply(r, key, choice, expected, t) = "recorded"
    /\ RecordDecision(r, key, choice, expected,
                      SubmittedFingerprint(log[r], choice, t),
                      SubmittedAt(log[r], t),
                      SubmittedWake(log[r], choice, t))

=============================================================================
