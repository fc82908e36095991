------------------------- MODULE ReleaseRunLifecycle -------------------------
(***************************************************************************)
(* What a release run promises to the people who read it, with no worker,  *)
(* lease, version, clock or table in sight: the life of one run as a       *)
(* sequence of indivisible steps.  It is the run of                        *)
(* application/src/release-run-service.ts (projectReleaseRun) seen from    *)
(* outside, and ReleaseSteward is checked to implement it.                 *)
(*                                                                         *)
(* Runs are independent, but one recovery transaction may settle several   *)
(* of them, so a step lets any number of runs each take one step.          *)
(***************************************************************************)
EXTENDS ReleaseTransitions, Naturals

CONSTANTS Runs, NormalObservations

VARIABLE life      \* the life of each run

\* `choice` is the answer of the one checkpoint, `incident` the state of the
\* one external action, `sent` the number of POSTs made for it.
Unlived == [state |-> NoState, code |-> NoCode, observations |-> 0,
            asked |-> FALSE, choice |-> "NONE", incident |-> "NONE", sent |-> 0]

Triggered(a, b) ==
    a = Unlived /\ b = [a EXCEPT !.state = "MONITORING"]

\* An observation that ends the run, waits for the next, or asks a person.
Concluded(a, b) ==
    \E signal \in IF a.asked THEN {"EXTENSION_READY", "EXTENSION_EXHAUSTED"}
                  ELSE {"CANDIDATE_READY"} \cup
                       (IF a.observations = 0
                          THEN {"EVIDENCE_INVALID", "REQUIRED_CI_FAILED"} ELSE {}) :
        /\ a.state = "MONITORING"
        /\ b = [a EXCEPT !.state = Target(signal), !.code = StopCode(signal),
                         !.observations = @ + 1]

Waited(a, b) ==
    /\ a.state = "MONITORING" /\ ~ a.asked
    /\ a.observations + 1 < NormalObservations
    /\ b = [a EXCEPT !.state = "WAITING", !.observations = @ + 1]

Asked(a, b) ==
    /\ a.state = "MONITORING" /\ ~ a.asked
    /\ a.observations + 1 = NormalObservations
    /\ b = [a EXCEPT !.state = "AWAITING_DECISION", !.observations = @ + 1,
                     !.asked = TRUE]

\* An observation that could not be made.
Failed(a, b) ==
    \E code \in ObservationStops \ {"REQUIRED_CI_FAILED"} :
        a.state = "MONITORING" /\ b = [a EXCEPT !.state = "STOPPED", !.code = code]

Woken(a, b) ==
    a.state = "WAITING" /\ b = [a EXCEPT !.state = "MONITORING"]

Decided(a, b) ==
    /\ a.state = "AWAITING_DECISION"
    /\ \/ b = [a EXCEPT !.state = "WAITING", !.choice = "WAIT_AND_RECHECK"]
       \/ b = [a EXCEPT !.state = "RESUMING", !.choice = "ESCALATE_INCIDENT",
                        !.incident = "RESERVED"]

Expired(a, b) ==
    /\ a.state = "AWAITING_DECISION"
    /\ b = [a EXCEPT !.state = "STOPPED", !.code = "DECISION_EXPIRED"]

Attempted(a, b) ==
    a.incident = "RESERVED" /\ b = [a EXCEPT !.incident = "IN_FLIGHT"]

\* The POST may leave after its outcome was given up as uncertain, never after
\* it was known.
Sent(a, b) ==
    /\ a.incident \in {"IN_FLIGHT", "UNCERTAIN"} /\ a.sent = 0
    /\ b = [a EXCEPT !.sent = 1]

Settled(a, b) ==
    /\ a.incident = "IN_FLIGHT"
    /\ \/ a.sent = 1 /\ b = [a EXCEPT !.state = "ESCALATED", !.incident = "CONFIRMED"]
       \/ a.sent = 1 /\ b = [a EXCEPT !.state = "STOPPED", !.incident = "REJECTED",
                                      !.code = "ACTION_REJECTED"]
       \/ b = [a EXCEPT !.state = "STOPPED", !.incident = "UNCERTAIN",
                        !.code = "ACTION_OUTCOME_UNCERTAIN"]

LifeStep(a, b) ==
    \/ Triggered(a, b) \/ Concluded(a, b) \/ Waited(a, b)  \/ Asked(a, b)
    \/ Failed(a, b)    \/ Woken(a, b)     \/ Decided(a, b) \/ Expired(a, b)
    \/ Attempted(a, b) \/ Sent(a, b)      \/ Settled(a, b)

Init == life = [r \in Runs |-> Unlived]

Next ==
    /\ DOMAIN life' = Runs
    /\ \A r \in Runs : life'[r] = life[r] \/ LifeStep(life[r], life'[r])

Spec == Init /\ [][Next]_life

=============================================================================
