---------------------------- MODULE StewardPolicy ----------------------------
(***************************************************************************)
(* What the steward derives from one invocation of its agent, and nothing  *)
(* the model says: the tools of a phase (release-steward-tools.ts), the    *)
(* verdict of a sequence of receipts (release-steward-policy.ts), what a   *)
(* provider's answer is to a collector (adapters/src), and what the worker *)
(* makes of an error (release-run-worker.ts).  Pure.                       *)
(*                                                                         *)
(* A receipt and its evidence are recorded together by the tool and are    *)
(* one record here: their identifiers, links and times say nothing more.   *)
(***************************************************************************)
EXTENDS Naturals, Sequences, FiniteSets, TLC

CONSTANTS
    Commits,     \* full commit identifiers
    Candidate,   \* the commit of the run
    Garbled      \* what a marker that is no marker says

ASSUME CommitAssumption == Candidate \in Commits /\ Garbled \notin Commits

-----------------------------------------------------------------------------
(* Phases and tools.                                                       *)

ObservationPhases == {"FIRST_OBSERVATION", "LATER_OBSERVATION", "EXTENSION_OBSERVATION"}
Phases == ObservationPhases \cup {"ESCALATION_RESUME"}

PhaseTools(phase) ==
    CASE phase = "FIRST_OBSERVATION" -> {"source", "ci", "deployment", "smoke", "recheck"}
      [] phase = "LATER_OBSERVATION" -> {"deployment", "smoke", "recheck"}
      [] phase = "EXTENSION_OBSERVATION" -> {"deployment", "smoke"}
      [] phase = "ESCALATION_RESUME" -> {"incident"}

-----------------------------------------------------------------------------
(* The verdict.                                                            *)

\* assertReceiptSequence, assertReceiptBindings and requireEvidence: the tools
\* of the phase, each once, in their order; the recheck is optional.
Required(phase) ==
    IF phase = "FIRST_OBSERVATION" THEN <<"source", "ci", "deployment", "smoke">>
                                   ELSE <<"deployment", "smoke">>

ToolsOf(receipts) == [i \in DOMAIN receipts |-> receipts[i].tool]

InSequence(phase, receipts) ==
    \/ ToolsOf(receipts) = Required(phase)
    \/ /\ ToolsOf(receipts) = Append(Required(phase), "recheck")
       /\ "recheck" \in PhaseTools(phase)

Receipt(receipts, tool) ==
    receipts[CHOOSE i \in DOMAIN receipts : receipts[i].tool = tool]
Has(receipts, tool) == \E i \in DOMAIN receipts : receipts[i].tool = tool

\* validateReleaseStewardPostconditions; "throws" is its PostconditionError.
Verdict(phase, receipts) ==
    LET first    == phase = "FIRST_OBSERVATION"
        source   == Receipt(receipts, "source").value
        ci       == Receipt(receipts, "ci")
        deployed == Receipt(receipts, "deployment").value = Candidate
        recheck  == Has(receipts, "recheck")
    IN IF ~ InSequence(phase, receipts)           THEN "throws"
       ELSE IF first /\ source # Candidate        THEN "EVIDENCE_INVALID"
       ELSE IF first /\ (ci.value # "success" \/ ci.head # Candidate)
                                                  THEN "REQUIRED_CI_FAILED"
       ELSE IF phase = "EXTENSION_OBSERVATION"
              THEN IF deployed THEN "EXTENSION_READY" ELSE "EXTENSION_EXHAUSTED"
       ELSE IF deployed = recheck                 THEN "throws"
       ELSE IF deployed THEN "CANDIDATE_READY" ELSE "NORMAL_WAIT_REQUIRED"

-----------------------------------------------------------------------------
(* Collectors: how an answer that is not the evidence fails.               *)

\* limited: 403 or 429; missing: 404; status: any other failure; unusable: not
\* what was asked for; silent: no complete answer within the timeout.
Failures == {"limited", "missing", "status", "oversized", "silent", "broken", "unusable"}

GitHubCode ==
    [limited |-> "rateLimited", missing |-> "notFound", status |-> "requestFailed",
     oversized |-> "responseTooLarge", silent |-> "timeout", broken |-> "network",
     unusable |-> "responseInvalid"]

\* A marker that is no JSON, no UTF-8 or no marker is the unusable answer.
DeploymentCode ==
    [limited |-> "requestFailed", missing |-> "notFound", status |-> "requestFailed",
     oversized |-> "responseTooLarge", silent |-> "timeout", broken |-> "network",
     unusable |-> "responseInvalid"]

\* A page that is no HTML or no UTF-8 is the unusable answer.
HomepageCode ==
    [limited |-> "requestFailed", missing |-> "requestFailed", status |-> "requestFailed",
     oversized |-> "responseTooLarge", silent |-> "timeout", broken |-> "network",
     unusable |-> "nonHtml"]

-----------------------------------------------------------------------------
(* The worker's reading of an error.                                       *)

Plain(code)    == [from |-> "other", code |-> code]
NoError        == Plain("none")
InvalidError   == [from |-> "policy", code |-> "invalid"]
GitHubError(code)     == [from |-> "github", code |-> code]
DeploymentError(code) == [from |-> "deployment", code |-> code]
HomepageError(code)   == [from |-> "homepage", code |-> code]

\* Variant: whatever the marker or the page did, the release is unhealthy.
StopSignalOfAny(error) ==
    CASE error.from = "homepage"   -> "HOMEPAGE_SMOKE_UNHEALTHY"
      [] error.from = "deployment" -> "DEPLOYMENT_UNHEALTHY"
      [] error.from = "github"     -> "EVIDENCE_UNAVAILABLE"
      [] error.from = "policy"     -> "EVIDENCE_INVALID"
      [] OTHER                     -> "rethrown"

\* classifyObservationFailure.
StopSignal(error) ==
    CASE error = HomepageError("unhealthy")         -> "HOMEPAGE_SMOKE_UNHEALTHY"
      [] error = DeploymentError("responseInvalid") -> "DEPLOYMENT_UNHEALTHY"
      [] error = InvalidError                       -> "EVIDENCE_INVALID"
      [] error.from = "other"                       -> "rethrown"
      [] OTHER                                      -> "EVIDENCE_UNAVAILABLE"

=============================================================================
