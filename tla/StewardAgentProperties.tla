----------------------- MODULE StewardAgentProperties -----------------------
(***************************************************************************)
(* What an invocation of the steward's agent must have done before its     *)
(* result may move a run.                                                  *)
(***************************************************************************)
EXTENDS StewardAgent

\* Facts of the world, at one moment of the invocation.
CandidateOnMain(w) == w.main = Candidate
CandidateRuns(w)   == w.deployed = Candidate
PageHealthy(w)     == w.page = "product"

\* One fact held, and then, or at the same moment, another one.
Then(First(_), Second(_)) ==
    \E i, j \in DOMAIN history : i <= j /\ First(history[i]) /\ Second(history[j])

CandidatePassed(w) == w.ci[Candidate] = "success"
CandidateFailed(w) == w.ci[Candidate] \notin {"success", "running"}
OtherOnMain(w)     == w.main # Candidate
OtherRuns(w)       == w.deployed \in Commits \ {Candidate}

SourceAndCI == phase = "FIRST_OBSERVATION" => Then(CandidateOnMain, CandidatePassed)

Earned(signal) ==
    CASE signal \in {"CANDIDATE_READY", "EXTENSION_READY"} ->
           SourceAndCI /\ Then(CandidateRuns, PageHealthy)
      [] signal \in {"NORMAL_WAIT_REQUIRED", "EXTENSION_EXHAUSTED"} ->
           SourceAndCI /\ Then(OtherRuns, PageHealthy)
      [] signal = "REQUIRED_CI_FAILED" -> Then(CandidateOnMain, CandidateFailed)
      [] signal = "EVIDENCE_INVALID"   -> Then(OtherOnMain, PageHealthy)

\* A result says what the providers were during this very invocation, in the
\* order it needs: a release is ready only if its candidate was on main and
\* passed its CI afterwards, and was running before the page was seen healthy;
\* it failed its CI only if the candidate itself did.  No order of the model's
\* calls, no push between two requests and no earlier invocation makes another.
VerdictIsEarned == outcome.kind = "result" => Earned(outcome.signal)

\* The run is stopped for an unhealthy release only if a marker that is none, or
\* a page that is not the product, was served during the invocation: a timeout,
\* a limit or a failing proxy never counts against the release.
UnhealthyIsSeen ==
    /\ outcome.signal = "DEPLOYMENT_UNHEALTHY" =>
         \E i \in DOMAIN history : history[i].deployed = Garbled
    /\ outcome.signal = "HOMEPAGE_SMOKE_UNHEALTHY" =>
         \E i \in DOMAIN history : history[i].page = "other"

\* Nothing an invocation returns counts once the model called a tool it was not
\* given, or one twice, even if every tool it was given had returned before or
\* returns afterwards: the observation is dropped or stops the run on an error,
\* and the incident is uncertain.
ViolationVoids ==
    violated => /\ outcome.kind # "result"
                /\ outcome.kind = "action" => outcome.signal = "UNCERTAIN"

\* In one invocation each provider is asked at most once whatever the model
\* does, GitHub once for both its tools, and at most one incident is posted.
AskedOnce ==
    /\ \A p \in DOMAIN asked : asked[p] <= 1
    /\ posts <= 1

\* An invocation is one step of the worker: the steps ReleaseSteward takes for
\* it are all it can do, a confirmed incident exists and a rejected one does not.
Invocation == INSTANCE StewardInvocation
ImplementsInvocation == Invocation!Spec

=============================================================================
