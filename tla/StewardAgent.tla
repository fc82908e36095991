---------------------------- MODULE StewardAgent ----------------------------
(***************************************************************************)
(* One invocation of the release steward's agent, and the next one after   *)
(* an invocation that came to nothing: agent/src/release-steward.ts,       *)
(* release-steward-action.ts, -tools.ts and -tool-budget.ts over the       *)
(* collectors of adapters/src.                                             *)
(*                                                                         *)
(* The model (external) calls tools as it likes, in any order, twice, or   *)
(* tools it was not given; it may stop at any time, or fail.  The SDK      *)
(* (external) runs one tool at a time, asks the budget before each, shows  *)
(* the model a call that was cancelled, and either shows it the error of a *)
(* tool or ends the invocation with it.  The providers change while the    *)
(* agent reads them, one request after another, and any request may fail.  *)
(***************************************************************************)
EXTENDS StewardPolicy

CONSTANTS
    Worlds,           \* what the providers may be asked about at the start
    Moves(_),         \* what a world may become
    Failing,          \* the ways a request may fail
    MaxMoves,         \* bound: changes of the world in an invocation
    MaxInvocations    \* bound: invocations of the same phase

\* A branch, the CI of each commit (a conclusion that is no success is a failure),
\* what the marker says and what the page is.
WorldStates ==
    [main : Commits, ci : [Commits -> {"success", "failure", "running"}],
     deployed : Commits \cup {Garbled}, page : {"product", "other"}]

ASSUME AgentAssumption ==
    /\ Worlds \subseteq WorldStates
    /\ \A w \in WorldStates : Moves(w) \subseteq WorldStates
    /\ Failing \subseteq Failures
    /\ MaxMoves \in Nat /\ MaxInvocations \in Nat

VARIABLES
    phase,
    pc,           \* whose turn it is: the model, a request, the SDK, the caller
    tool,         \* the tool that runs
    called,       \* callsByName
    violated,     \* whether the budget holds a violation
    receipts,     \* the recorder
    shared,       \* sharedGitHubCollection
    error,        \* what the tool, or the invocation, threw
    action,       \* the incident result the tool keeps
    outcome,      \* what the worker makes of the invocation
    invocations,
    asked,        \* provider -> evidence collections of this invocation
    history,      \* the worlds of this invocation, the present one last
    posts, issues, refusals

agentVars    == <<pc, tool, called, violated, receipts, shared, error, action,
                  outcome, invocations, asked>>
providerVars == <<posts, issues, refusals>>
vars == <<phase, agentVars, history, providerVars>>

World == history[Len(history)]

NoBundle == [status |-> "none", source |-> Garbled, ci |-> "none", error |-> NoError]
NoOutcome == [kind |-> "none", signal |-> "NONE"]

Fresh ==
    /\ pc = "model" /\ tool = "none" /\ called = {} /\ violated = FALSE
    /\ receipts = <<>> /\ shared = NoBundle /\ error = NoError
    /\ action = "NONE" /\ outcome = NoOutcome
    /\ asked = [p \in {"github", "deployment", "homepage"} |-> 0]

Init ==
    /\ phase \in Phases
    /\ Fresh /\ invocations = 1
    /\ \E w \in Worlds : history = <<w>>
    /\ posts = 0 /\ issues = 0 /\ refusals = 0

-----------------------------------------------------------------------------
(* The providers.                                                          *)

\* A change between two requests is one while the second is on its way.
WorldMoves ==
    /\ pc \in {"commit", "runs", "deployment", "smoke"}
    /\ Len(history) <= MaxMoves
    /\ \E w \in Moves(World) \ {World} : history' = Append(history, w)
    /\ UNCHANGED <<phase, agentVars, providerVars>>

Unsettled == issues + refusals < posts

ProviderAccepts ==
    /\ Unsettled /\ issues' = issues + 1
    /\ UNCHANGED <<phase, agentVars, history, posts, refusals>>

ProviderRefuses ==
    /\ Unsettled /\ refusals' = refusals + 1
    /\ UNCHANGED <<phase, agentVars, history, posts, issues>>

-----------------------------------------------------------------------------
(* The end of an invocation.                                               *)

End(result) ==
    /\ pc' = "ended"
    /\ outcome' = result /\ error' = NoError
    /\ UNCHANGED <<phase, tool, called, violated, receipts, shared, action,
                   invocations, asked, history, providerVars>>

\* What the worker makes of an invocation that throws.
Caught(e) ==
    IF phase = "ESCALATION_RESUME" THEN [kind |-> "action", signal |-> "UNCERTAIN"]
    ELSE IF StopSignal(e) = "rethrown" THEN [kind |-> "dropped", signal |-> "NONE"]
    ELSE [kind |-> "stop", signal |-> StopSignal(e)]

-----------------------------------------------------------------------------
(* The model's turn, and the budget.                                       *)

\* Variant: the budget only counts.
RejectsBeyondCount(name) ==
    name \notin PhaseTools(phase) \/ Cardinality(called) >= Cardinality(PhaseTools(phase))

\* checkAndRecord: foreign, already used, or over the count of the phase.
Rejects(name) ==
    \/ name \notin PhaseTools(phase)
    \/ name \in called
    \/ Cardinality(called) >= Cardinality(PhaseTools(phase))

\* Where a tool's callback begins.  The collection of GitHub is shared.
Entry(name) ==
    CASE name \in {"source", "ci"} -> IF shared.status = "none" THEN "commit" ELSE "bundle"
      [] OTHER                     -> name

ModelCalls(name) ==
    /\ pc = "model"
    /\ IF Rejects(name)
         THEN violated' = TRUE /\ UNCHANGED <<pc, tool, called>>
         ELSE called' = called \cup {name} /\ tool' = name /\ pc' = Entry(name)
              /\ UNCHANGED violated
    /\ UNCHANGED <<phase, receipts, shared, error, action, outcome, invocations,
                   asked, history, providerVars>>

\* The stream of the model breaks.
ModelFails == pc = "model" /\ End(Caught(Plain("model")))

\* Variant: the calls that were rejected do not matter afterwards.
ConcludeWithoutCheck ==
    LET verdict == Verdict(phase, receipts) IN
    IF verdict = "throws" THEN Caught(InvalidError)
    ELSE [kind |-> "result", signal |-> verdict]

\* After agent.invoke of an observation: assertNoViolations, the postconditions.
Conclude ==
    LET verdict == Verdict(phase, receipts) IN
    IF violated THEN Caught(Plain("violation"))
    ELSE IF verdict = "throws" THEN Caught(InvalidError)
    ELSE [kind |-> "result", signal |-> verdict]

\* After agent.invoke of the incident action.
ConcludeAction ==
    IF violated \/ action = "NONE" \/ called # {"incident"} THEN Caught(Plain("incident"))
    ELSE [kind |-> "action", signal |-> action]

ModelEnds ==
    /\ pc = "model"
    /\ End(IF phase = "ESCALATION_RESUME" THEN ConcludeAction ELSE Conclude)

-----------------------------------------------------------------------------
(* The tools.                                                              *)

\* The callback returns: its receipt and evidence are recorded together.
Record(value, head) ==
    /\ receipts' = Append(receipts, [tool |-> tool, value |-> value, head |-> head])
    /\ pc' = "model" /\ tool' = "none"
    /\ UNCHANGED <<error>>

Throw(e) == pc' = "failed" /\ error' = e /\ UNCHANGED <<tool, receipts>>

ToolUnchanged ==
    UNCHANGED <<phase, called, violated, action, outcome, invocations,
                history, providerVars>>

Asks(provider) == asked' = [asked EXCEPT ![provider] = @ + 1]

\* The first request of the collection: the commit of the branch.
CollectCommit(answer) ==
    /\ pc = "commit" /\ Asks("github")
    /\ IF answer = "complete"
         THEN /\ shared' = [NoBundle EXCEPT !.source = World.main] /\ pc' = "runs"
         ELSE /\ shared' = [NoBundle EXCEPT !.status = "rejected",
                                            !.error = GitHubError(GitHubCode[answer])]
              /\ pc' = "bundle"
    /\ UNCHANGED <<tool, receipts, error>> /\ ToolUnchanged

\* The second: the completed runs of that commit, the latest of them.
CollectRuns(answer) ==
    LET conclusion == World.ci[shared.source]
        code == IF answer # "complete" THEN GitHubCode[answer] ELSE "workflowNotFound"
    IN /\ pc = "runs"
       /\ shared' = IF answer = "complete" /\ conclusion # "running"
                      THEN [shared EXCEPT !.status = "resolved", !.ci = conclusion]
                      ELSE [shared EXCEPT !.status = "rejected", !.error = GitHubError(code)]
       /\ pc' = "bundle"
       /\ UNCHANGED <<tool, receipts, error, asked>> /\ ToolUnchanged

\* Variant: the second tool reads the branch again.
UseBundleOfItsOwn ==
    /\ pc = "bundle"
    /\ IF shared.status = "rejected" THEN Throw(shared.error)
       ELSE IF tool = "source" THEN Record(shared.source, shared.source)
       ELSE Record(World.ci[World.main], World.main)
    /\ UNCHANGED <<shared, asked>> /\ ToolUnchanged

\* Both tools await the one promise, whether it resolved or was rejected.
UseBundle ==
    /\ pc = "bundle"
    /\ IF shared.status = "rejected" THEN Throw(shared.error)
       ELSE IF tool = "source" THEN Record(shared.source, shared.source)
       ELSE Record(shared.ci, shared.source)
    /\ UNCHANGED <<shared, asked>> /\ ToolUnchanged

ReadDeployment(answer) ==
    /\ pc = "deployment" /\ Asks("deployment")
    /\ answer = "unusable" => World.deployed = Garbled
    /\ IF answer = "complete"
         THEN World.deployed # Garbled /\ Record(World.deployed, World.deployed)
         ELSE Throw(DeploymentError(DeploymentCode[answer]))
    /\ UNCHANGED shared /\ ToolUnchanged

\* A page without the product marker is a complete answer.
ReadHomepage(answer) ==
    /\ pc = "smoke" /\ Asks("homepage")
    /\ IF answer # "complete" THEN Throw(HomepageError(HomepageCode[answer]))
       ELSE IF World.page = "other" THEN Throw(HomepageError("unhealthy"))
       ELSE Record("healthy", "healthy")
    /\ UNCHANGED shared /\ ToolUnchanged

\* The proposal is the worker's, valid by construction.
ProposeRecheck ==
    /\ pc = "recheck" /\ Record("proposal", "proposal")
    /\ UNCHANGED <<shared, asked>> /\ ToolUnchanged

\* The SDK's reaction to a tool that threw.
ShowError ==
    /\ pc = "failed" /\ pc' = "model" /\ tool' = "none" /\ error' = NoError
    /\ UNCHANGED <<receipts, shared, asked>> /\ ToolUnchanged

ThrowError == pc = "failed" /\ End(Caught(error))

-----------------------------------------------------------------------------
(* The incident.                                                           *)

\* The callback posts unless it holds a result already.
Post ==
    /\ pc = "incident"
    /\ IF action # "NONE"
         THEN Throw(Plain("already")) /\ UNCHANGED posts
         ELSE pc' = "posted" /\ posts' = posts + 1 /\ UNCHANGED <<tool, receipts, error>>
    /\ UNCHANGED <<phase, called, violated, shared, action, outcome, invocations, asked, history, issues, refusals>>

\* Variant: any answer that is not a success is a rejection.
StatusOfFailure(answer) ==
    IF answer = "created" THEN "CONFIRMED" ELSE "REJECTED"

\* executeGitHubIncident: 201 with the issue's own link, 4xx, and the rest:
\* another status, an unusable 201, a timeout, a broken connection.
StatusOf(answer) ==
    CASE answer = "created" -> "CONFIRMED"
      [] answer = "refused" -> "REJECTED"
      [] OTHER              -> "UNCERTAIN"

PostAnswers == {"created", "refused", "other", "unusable", "silent"}

PostAnswered(answer) ==
    /\ pc = "posted"
    /\ answer = "created" => issues > 0
    /\ answer = "refused" => refusals > 0
    /\ action' = StatusOf(answer)
    /\ pc' = "model" /\ tool' = "none"
    /\ UNCHANGED <<phase, called, violated, receipts, shared, error, outcome, invocations, asked, history, providerVars>>

-----------------------------------------------------------------------------

\* The worker claims the run again, after an invocation that was dropped or
\* that died with its process: a new recorder, budget, collection and model.
Again ==
    /\ phase \in ObservationPhases /\ invocations < MaxInvocations
    /\ pc # "ended" \/ outcome.kind = "dropped"
    /\ pc' = "model" /\ tool' = "none" /\ called' = {} /\ violated' = FALSE
    /\ receipts' = <<>> /\ shared' = NoBundle /\ error' = NoError
    /\ action' = "NONE" /\ outcome' = NoOutcome
    /\ asked' = [p \in DOMAIN asked |-> 0]
    /\ invocations' = invocations + 1
    /\ history' = <<World>>
    /\ UNCHANGED <<phase, providerVars>>

Tools == PhaseTools("FIRST_OBSERVATION") \cup {"incident", "foreign"}

ToolStep ==
    \/ UseBundle \/ ProposeRecheck \/ ShowError \/ ThrowError \/ Post
    \/ \E answer \in Failing \cup {"complete"} :
         \/ CollectCommit(answer) \/ CollectRuns(answer)
         \/ ReadDeployment(answer) \/ ReadHomepage(answer)
    \/ \E answer \in PostAnswers : PostAnswered(answer)

Next ==
    \/ WorldMoves \/ ProviderAccepts \/ ProviderRefuses
    \/ \E name \in Tools : ModelCalls(name)
    \/ ModelFails \/ ModelEnds \/ ToolStep \/ Again

Spec == Init /\ [][Next]_vars

=============================================================================
