--------------------------- MODULE EvaluationPolicy ---------------------------
(***************************************************************************)
(* One-shot release evaluations: the bounded agent run that collects three *)
(* facts (agent/src/run-mismatch.ts, run-live-github.ts,                   *)
(* run-live-release.ts, tool-budget.ts and the tools), the policy that     *)
(* judges them (agent/src/policy.ts), the events that are stored of a run  *)
(* and the two validations around the store: of a run's result before it   *)
(* is written, and of a stored evaluation whenever it is read              *)
(* (application/src/evaluation-service.ts).                                *)
(*                                                                         *)
(* A fact is named by its kind, which also names its tool and its evidence *)
(* id: each tool writes one kind under one id.  A commit is a letter, and  *)
(* a URL is named by what it locates.                                      *)
(***************************************************************************)
EXTENDS Naturals, FiniteSets, SequencesExt

Commits   == {"A", "B"}
CIValues  == {"success", "failure"}
Scenarios == {"ready", "deployed-sha-mismatch",
              "live-github-source-ci", "live-release-verification"}

\* EVIDENCE_KINDS, and the prefix of it that a scenario collects.
EvidenceKinds == <<"source", "ci", "deployed">>
KindsOf(scenario) ==
    IF scenario = "live-github-source-ci"
      THEN SubSeq(EvidenceKinds, 1, 2) ELSE EvidenceKinds

\* What the tools would read: the two fixtures, or any state of the provider.
Fixture(scenario) ==
    [source |-> "A", ci |-> "success",
     deployed |-> IF scenario = "ready" THEN "A" ELSE "B"]
Worlds == [source : Commits, ci : CIValues, deployed : Commits]

\* The elements of a sequence at some of its places, in their order.
Picked(s, places) ==
    LET picked[n \in 0..Len(s)] ==
          IF n = 0 THEN <<>>
          ELSE IF n \in places THEN Append(picked[n - 1], s[n]) ELSE picked[n - 1]
    IN picked[Len(s)]

-----------------------------------------------------------------------------
(* The run of the agent.                                                   *)

\* EvidenceToolBudget: a call of a tool that is not registered, or of one that
\* was called before, is cancelled before the tool; the rest go through.
Budgeted(calls, tools) ==
    FoldLeft(LAMBDA passed, t : IF t \in tools /\ ~ Contains(passed, t)
                                  THEN Append(passed, t) ELSE passed,
             <<>>, calls)

\* The provider's receipt of a call.  The fixture tools leave none.
Receipt(kind, value, live) ==
    [tool     |-> kind,
     provider |-> IF ~ live THEN "none"
                  ELSE IF kind = "deployed" THEN "deployment-marker" ELSE "github",
     record   |-> IF ~ live THEN "none" ELSE IF kind = "ci" THEN "run" ELSE value]

Observations(order, world) ==
    [i \in DOMAIN order |-> [kind |-> order[i], value |-> world[order[i]]]]

Receipts(order, world, live) ==
    [i \in DOMAIN order |-> Receipt(order[i], world[order[i]], live)]

-----------------------------------------------------------------------------
(* The policy.                                                             *)

Kinds(observations) == {observations[i].kind : i \in DOMAIN observations}
ValueOf(kind, observations) ==
    observations[CHOOSE i \in DOMAIN observations : observations[i].kind = kind].value

\* The evidence is cited in the order of the kinds, whatever the order it was
\* collected in.  A contradiction is found before a gap.
EvaluateReleaseMismatch(expected, observations) ==
    LET has(k) == k \in Kinds(observations)
        contradicted == \/ has("source") /\ ValueOf("source", observations) # expected
                        \/ has("ci") /\ ValueOf("ci", observations) # "success"
        complete == \A i \in DOMAIN EvidenceKinds : has(EvidenceKinds[i])
        verdict  == IF contradicted \/ ~ complete THEN "Could not complete"
                    ELSE IF ValueOf("deployed", observations) # expected
                           THEN "Needs decision" ELSE "Ready"
    IN [outcome  |-> verdict,
        allowed  |-> IF verdict = "Needs decision"
                       THEN <<"Reject", "Re-check requested">> ELSE <<>>,
        evidence |-> Picked(EvidenceKinds, {i \in DOMAIN EvidenceKinds : has(EvidenceKinds[i])})]

-----------------------------------------------------------------------------
(* The result of a run.                                                    *)

IsLive(scenario) == scenario \notin {"ready", "deployed-sha-mismatch"}

\* The live runs judge the source they read against itself, and refuse to
\* return without it, or without the marker's receipt when they have its tool.
Returns(scenario, order) ==
    /\ IsLive(scenario) => Contains(order, "source")
    /\ scenario = "live-release-verification" => Contains(order, "deployed")

Candidate(scenario, world) ==
    [commit |-> IF IsLive(scenario) THEN world.source ELSE "A",
     url    |-> CASE scenario = "live-github-source-ci"     -> "incomplete"
                  [] scenario = "live-release-verification" -> "marker origin"
                  [] OTHER                                  -> "demo"]

RunResult(scenario, order, world) ==
    LET seen == Observations(order, world)
        candidate == Candidate(scenario, world)
    IN [candidate |-> candidate, observations |-> seen,
        policy    |-> EvaluateReleaseMismatch(candidate.commit, seen),
        calls     |-> Receipts(order, world, IsLive(scenario))]

-----------------------------------------------------------------------------
(* The validation of a result before it is stored.                         *)

KindsInOrder(observations) == [i \in DOMAIN observations |-> observations[i].kind]
ToolsInOrder(calls)        == [i \in DOMAIN calls |-> calls[i].tool]

BoundGitHubReceipt(call) == call.provider = "github" /\ call.record # "none"

BoundChain(calls, observations) ==
    /\ Len(calls) = 3 /\ Len(observations) = 3
    /\ BoundGitHubReceipt(calls[1]) /\ BoundGitHubReceipt(calls[2])
    /\ calls[1].record = observations[1].value
    /\ calls[3].provider = "deployment-marker"
    /\ calls[3].record = observations[3].value

PolicyMatchesLive(policy, observations) ==
    /\ observations # <<>> /\ observations[1].kind = "source"
    /\ policy = EvaluateReleaseMismatch(observations[1].value, observations)

\* The verdict a scenario must have.
VerdictFits(scenario, policy, observations) ==
    CASE scenario = "ready" ->
           policy.outcome = "Ready" /\ policy.allowed = <<>>
      [] scenario = "deployed-sha-mismatch" ->
           /\ policy.outcome = "Needs decision"
           /\ policy.allowed = <<"Reject", "Re-check requested">>
      [] scenario = "live-github-source-ci" ->
           policy.outcome = "Could not complete" /\ policy.allowed = <<>>
      [] OTHER -> PolicyMatchesLive(policy, observations)

\* Variant: the set of the collected kinds is compared, not their order.
ResultMatchesUnordered(result, scenario) ==
    /\ Kinds(result.observations) = ToSet(KindsOf(scenario))
    /\ VerdictFits(scenario, result.policy, result.observations)

\* requireResultMatchesScenario.
ResultMatches(result, scenario) ==
    /\ KindsInOrder(result.observations) = KindsOf(scenario)
    /\ result.policy.evidence = KindsInOrder(result.observations)
    /\ ToolsInOrder(result.calls) = KindsOf(scenario)
    /\ scenario = "live-github-source-ci" =>
         \A i \in DOMAIN result.calls : BoundGitHubReceipt(result.calls[i])
    /\ scenario = "live-release-verification" =>
         BoundChain(result.calls, result.observations)
    /\ VerdictFits(scenario, result.policy, result.observations)

-----------------------------------------------------------------------------
(* What is stored of an evaluation, and how it is read back.               *)

NoParent == <<"none", "none">>

EvaluationRecord(scenario, candidate, parent) ==
    [scenario |-> scenario, candidate |-> candidate, parent |-> parent]

Started(scenario, parent) == [type |-> "started", scenario |-> scenario, parent |-> parent]
Evidence(observation)     == [type |-> "evidence", observation |-> observation]
PolicyEvent(policy)       == [type |-> "policy", policy |-> policy]
Completed(calls)          == [type |-> "completed", calls |-> calls]
DecisionEvent(decision, child) ==
    [type |-> "decision", decision |-> decision, child |-> child]

\* #buildEvaluationEvents: the events in order, numbered from one.
EvaluationEvents(scenario, result, parent) ==
    <<Started(scenario, parent)>>
    \o [i \in DOMAIN result.observations |-> Evidence(result.observations[i])]
    \o <<PolicyEvent(result.policy), Completed(result.calls)>>

OfType(l, type) == Picked(l, {n \in DOMAIN l : l[n].type = type})

\* A timeline is a function of the sequence numbers in use.  projectEvaluation
\* throws unless all of this holds of the stored rows.
Projects(record, l) ==
    /\ DOMAIN l = 1..Cardinality(DOMAIN l)
    /\ LET evidence == OfType(l, "evidence")
           seen     == [i \in DOMAIN evidence |-> evidence[i].observation]
           decided  == OfType(l, "decision")
       IN /\ KindsInOrder(seen) = KindsOf(record.scenario)
          /\ \A type \in {"started", "policy", "completed"} : Len(OfType(l, type)) = 1
          /\ LET started == OfType(l, "started")[1]
                 policy  == OfType(l, "policy")[1].policy
                 calls   == OfType(l, "completed")[1].calls
             IN /\ started.scenario = record.scenario /\ started.parent = record.parent
                /\ Len(decided) <= 1
                /\ policy.evidence = KindsInOrder(seen)
                /\ ToolsInOrder(calls) = KindsOf(record.scenario)
                /\ decided # <<>> => Contains(policy.allowed, decided[1].decision)
                /\ VerdictFits(record.scenario, policy, seen)
                /\ IsLive(record.scenario) => record.candidate.commit = seen[1].value
                /\ record.scenario = "live-github-source-ci" =>
                     \A i \in DOMAIN calls : BoundGitHubReceipt(calls[i])
                /\ record.scenario = "live-release-verification" =>
                     /\ record.candidate.url = "marker origin"
                     /\ BoundChain(calls, seen)

\* allowedHumanDecisions, decision and attentionRequired of the projection.
Verdict(l)   == OfType(l, "policy")[1].policy
Decided(l)   == \E n \in DOMAIN l : l[n].type = "decision"
Attention(l) == Verdict(l).outcome = "Needs decision" /\ ~ Decided(l)

=============================================================================
