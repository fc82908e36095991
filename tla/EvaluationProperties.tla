------------------------- MODULE EvaluationProperties -------------------------
(***************************************************************************)
(* What the evaluation service promises, over processes that interleave    *)
(* and die.                                                                *)
(***************************************************************************)
EXTENDS EvaluationService

\* Any valid result of any scenario makes rows that can be read.
StorableProjects ==
    \A scenario \in Scenarios, attempted \in AgentCalls,
       world \in Worlds \cup {Fixture("ready"), Fixture("deployed-sha-mismatch")} :
      LET order  == Budgeted(attempted, ToSet(KindsOf(scenario)))
          result == RunResult(scenario, order, world)
      IN Returns(scenario, order) /\ ResultMatches(result, scenario) =>
           Projects(EvaluationRecord(scenario, result.candidate, NoParent),
                    EvaluationEvents(scenario, result, NoParent))

\* Every stored evaluation can be read: what requireResultMatchesScenario and
\* #buildEvaluationEvents let into the tables is what projectEvaluation accepts.
\* One that could not be read would make the whole inbox fail, and the next start.
EveryEvaluationProjects ==
    /\ evaluations = <<>> => StorableProjects
    /\ \A id \in DOMAIN evaluations : Readable(id)

\* Lineage: an evaluation has a parent exactly when that parent's one decision
\* asked for it.  A re-check that lost its commit leaves no orphan, and a
\* recorded one never names a child that is not there.
LineageIsExact ==
    \A id \in DOMAIN evaluations :
      /\ evaluations[id].parent # NoParent =>
           \E n \in DOMAIN timeline[evaluations[id].parent] :
             timeline[evaluations[id].parent][n] = DecisionEvent("Re-check requested", id)
      /\ \A n \in DOMAIN timeline[id] :
           LET e == timeline[id][n]
           IN (e.type = "decision" /\ e.child # NoParent) =>
                Stored(e.child) /\ evaluations[e.child].parent = id

Succeeded(c) == call[c].pc = "done" /\ call[c].reply.status \in {"recorded", "replayed"}

\* Successful answers to one key agree with each other and with the record, from
\* whichever process and however they were served (stored, replayed or joined);
\* and what was not recorded left no evaluation behind.
AnswersAgree ==
    /\ \A c \in Calls : Succeeded(c) =>
         /\ AnswerAt(c) \in DOMAIN idempotency
         /\ call[c].reply.response = idempotency[AnswerAt(c)].response
         /\ Stored(call[c].reply.response.evaluation)
    /\ \A id \in DOMAIN evaluations :
         id[1] \in Calls => call[id[1]].reply.status = "recorded"

\* A decision that is answered with an error or with somebody else's precedence
\* was not recorded under the caller's own key and request by a call of the same
\* process: there, an identical retry is always a replay.
RetryIsNotAFailure ==
    \A c, d \in Calls :
      /\ call[c].kind = "decide" /\ call[d].kind = "decide"
      /\ call[c].pc = "done" /\ call[c].reply.status \in {"failed", "resolved"}
      /\ Succeeded(d) /\ call[d].reply.status = "recorded" /\ call[d].at = call[c].at
      => AnswerAt(c) # AnswerAt(d) \/ Request(c) # Request(d)

\* The agent runs at most once at a time for a key in a process, and the map says
\* so: no entry outlives its run, and a call that joined a run has it to wait for.
OneRunAtATime ==
    /\ \A p \in Processes, k \in Releases :
         {c \in Calls : call[c].at = p /\ call[c].key = k /\ call[c].pc = "verifying"}
           = {running[p][k]} \ {NoCall}
    /\ \A c \in Calls : call[c].pc = "joined" =>
         /\ call[call[c].owner].pc \in {"verifying", "done"}
         /\ call[call[c].owner].at = call[c].at

\* However many processes ran the agent for a key, one evaluation was stored.
VerifiedOnce ==
    \A c, d \in Calls :
      /\ Stored(LiveId(c)) /\ Stored(LiveId(d)) /\ call[c].key = call[d].key
      => c = d

-----------------------------------------------------------------------------
(* Refinement.                                                             *)

\* Of an evaluation's timeline, the register knows the decision.
DecisionOf(id) ==
    timeline[id][CHOOSE n \in DOMAIN timeline[id] : timeline[id][n].type = "decision"]
DecidedIds == {id \in DOMAIN timeline : Decided(timeline[id])}

Parents   == [id \in DOMAIN evaluations |-> evaluations[id].parent]
Taken     == [id \in DecidedIds |-> [decision |-> DecisionOf(id).decision,
                                     child    |-> DecisionOf(id).child]]
Responses == [at \in DOMAIN idempotency |-> idempotency[at].response]

Register == INSTANCE EvaluationRegister WITH
    None <- NoParent, parent <- Parents, decided <- Taken, answers <- Responses

\* Through all awaits, races and crashes, the tables move as the register does.
ImplementsRegister == Register!Spec

=============================================================================
