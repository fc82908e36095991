-------------------------- MODULE EvaluationService --------------------------
(***************************************************************************)
(* The evaluation service of application/src/evaluation-service.ts in the  *)
(* server processes that run it, over one ledger file.                     *)
(*                                                                         *)
(* A process is one event loop: between two awaits a call is alone in its  *)
(* process, but every statement is a transaction of its own and another    *)
(* process may come in between.  `turn` is the call a process is in the    *)
(* middle of.  A call is submitted once; a retry is another call that asks *)
(* the same with the same key.  An evaluation is named by who built it and *)
(* its scenario, which is as fresh as a random identifier.                 *)
(*                                                                         *)
(* Left out: reasons, actors and notes (an actor or a note is part of the  *)
(* request, as the decision is), times, the order of the inbox.  The       *)
(* source-and-CI evaluation is only run by a command on a ledger of its    *)
(* own, in memory; what it stores is covered by StorableProjects.          *)
(***************************************************************************)
EXTENDS EvaluationLedger

CONSTANTS
    Processes,     \* server processes over the file
    Calls,         \* submissions, each made at most once
    Keys,          \* idempotency keys of decisions
    Releases,      \* keys of verifications: the releases the processes serve
    NoCall,
    AgentCalls,    \* tool calls a model may attempt in one invocation
    LiveWorlds,    \* what the providers may say
    MaxRestarts    \* bound: crashes

ASSUME EvaluationAssumption ==
    /\ NoCall \notin Calls
    /\ Processes \cap Calls = {}      \* what one builds is not named as another's
    /\ LiveWorlds \subseteq Worlds
    /\ MaxRestarts \in Nat

VARIABLES
    stage,      \* of a process: checking, seeding, serving, failed
    turn,       \* the call a process's event loop is in the middle of
    running,    \* #liveReleaseRuns: process -> key -> the call that runs it
    call,       \* what is known of a submission
    restarts

serviceVars == <<stage, turn, running, call, restarts>>
vars == <<ledgerVars, serviceVars>>

-----------------------------------------------------------------------------

NoReply == [status |-> "none", response |-> NoRecord]
Unsent  == [pc |-> "new", at |-> NoCall, kind |-> "none", target |-> NoParent,
            decision |-> "none", key |-> "none", next |-> 0, owner |-> NoCall,
            reply |-> NoReply]

Decisions == {"Reject", "Re-check requested"}

\* Variant: a verification is recorded under its evaluation instead of its key.
AnswerAtByCall(c) == <<<<call[c].kind, call[c].target>>,
                       IF call[c].kind = "verify" THEN c ELSE call[c].key>>

\* Idempotency scopes and requests.
AnswerAt(c) == <<<<call[c].kind, call[c].target>>, call[c].key>>
Request(c)  == IF call[c].kind = "verify" THEN "verify" ELSE call[c].decision

Init ==
    /\ LedgerInit
    /\ stage = [p \in Processes |-> "checking"]
    /\ turn = [p \in Processes |-> NoCall]
    /\ running = [p \in Processes |-> [k \in Releases |-> NoCall]]
    /\ call = [c \in Calls |-> Unsent]
    /\ restarts = 0

-----------------------------------------------------------------------------
(* Starting a process: seed an empty database before listening.            *)

Stored(id) == id \in DOMAIN evaluations
Readable(id) == Stored(id) /\ Projects(evaluations[id], timeline[id])

\* listInbox, which projects every evaluation there is.
CheckInbox(p) ==
    /\ stage[p] = "checking"
    /\ stage' = [stage EXCEPT ![p] =
                   IF \E id \in DOMAIN evaluations : ~ Readable(id) THEN "failed"
                   ELSE IF evaluations = <<>> THEN "seeding" ELSE "serving"]
    /\ UNCHANGED <<ledgerVars, turn, running, call, restarts>>

FixtureOrder == EvidenceKinds
SeedIds(p)   == {<<p, "ready">>, <<p, "deployed-sha-mismatch">>}
SeedResult(id) == RunResult(id[2], FixtureOrder, Fixture(id[2]))

SeedRecords(p) ==
    [id \in SeedIds(p) |-> EvaluationRecord(id[2], SeedResult(id).candidate, NoParent)]
SeedEvents(p) ==
    [id \in SeedIds(p) |-> EvaluationEvents(id[2], SeedResult(id), NoParent)]

\* startDemoEvaluations: both are built, awaiting the agent, then stored at once.
Seed(p) ==
    /\ stage[p] = "seeding"
    /\ Commit(SeedRecords(p), SeedEvents(p), NoRecord)
    /\ stage' = [stage EXCEPT ![p] = "serving"]
    /\ UNCHANGED <<turn, running, call, restarts>>

-----------------------------------------------------------------------------
(* Answers.                                                                *)

Free(p) == stage[p] = "serving" /\ turn[p] = NoCall

Reply(status, response) == [status |-> status, response |-> response]

\* What call c becomes when it is answered.
Answered(c, reply) == [call EXCEPT ![c].pc = "done", ![c].reply = reply]

\* Variant: the caller's own response, although another one was recorded.
CommitReplyOwn(result, response, at) ==
    IF result \in {"committed", "replayed"}
      THEN Reply(IF result = "committed" THEN "recorded" ELSE "replayed", response)
      ELSE Reply(result, NoRecord)

\* The answer of a commit.
CommitReply(result, response, at) ==
    CASE result = "committed" -> Reply("recorded", response)
      [] result = "replayed"  -> Reply("replayed", idempotency[at].response)
      [] OTHER                -> Reply(result, NoRecord)

Asked(c, p, kind, target, decision, key) ==
    [Unsent EXCEPT !.at = p, !.kind = kind, !.target = target,
                   !.decision = decision, !.key = key]

-----------------------------------------------------------------------------
(* recordDecision.                                                         *)

\* Up to and with findIdempotency.
ArriveDecision(c, p, id, decision, key) ==
    LET asked == Asked(c, p, "decide", id, decision, key)
        at    == <<<<"decide", id>>, key>>
        found == Lookup(at, decision)
    IN /\ call[c].pc = "new" /\ Free(p)
       /\ IF found = "absent"
            THEN /\ call' = [call EXCEPT ![c] = [asked EXCEPT !.pc = "check"]]
                 /\ turn' = [turn EXCEPT ![p] = c]
            ELSE /\ call' = [call EXCEPT ![c] =
                       [asked EXCEPT !.pc = "done", !.reply =
                          IF found = "found" THEN Reply("replayed", idempotency[at].response)
                          ELSE Reply("conflict", NoRecord)]]
                 /\ UNCHANGED turn
       /\ UNCHANGED <<ledgerVars, stage, running, restarts>>

\* The refusals that getEvaluation and the checks after it lead to.
Refusal(id, decision) ==
    CASE ~ Stored(id)                                            -> "unknown"
      [] Stored(id) /\ ~ Readable(id)                            -> "failed"
      [] Readable(id) /\ Decided(timeline[id])                   -> "resolved"
      [] Readable(id) /\ ~ Decided(timeline[id])
           /\ ~ Contains(Verdict(timeline[id]).allowed, decision) -> "refused"
      [] OTHER                                                   -> "none"

\* getEvaluation and the checks.  A re-check awaits the run of its child.
CheckDecision(c) ==
    LET p == call[c].at
        id == call[c].target
        refusal == Refusal(id, call[c].decision)
    IN /\ call[c].pc = "check"
       /\ IF refusal # "none"
            THEN /\ call' = Answered(c, Reply(refusal, NoRecord))
                 /\ turn' = [turn EXCEPT ![p] = NoCall]
            ELSE /\ call' = [call EXCEPT
                       ![c].next = Len(timeline[id]) + 1,
                       ![c].pc = IF call[c].decision = "Reject" THEN "commit" ELSE "building"]
                 /\ turn' = [turn EXCEPT ![p] = IF call[c].decision = "Reject" THEN c ELSE NoCall]
       /\ UNCHANGED <<ledgerVars, stage, running, restarts>>

ChildId(c) == <<c, "deployed-sha-mismatch">>
Child(c) == IF call[c].decision = "Reject" THEN NoParent ELSE ChildId(c)

ChildResult == RunResult("deployed-sha-mismatch", FixtureOrder, Fixture("deployed-sha-mismatch"))

\* The child of a re-check, whose fixture does not depend on its parent.
ChildRecords(c) ==
    IF call[c].decision = "Reject" THEN <<>>
    ELSE Row(ChildId(c), EvaluationRecord("deployed-sha-mismatch", ChildResult.candidate,
                                          call[c].target))
ChildEvents(c) ==
    IF call[c].decision = "Reject" THEN <<>>
    ELSE Row(ChildId(c), EvaluationEvents("deployed-sha-mismatch", ChildResult, call[c].target))

DecisionResponse(c) ==
    [evaluation |-> call[c].target, decision |-> call[c].decision, child |-> Child(c)]

\* The decision event, numbered from the timeline read before the await.
DecisionRows(c) ==
    Row(call[c].target, From(call[c].next, <<DecisionEvent(call[c].decision, Child(c))>>))

\* The one batch of a decision and its answer.
CommitDecision(c) ==
    LET p == call[c].at
        record == [at |-> AnswerAt(c), request |-> Request(c), response |-> DecisionResponse(c)]
        events == Added(DecisionRows(c), ChildEvents(c))
        result == CommitResult(ChildRecords(c), events, record)
    IN /\ \/ call[c].pc = "commit" /\ turn[p] = c
          \/ call[c].pc = "building" /\ Free(p)
       /\ Commit(ChildRecords(c), events, record)
       /\ call' = Answered(c, CommitReply(result, DecisionResponse(c), AnswerAt(c)))
       /\ turn' = [turn EXCEPT ![p] = NoCall]
       /\ UNCHANGED <<stage, running, restarts>>

-----------------------------------------------------------------------------
(* startLiveReleaseVerification.                                           *)

Verifying(c, p, key) == [Asked(c, p, "verify", NoParent, "none", key) EXCEPT !.pc = "verifying"]

\* A call that finds its key running in this process waits for that call; the
\* first one looks for a stored answer and starts the agent.
ArriveVerification(c, p, key) ==
    LET at == <<<<"verify", NoParent>>, key>>
        owner == running[p][key]
    IN /\ call[c].pc = "new" /\ Free(p)
       /\ \/ /\ owner # NoCall
             /\ call' = [call EXCEPT ![c] = [Verifying(c, p, key) EXCEPT !.pc = "joined",
                                                                         !.owner = owner]]
             /\ UNCHANGED running
          \/ /\ owner = NoCall /\ Lookup(at, "verify") = "found"
             /\ call' = [call EXCEPT ![c] =
                   [Verifying(c, p, key) EXCEPT !.pc = "done",
                      !.reply = Reply("replayed", idempotency[at].response)]]
             /\ UNCHANGED running
          \/ /\ owner = NoCall /\ Lookup(at, "verify") = "absent"
             /\ call' = [call EXCEPT ![c] = Verifying(c, p, key)]
             /\ running' = [running EXCEPT ![p][key] = c]
       /\ UNCHANGED <<ledgerVars, stage, turn, restarts>>

\* Variant: the entry is removed when the run succeeds, and stays when it fails.
SettledOnSuccess(c, status) ==
    IF status = "failed" THEN running
    ELSE [running EXCEPT ![call[c].at][call[c].key] = NoCall]

\* `finally`: the entry goes whatever came of the run.
Settled(c, status) == [running EXCEPT ![call[c].at][call[c].key] = NoCall]

LiveId(c) == <<c, "live-release-verification">>

\* The agent comes back with a result that is valid, and it is stored.
StoreVerification(c, order, world) ==
    LET result == RunResult("live-release-verification", order, world)
        response == [evaluation |-> LiveId(c)]
        record == [at |-> AnswerAt(c), request |-> "verify", response |-> response]
        new == Row(LiveId(c), EvaluationRecord("live-release-verification",
                                               result.candidate, NoParent))
        events == Row(LiveId(c), EvaluationEvents("live-release-verification", result, NoParent))
        reply == CommitReply(CommitResult(new, events, record), response, AnswerAt(c))
    IN /\ Returns("live-release-verification", order)
       /\ ResultMatches(result, "live-release-verification")
       /\ Commit(new, events, record)
       /\ call' = Answered(c, reply)
       /\ running' = Settled(c, reply.status)

\* It fails, or its result is not what the scenario demands.
DropVerification(c, order, world) ==
    /\ \/ ~ Returns("live-release-verification", order)
       \/ ~ ResultMatches(RunResult("live-release-verification", order, world),
                          "live-release-verification")
    /\ call' = Answered(c, Reply("failed", NoRecord))
    /\ running' = Settled(c, "failed")
    /\ UNCHANGED ledgerVars

VerificationReturns(c) ==
    /\ call[c].pc = "verifying" /\ Free(call[c].at)
    /\ \E attempted \in AgentCalls, world \in LiveWorlds :
         LET order == Budgeted(attempted, ToSet(EvidenceKinds))
         IN StoreVerification(c, order, world) \/ DropVerification(c, order, world)
    /\ UNCHANGED <<stage, turn, restarts>>

\* A joined call gets the answer of the one it waited for, marked replayed.
JoinReturns(c) ==
    /\ call[c].pc = "joined" /\ Free(call[c].at)
    /\ call[call[c].owner].pc = "done"
    /\ LET reply == call[call[c].owner].reply
       IN call' = Answered(c, IF reply.status = "failed" THEN reply
                              ELSE Reply("replayed", reply.response))
    /\ UNCHANGED <<ledgerVars, stage, turn, running, restarts>>

-----------------------------------------------------------------------------

\* A process dies, its calls and its map with it, and is started again.
Crash(p) ==
    /\ restarts < MaxRestarts
    /\ restarts' = restarts + 1
    /\ stage' = [stage EXCEPT ![p] = "checking"]
    /\ turn' = [turn EXCEPT ![p] = NoCall]
    /\ running' = [running EXCEPT ![p] = [k \in Releases |-> NoCall]]
    /\ call' = [c \in Calls |-> IF call[c].at = p /\ call[c].pc # "done"
                                  THEN [call[c] EXCEPT !.pc = "lost"] ELSE call[c]]
    /\ UNCHANGED ledgerVars

Arrive(c, p) ==
    \/ \E id \in (DOMAIN evaluations) \cup {NoParent}, d \in Decisions, k \in Keys :
         ArriveDecision(c, p, id, d, k)
    \/ \E k \in Releases : ArriveVerification(c, p, k)

CallStep(c) == CheckDecision(c) \/ CommitDecision(c) \/ VerificationReturns(c)
               \/ JoinReturns(c)

\* Everything that may end: all calls are made and answered.
Quiescent ==
    /\ \A p \in Processes : stage[p] \in {"serving", "failed"}
    /\ \A c \in Calls : call[c].pc \in {"done", "lost"}
    /\ UNCHANGED vars

Next ==
    \/ \E p \in Processes : CheckInbox(p) \/ Seed(p) \/ Crash(p)
    \/ \E c \in Calls : CallStep(c) \/ \E p \in Processes : Arrive(c, p)
    \/ Quiescent

Spec == Init /\ [][Next]_vars

=============================================================================
