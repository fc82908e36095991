--------------------------- MODULE ReleaseSteward ---------------------------
(***************************************************************************)
(* The release steward at work: worker processes                           *)
(* (application/src/release-run-worker.ts) over one ledger, the webhook    *)
(* and the operator (server/src/server.ts), the incident runner            *)
(* (agent/src/release-steward-action.ts, adapters/src/github-incident.ts)  *)
(* and the provider it posts to.                                           *)
(*                                                                         *)
(* A worker tick is the sequence of ledger transactions and awaits of      *)
(* #executeOne.  Each transaction is a step, so those of other processes   *)
(* fall between any two of them, and the clock moves between any two       *)
(* steps.  A step whose transaction throws ends the tick and writes        *)
(* nothing: the lease stays until it expires.                              *)
(*                                                                         *)
(* The deployment asks for one replica; two workers are the overlap of a   *)
(* replacement and of two ledgers on one file, which the tests exercise.   *)
(***************************************************************************)
EXTENDS ReleaseRunService

CONSTANTS
    Keys,         \* idempotency keys of decision submissions
    MaxTime,      \* bound: the clock stops there
    MaxRestarts   \* bound: process replacements in a behaviour

ASSUME StewardAssumption == MaxTime \in Nat /\ MaxRestarts \in Nat

VARIABLES
    now,        \* the clock the processes of the host read
    pc,         \* where each worker is in #executeOne
    at,         \* the time it read last: claimTime, then the time it commits
    claim,      \* the run it holds in memory
    outcome,    \* the result its last await returned
    stopping,   \* whether stop() was called
    restarts,   \* process replacements so far
    posts,      \* incident POSTs sent for each run
    issues,     \* of those, the ones the provider accepted
    refusals    \* of those, the ones it answered with a 4xx

workerVars   == <<pc, at, claim, outcome, stopping, restarts>>
providerVars == <<posts, issues, refusals>>
vars == <<ledgerVars, workerVars, providerVars, now>>

PCs == {"idle", "recover", "claim", "read", "wake", "expire", "begin",
        "calling", "posted", "finish", "observing", "commit", "stop"}

ObservationFailures == {"EVIDENCE_INVALID", "EVIDENCE_UNAVAILABLE",
                        "DEPLOYMENT_UNHEALTHY", "HOMEPAGE_SMOKE_UNHEALTHY"}

Init ==
    /\ LedgerInit
    /\ now = 0
    /\ pc       = [w \in Workers |-> "idle"]
    /\ at       = [w \in Workers |-> 0]
    /\ claim    = [w \in Workers |-> NoClaim]
    /\ outcome  = [w \in Workers |-> "NONE"]
    /\ stopping = [w \in Workers |-> FALSE]
    /\ restarts = 0
    /\ posts    = [r \in Runs |-> 0]
    /\ issues   = [r \in Runs |-> 0]
    /\ refusals = [r \in Runs |-> 0]

-----------------------------------------------------------------------------
(* The environment: the clock, the webhook, the operator, the provider.    *)

Tick ==
    /\ now < MaxTime
    /\ now' = now + 1
    /\ UNCHANGED <<ledgerVars, workerVars, providerVars>>

\* createFromTrigger for a new delivery; a redelivery is answered, not applied.
Trigger(r) ==
    /\ CreateRunFromWebhook(r, now)
    /\ UNCHANGED <<workerVars, providerVars, now>>

\* An operator's submission that is recorded; the others change nothing.
Submit(r, key, choice, expected) ==
    /\ SubmitDecision(r, key, choice, expected, now)
    /\ UNCHANGED <<workerVars, providerVars, now>>

\* A POST on the wire reaches the provider whatever became of its sender.
ProviderAccepts(r) ==
    /\ issues[r] + refusals[r] < posts[r]
    /\ issues' = [issues EXCEPT ![r] = @ + 1]
    /\ UNCHANGED <<ledgerVars, workerVars, posts, refusals, now>>

ProviderRefuses(r) ==
    /\ issues[r] + refusals[r] < posts[r]
    /\ refusals' = [refusals EXCEPT ![r] = @ + 1]
    /\ UNCHANGED <<ledgerVars, workerVars, posts, issues, now>>

-----------------------------------------------------------------------------
(* The worker.                                                             *)

Goto(w, label) == pc' = [pc EXCEPT ![w] = label]

\* The end of a tick: the worker forgets its claim, the lease stays.
EndTick(w) ==
    /\ Goto(w, "idle")
    /\ at'      = [at EXCEPT ![w] = 0]
    /\ claim'   = [claim EXCEPT ![w] = NoClaim]
    /\ outcome' = [outcome EXCEPT ![w] = "NONE"]

\* The await of the tick returns: its result and the time of the commit.
Await(w, label, result) ==
    /\ Goto(w, label)
    /\ outcome' = [outcome EXCEPT ![w] = result]
    /\ at'      = [at EXCEPT ![w] = now]
    /\ UNCHANGED claim

\* tick: nothing is in flight in the process; claimTime is read.
StartTick(w) ==
    /\ pc[w] = "idle" /\ ~ stopping[w]
    /\ Goto(w, "recover")
    /\ at' = [at EXCEPT ![w] = now]
    /\ UNCHANGED <<ledgerVars, claim, outcome, stopping, restarts, providerVars, now>>

ClaimDue(w, r) ==
    /\ pc[w] = "claim"
    /\ ClaimNextDueRun(w, r, at[w])
    /\ claim' = [claim EXCEPT ![w] = HeadClaim(r, at[w])]
    /\ Goto(w, "read")
    /\ UNCHANGED <<at, outcome, stopping, restarts, providerVars, now>>

NothingDue(w) ==
    /\ pc[w] = "claim"
    /\ NextDue(at[w]) = {}
    /\ EndTick(w)
    /\ UNCHANGED <<ledgerVars, stopping, restarts, providerVars, now>>

\* What the tick does with the claim: the branches of #executeOne.
Branch(c) ==
    CASE c.state = "WAITING"                            -> "wake"
      [] c.state = "AWAITING_DECISION"                  -> "expire"
      [] c.state = "RESUMING" /\ ActionEnabled          -> "begin"
      [] c.state = "MONITORING" /\ Phase(c) # "NONE"    -> "observing"
      [] OTHER                                          -> "throw"

ReadClaim(w) ==
    LET c == FullClaim(claim[w]) IN
    /\ pc[w] = "read"
    /\ IF Branch(c) = "throw"
         THEN EndTick(w)
         ELSE /\ claim' = [claim EXCEPT ![w] = c]
              /\ Goto(w, Branch(c))
              /\ UNCHANGED <<at, outcome>>
    /\ UNCHANGED <<ledgerVars, stopping, restarts, providerVars, now>>

\* Variant: a tick that failed gives its lease back.
RefusedAndReleased(w) ==
    /\ EndTick(w)
    /\ head' = [head EXCEPT ![claim[w].run] = Released(@)]
    /\ UNCHANGED <<log, action, reserved, decisions, stopping, restarts, providerVars, now>>

\* A transaction that throws: the tick ends with nothing written.
Refused(w) ==
    /\ EndTick(w)
    /\ UNCHANGED <<ledgerVars, stopping, restarts, providerVars, now>>

\* recoverAbandonedWork(claimTime): other processes may have committed since the
\* time was read, and an event dated before a run's last one is refused.
Recover(w) ==
    /\ pc[w] = "recover"
    /\ IF CanRecover(at[w])
         THEN /\ RecoverAbandonedWork(at[w])
              /\ Goto(w, "claim")
              /\ UNCHANGED <<at, claim, outcome, stopping, restarts, providerVars, now>>
         ELSE Refused(w)

Wake(w) ==
    /\ pc[w] = "wake"
    /\ WakeDueRun(claim[w], at[w])
    /\ EndTick(w)
    /\ UNCHANGED <<stopping, restarts, providerVars, now>>

WakeRefused(w) == pc[w] = "wake" /\ ~ CanWake(claim[w], at[w]) /\ Refused(w)

Expire(w) ==
    /\ pc[w] = "expire"
    /\ ExpireDecision(claim[w], at[w])
    /\ EndTick(w)
    /\ UNCHANGED <<stopping, restarts, providerVars, now>>

ExpireRefused(w) == pc[w] = "expire" /\ ~ CanExpire(claim[w], at[w]) /\ Refused(w)

Begin(w) ==
    /\ pc[w] = "begin"
    /\ BeginIncidentAction(claim[w], at[w])
    /\ Goto(w, "calling")
    /\ UNCHANGED <<at, claim, outcome, stopping, restarts, providerVars, now>>

BeginRefused(w) == pc[w] = "begin" /\ ~ CanBeginIncident(claim[w], at[w]) /\ Refused(w)

\* The incident tool, callable once in the runner's invocation, sends the POST.
SendPost(w) ==
    /\ pc[w] = "calling"
    /\ posts' = [posts EXCEPT ![claim[w].run] = @ + 1]
    /\ Goto(w, "posted")
    /\ UNCHANGED <<ledgerVars, at, claim, outcome, stopping, restarts,
                   issues, refusals, now>>

\* Variant: a timeout after the POST is reported as a rejection.
TimeoutIsRejection(w, result) ==
    /\ \/ pc[w] = "posted" /\ result = "CONFIRMED" /\ issues[claim[w].run] > 0
       \/ pc[w] = "posted" /\ result = "REJECTED"
       \/ pc[w] = "calling" /\ result = "UNCERTAIN"
    /\ Await(w, "finish", result)
    /\ UNCHANGED <<ledgerVars, stopping, restarts, providerVars, now>>

\* The runner returns: 201 and 4xx answers are what the provider did; a throw,
\* before the POST or after it, a timeout and any other answer are uncertain.
IncidentReturns(w, result) ==
    /\ \/ pc[w] = "posted" /\ result = "CONFIRMED" /\ issues[claim[w].run] > 0
       \/ pc[w] = "posted" /\ result = "REJECTED"  /\ refusals[claim[w].run] > 0
       \/ pc[w] \in {"calling", "posted"} /\ result = "UNCERTAIN"
    /\ Await(w, "finish", result)
    /\ UNCHANGED <<ledgerVars, stopping, restarts, providerVars, now>>

\* finishIncidentAction runs whether or not the process is stopping.
Finish(w) ==
    /\ pc[w] = "finish"
    /\ FinishExternalAction(claim[w].run, outcome[w], at[w])
    /\ EndTick(w)
    /\ UNCHANGED <<stopping, restarts, providerVars, now>>

FinishRefused(w) ==
    /\ pc[w] = "finish"
    /\ ~ CanFinish(claim[w].run, outcome[w], at[w])
    /\ Refused(w)

\* The observation returns a result.
Observed(w, signal) ==
    /\ pc[w] = "observing" /\ ~ stopping[w]
    /\ signal \in ObservationSignals(Phase(claim[w]))
    /\ Await(w, "commit", signal)
    /\ UNCHANGED <<ledgerVars, stopping, restarts, providerVars, now>>

\* The observation fails with an error classifyObservationFailure knows.
ObservationFailed(w, signal) ==
    /\ pc[w] = "observing" /\ ~ stopping[w]
    /\ Await(w, "stop", signal)
    /\ UNCHANGED <<ledgerVars, stopping, restarts, providerVars, now>>

\* An unknown error is rethrown; a stopping process commits no observation.
ObservationDropped(w) == pc[w] = "observing" /\ Refused(w)

Commit(w) ==
    /\ pc[w] = "commit"
    /\ CommitObservation(claim[w], outcome[w], at[w])
    /\ EndTick(w)
    /\ UNCHANGED <<stopping, restarts, providerVars, now>>

CommitRefused(w) ==
    /\ pc[w] = "commit"
    /\ ~ CanCommitObservation(claim[w], outcome[w], at[w])
    /\ Refused(w)

StopRun(w) ==
    /\ pc[w] = "stop"
    /\ StopClaim(claim[w], outcome[w], at[w])
    /\ EndTick(w)
    /\ UNCHANGED <<stopping, restarts, providerVars, now>>

StopRunRefused(w) ==
    /\ pc[w] = "stop"
    /\ ~ CanStop(claim[w], outcome[w], at[w])
    /\ Refused(w)

\* Another process holds the file longer than the busy timeout: the statement
\* throws, whatever step of the tick it belongs to.
Locked(w) ==
    /\ pc[w] \in {"recover", "claim", "read", "wake", "expire", "begin",
                 "finish", "commit", "stop"}
    /\ Refused(w)

\* stop(): no further tick; the one in flight goes on until Restart ends it.
Stop(w) ==
    /\ ~ stopping[w] /\ restarts < MaxRestarts
    /\ stopping' = [stopping EXCEPT ![w] = TRUE]
    /\ UNCHANGED <<ledgerVars, pc, at, claim, outcome, restarts, providerVars, now>>

\* The process is gone, by a crash or at the end of its shutdown (the ledger is
\* closed under work that outlasts it), and a new one takes its place.
Restart(w) ==
    /\ restarts < MaxRestarts
    /\ restarts' = restarts + 1
    /\ EndTick(w)
    /\ stopping' = [stopping EXCEPT ![w] = FALSE]
    /\ UNCHANGED <<ledgerVars, providerVars, now>>

-----------------------------------------------------------------------------

WorkerStep(w) ==
    \/ StartTick(w) \/ Recover(w) \/ NothingDue(w) \/ ReadClaim(w)
    \/ \E r \in Runs : ClaimDue(w, r)
    \/ Wake(w) \/ WakeRefused(w) \/ Expire(w) \/ ExpireRefused(w)
    \/ Begin(w) \/ BeginRefused(w) \/ SendPost(w)
    \/ \E result \in ActionResults : IncidentReturns(w, result)
    \/ Finish(w) \/ FinishRefused(w)
    \/ \E signal \in MonitoringSignals : Observed(w, signal)
    \/ \E signal \in ObservationFailures : ObservationFailed(w, signal)
    \/ ObservationDropped(w)
    \/ Commit(w) \/ CommitRefused(w) \/ StopRun(w) \/ StopRunRefused(w)

Environment ==
    \/ Tick
    \/ \E r \in Runs : Trigger(r) \/ ProviderAccepts(r) \/ ProviderRefuses(r)
    \/ \E r \in Runs, key \in Keys, choice \in DecisionChoices :
         \E expected \in 1..Len(log[r]) : Submit(r, key, choice, expected)

Next ==
    \/ Environment
    \/ \E w \in Workers : WorkerStep(w) \/ Locked(w) \/ Stop(w) \/ Restart(w)

Spec == Init /\ [][Next]_vars

=============================================================================
