-------------------------- MODULE ReleaseRunLedger --------------------------
(***************************************************************************)
(* The durable ledger of release runs:                                     *)
(* storage/src/sqlite-release-run-ledger.ts over the tables of             *)
(* storage/src/sqlite-migrations.ts, with the projection of                *)
(* storage/src/release-run-event-projection.ts.                            *)
(*                                                                         *)
(* Every public method that writes is one BEGIN IMMEDIATE transaction, so  *)
(* here it is one action.  A method that throws rolls back and changes     *)
(* nothing: its guard is a state predicate of its own (CanAppend, ...), so *)
(* that a caller can take the other branch when the guard is false.        *)
(*                                                                         *)
(* Abstractions.  A run is its trigger delivery (the run id is a hash of   *)
(* the delivery id), with its candidate.  A run asks for one decision in   *)
(* its life (a unique index says so), so the decision id is the run, and   *)
(* active_decision_id, which is non-null exactly in AWAITING_DECISION, is  *)
(* not kept.  Times are integers; None stands for SQL's NULL time.         *)
(* Payload fields nothing below reads are left out.                        *)
(*                                                                         *)
(* A definition introduced by "Variant:" is no part of the model.  It is a *)
(* mistake this code could contain, kept next to the definition it would   *)
(* replace to see that a property notices it.                              *)
(***************************************************************************)
EXTENDS ReleaseTransitions, Integers, Sequences, FiniteSets, SequencesExt

CONSTANTS
    Runs,            \* the webhook deliveries, each the identity of one run
    Workers,         \* the processes that run a worker loop over the ledger
    NoWorker,        \* lease_owner of a head without a lease
    LeaseDuration    \* leaseDurationMs

ASSUME LedgerAssumption ==
    /\ NoWorker \notin Workers
    /\ LeaseDuration \in Nat \ {0}

None == -1
NoFingerprint == [authorizedAt |-> None, observations |-> 0, waited |-> 0]

VARIABLES
    log,        \* release_run_events: the append-only history of each run
    head,       \* release_run_heads: the mutable index row of each run
    action,     \* external_actions: status, attempt_count, and the status its
                \* idempotency record answers with
    reserved,   \* external_actions.request_fingerprint
    decisions   \* idempotency_records of scope release-decision:<id>

ledgerVars == <<log, head, action, reserved, decisions>>

Times == Nat
OptionalTimes == Nat \cup {None}

\* One event; wake is the payload's nextWakeAt.
Event(type, signal, at, wake) ==
    [type |-> type, signal |-> signal, at |-> at, wake |-> wake]

Events == [type : EventTypes, signal : Signals \cup {NoSignal},
           at : Times, wake : OptionalTimes]

Heads == [state : States \cup {NoState}, version : Nat, wake : OptionalTimes,
          updatedAt : Times, owner : Workers \cup {NoWorker},
          expires : OptionalTimes]

ActionStatuses == {"NONE", "RESERVED", "IN_FLIGHT",
                   "CONFIRMED", "REJECTED", "UNCERTAIN"}
ActionResults  == {"CONFIRMED", "REJECTED", "UNCERTAIN"}
Actions == [status : ActionStatuses, attempts : Nat,
            receipt : ActionResults \cup {"NONE"}]

DecisionChoices == {"WAIT_AND_RECHECK", "ESCALATE_INCIDENT"}

\* A run without a row in any table.
Unborn   == [state |-> NoState, version |-> 0, wake |-> None,
             updatedAt |-> 0, owner |-> NoWorker, expires |-> None]
NoAction == [status |-> "NONE", attempts |-> 0, receipt |-> "NONE"]

LedgerInit ==
    /\ log       = [r \in Runs |-> <<>>]
    /\ head      = [r \in Runs |-> Unborn]
    /\ action    = [r \in Runs |-> NoAction]
    /\ reserved  = [r \in Runs |-> NoFingerprint]
    /\ decisions = [r \in Runs |-> {}]

Exists(r) == head[r].state # NoState

-----------------------------------------------------------------------------
(* The projection: one turn of the loop of rebuildReleaseRunHead.          *)

\* The event is admissible after the history l that projects to h.  The last
\* conjunct is the pair of unique indexes of the event table.
Accepts(h, l, e) ==
    /\ e.at >= h.updatedAt
    /\ IF EventSignals(e.type) = {}
         THEN e.signal = NoSignal /\ h.state \in ActiveStates
         ELSE /\ e.signal \in EventSignals(e.type)
              /\ h.state \in SourceStates(e.signal)
              /\ (e.wake # None) <=>
                   (Target(e.signal) \in {"WAITING", "AWAITING_DECISION"})
    /\ e.type \in {"decision-requested", "decision-recorded"} =>
          \A i \in DOMAIN l : l[i].type # e.type

\* The head the loop carries after the event.
Advance(h, e) ==
    [h EXCEPT !.state     = IF e.signal = NoSignal THEN @ ELSE Target(e.signal),
              !.version   = @ + 1,
              !.wake      = IF e.signal = NoSignal THEN @ ELSE e.wake,
              !.updatedAt = e.at]

\* rebuildReleaseRunHead, and what rebuildHead would write for the history l.
Rebuild(l) ==
    LET h[n \in 0..Len(l)] == IF n = 0 THEN Unborn ELSE Advance(h[n - 1], l[n])
    IN  h[Len(l)]

\* A transaction appends one or two events.
AcceptsAll(h, l, es) ==
    /\ Accepts(h, l, es[1])
    /\ Len(es) = 2 => Accepts(Advance(h, es[1]), Append(l, es[1]), es[2])

AdvanceAll(h, es) ==
    IF Len(es) = 2 THEN Advance(Advance(h, es[1]), es[2])
                   ELSE Advance(h, es[1])

Released(h) == [h EXCEPT !.owner = NoWorker, !.expires = None]

\* Variant: the head is advanced by the first event only.
RecordFirstEvent(r, es) ==
    /\ log'  = [log  EXCEPT ![r] = @ \o es]
    /\ head' = [head EXCEPT ![r] = Released(Advance(@, es[1]))]

\* #insertEvent for each event, then #updateHeadFromRebuild: the head is the
\* projection of the whole history, and the lease is gone.
Record(r, es) ==
    /\ log'  = [log  EXCEPT ![r] = @ \o es]
    /\ head' = [head EXCEPT ![r] = Released(AdvanceAll(@, es))]

-----------------------------------------------------------------------------
(* The transactions.                                                       *)

\* createRunFromWebhook for a delivery seen for the first time.  A repeated
\* delivery answers from its idempotency record and writes nothing.
CreateRunFromWebhook(r, t) ==
    /\ ~ Exists(r)
    /\ Record(r, <<Event("release-triggered", "TRIGGER_ACCEPTED", t, None)>>)
    /\ UNCHANGED <<action, reserved, decisions>>

LeaseFree(r, t) == head[r].expires = None \/ head[r].expires <= t

\* Variant: the claim query without its lease condition.
ClaimableUnderLease(r, t) ==
    /\ head[r].state \in ActiveStates
    /\ head[r].state \in {"WAITING", "AWAITING_DECISION"} => head[r].wake <= t

Claimable(r, t) ==
    /\ head[r].state \in ActiveStates
    /\ LeaseFree(r, t)
    /\ head[r].state \in {"WAITING", "AWAITING_DECISION"} => head[r].wake <= t

\* ORDER BY COALESCE(next_wake_at, updated_at).
DueAt(r) == IF head[r].wake = None THEN head[r].updatedAt ELSE head[r].wake

\* The row claimNextDueRun takes at t.  Ties go to the smaller run id; run ids
\* are hashes, so any of the tied runs may be the one.
NextDue(t) ==
    {r \in Runs : /\ Claimable(r, t)
                  /\ \A s \in Runs : Claimable(s, t) => DueAt(r) <= DueAt(s)}

\* claimNextDueRun: the lease is written and the version is not.
ClaimNextDueRun(w, r, t) ==
    /\ r \in NextDue(t)
    /\ head' = [head EXCEPT ![r].owner = w, ![r].expires = t + LeaseDuration]
    /\ UNCHANGED <<log, action, reserved, decisions>>

\* appendTransition compares the version and never the lease; `next` is the
\* state of the head its caller expects.
CanAppend(r, version, es, next) ==
    /\ head[r].version = version
    /\ AcceptsAll(head[r], log[r], es)
    /\ AdvanceAll(head[r], es).state = next

AppendTransition(r, version, es, next) ==
    /\ CanAppend(r, version, es, next)
    /\ Record(r, es)
    /\ UNCHANGED <<action, reserved, decisions>>

\* The events of buildDecisionEvents.
DecisionEvents(choice, t, wake) ==
    IF choice = "WAIT_AND_RECHECK"
      THEN <<Event("decision-recorded", "WAIT_AND_RECHECK_AUTHORIZED", t, wake)>>
      ELSE <<Event("decision-recorded", "ESCALATE_INCIDENT_AUTHORIZED", t, None),
             Event("action-reserved", NoSignal, t, None)>>

\* Variant: a decision is accepted at the instant it expires, and later.
DecisionReplyWithoutExpiry(r, key, choice, expected, fingerprint, t, wake) ==
    LET stored == {d \in decisions[r] : d.key = key}
    IN  IF stored # {} THEN "replayed"
        ELSE IF head[r].version # expected THEN "concurrency"
        ELSE IF head[r].state # "AWAITING_DECISION" THEN "state"
        ELSE "recorded"

\* What recordDecision answers to a request, before any write: the replay and
\* conflict of the idempotency table, then its checks in the code's order.
DecisionReply(r, key, choice, expected, fingerprint, t, wake) ==
    LET stored == {d \in decisions[r] : d.key = key}
    IN  IF \E d \in stored : /\ d.choice = choice
                             /\ d.expected = expected
                             /\ d.fingerprint = fingerprint THEN "replayed"
        ELSE IF stored # {} THEN "conflict"
        ELSE IF head[r].version # expected THEN "concurrency"
        ELSE IF head[r].state # "AWAITING_DECISION" THEN "state"
        ELSE IF head[r].wake <= t THEN "expired"
        ELSE IF ~ AcceptsAll(head[r], log[r], DecisionEvents(choice, t, wake)) THEN "error"
        ELSE "recorded"

\* recordDecision when it records: the authorization, with an escalation the
\* reserved action (UNIQUE (run_id, action_type)), and the replay record.
RecordDecision(r, key, choice, expected, fingerprint, t, wake) ==
    /\ DecisionReply(r, key, choice, expected, fingerprint, t, wake) = "recorded"
    /\ choice = "ESCALATE_INCIDENT" => action[r].status = "NONE"
    /\ Record(r, DecisionEvents(choice, t, wake))
    /\ IF choice = "ESCALATE_INCIDENT"
         THEN /\ action'   = [action EXCEPT ![r].status = "RESERVED"]
              /\ reserved' = [reserved EXCEPT ![r] = fingerprint]
         ELSE UNCHANGED <<action, reserved>>
    /\ decisions' = [decisions EXCEPT ![r] = @ \cup
                       {[key |-> key, choice |-> choice, expected |-> expected,
                         fingerprint |-> fingerprint,
                         version |-> AdvanceAll(head[r], DecisionEvents(choice, t, wake)).version]}]

ActionAttempted(t) == Event("action-attempted", NoSignal, t, None)

CanBegin(r, version, t) ==
    /\ action[r].status = "RESERVED" /\ action[r].attempts = 0
    /\ head[r].state = "RESUMING"    /\ head[r].version = version
    /\ Accepts(head[r], log[r], ActionAttempted(t))

\* Variant: the attempt is counted and not recorded in the history.
BeginUnrecorded(r, version, t) ==
    /\ CanBegin(r, version, t)
    /\ action' = [action EXCEPT ![r].status = "IN_FLIGHT", ![r].attempts = 1]
    /\ UNCHANGED <<log, head, reserved, decisions>>

\* beginExternalAction: the one head update that keeps the lease.
BeginExternalAction(r, version, t) ==
    /\ CanBegin(r, version, t)
    /\ log'    = [log EXCEPT ![r] = Append(@, ActionAttempted(t))]
    /\ head'   = [head EXCEPT ![r] = Advance(@, ActionAttempted(t))]
    /\ action' = [action EXCEPT ![r].status = "IN_FLIGHT", ![r].attempts = 1]
    /\ UNCHANGED <<reserved, decisions>>

ActionEvent(result, t) ==
    CASE result = "CONFIRMED" -> Event("action-confirmed", "ACTION_CONFIRMED", t, None)
      [] result = "REJECTED"  -> Event("action-rejected", "ACTION_REJECTED", t, None)
      [] OTHER                -> Event("action-uncertain", "ACTION_UNCERTAIN", t, None)

\* Variant: an answer that comes late corrects an action given up before.
CanFinishLate(r, result, t) ==
    action[r].receipt = "NONE" /\ action[r].attempts = 1

\* finishExternalAction compares neither a version nor a lease.
CanFinish(r, result, t) ==
    /\ action[r].receipt = "NONE"
    /\ action[r].status = "IN_FLIGHT" /\ action[r].attempts = 1
    /\ head[r].state = "RESUMING"
    /\ Accepts(head[r], log[r], ActionEvent(result, t))

FinishExternalAction(r, result, t) ==
    /\ CanFinish(r, result, t)
    /\ Record(r, <<ActionEvent(result, t)>>)
    /\ action' = [action EXCEPT ![r].status = result, ![r].receipt = result]
    /\ UNCHANGED <<reserved, decisions>>

\* Variant: recovery gives up every action in flight.
AbandonedUnderLease(t) == {r \in Runs : action[r].status = "IN_FLIGHT"}

\* The actions recoverAbandonedWork gives up: in flight on a run whose lease
\* has expired or is gone.
Abandoned(t) == {r \in Runs : action[r].status = "IN_FLIGHT" /\ LeaseFree(r, t)}

RecoveryEvent(t) == ActionEvent("UNCERTAIN", t)

CanRecover(t) == \A r \in Abandoned(t) : Accepts(head[r], log[r], RecoveryEvent(t))

\* Variant: an abandoned action is reserved again, to be retried.
RecoverByRetrying(t) ==
    /\ action' = [r \in Runs |-> IF r \in Abandoned(t)
                                   THEN [action[r] EXCEPT !.status = "RESERVED", !.attempts = 0]
                                   ELSE action[r]]
    /\ head'   = [r \in Runs |-> IF LeaseFree(r, t) THEN Released(head[r]) ELSE head[r]]
    /\ UNCHANGED <<log, reserved, decisions>>

\* Variant: an abandoned action becomes uncertain and its run is left as it is.
RecoverActionOnly(t) ==
    /\ action' = [r \in Runs |-> IF r \in Abandoned(t)
                                   THEN [action[r] EXCEPT !.status = "UNCERTAIN"]
                                   ELSE action[r]]
    /\ head'   = [r \in Runs |-> IF LeaseFree(r, t) THEN Released(head[r]) ELSE head[r]]
    /\ UNCHANGED <<log, reserved, decisions>>

\* Variant: only leases are recovered, an action in flight stays so.
RecoverLeasesOnly(t) ==
    /\ head' = [r \in Runs |-> IF LeaseFree(r, t) THEN Released(head[r]) ELSE head[r]]
    /\ UNCHANGED <<log, action, reserved, decisions>>

\* Variant: one abandoned action stops every run that is in flight.
RecoverEveryRun(t) ==
    /\ CanRecover(t)
    /\ LET hit == IF Abandoned(t) = {} THEN {}
                  ELSE {r \in Runs : head[r].state \in ActiveStates}
       IN  /\ log'    = [r \in Runs |-> IF r \in hit THEN Append(log[r], RecoveryEvent(t))
                                                      ELSE log[r]]
           /\ action' = [r \in Runs |-> IF r \in hit
                                          THEN [action[r] EXCEPT !.status = "UNCERTAIN"]
                                          ELSE action[r]]
           /\ head'   = [r \in Runs |-> IF r \in hit
                                          THEN Released(Advance(head[r], RecoveryEvent(t)))
                                          ELSE head[r]]
    /\ UNCHANGED <<reserved, decisions>>

\* recoverAbandonedWork: every abandoned action becomes uncertain and stops its
\* run; every other expired lease is cleared.
RecoverAbandonedWork(t) ==
    /\ CanRecover(t)
    /\ log'    = [r \in Runs |-> IF r \in Abandoned(t)
                                   THEN Append(log[r], RecoveryEvent(t))
                                   ELSE log[r]]
    /\ action' = [r \in Runs |-> IF r \in Abandoned(t)
                                   THEN [action[r] EXCEPT !.status = "UNCERTAIN"]
                                   ELSE action[r]]
    /\ head'   = [r \in Runs |-> IF r \in Abandoned(t)
                                   THEN Released(Advance(head[r], RecoveryEvent(t)))
                                   ELSE IF LeaseFree(r, t) THEN Released(head[r])
                                   ELSE head[r]]
    /\ UNCHANGED <<reserved, decisions>>

=============================================================================
