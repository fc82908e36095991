------------------------ MODULE ReleaseStewardTyping ------------------------
(***************************************************************************)
(* Type correctness of the release steward, for every value of the         *)
(* constants: TypeOK is inductive.  The lemmas follow the layers of the    *)
(* model: the transition kernel, the transactions of the ledger, what a    *)
(* claim commits, the steps of a worker.                                   *)
(***************************************************************************)
EXTENDS ReleaseStewardProperties, FiniteSetTheorems, TLAPS

-----------------------------------------------------------------------------
(* The kernel and the projection.                                          *)

\* A signal leads to a state of the run, never back to the missing one.
LEMMA TargetType == \A signal : Target(signal) \in States
BY DEF Target, States, ActiveStates, TerminalStates

\* One turn of the projection keeps a head a head, and so does a released lease.
LEMMA AdvanceType ==
    ASSUME NEW h \in Heads, NEW e \in Events
    PROVE  Advance(h, e) \in Heads
<1>1. /\ e.at \in Times /\ e.wake \in OptionalTimes
      /\ h.version + 1 \in Nat
  BY DEF Events, Heads
<1>2. (IF e.signal = NoSignal THEN h.state ELSE Target(e.signal)) \in States \cup {NoState}
  BY TargetType DEF Heads
<1>3. (IF e.signal = NoSignal THEN h.wake ELSE e.wake) \in OptionalTimes
  BY <1>1 DEF Heads
<1> QED BY <1>1, <1>2, <1>3 DEF Advance, Heads

LEMMA ReleasedType == ASSUME NEW h \in Heads PROVE Released(h) \in Heads
BY DEF Released, Heads, OptionalTimes

\* The events the service and the ledger write are events.
LEMMA EventType ==
    ASSUME NEW type \in EventTypes, NEW signal \in Signals \cup {NoSignal},
           NEW t \in Times, NEW wake \in OptionalTimes
    PROVE  Event(type, signal, t, wake) \in Events
BY DEF Event, Events

-----------------------------------------------------------------------------
(* The transactions of the ledger.                                         *)

\* The part of TypeOK about the tables.
LedgerType ==
    /\ log \in [Runs -> Seq(Events)]
    /\ head \in [Runs -> Heads]
    /\ action \in [Runs -> Actions]
    /\ DOMAIN reserved = Runs /\ DOMAIN decisions = Runs

\* One or two events, as every transaction appends.
Batches == {es \in Seq(Events) : Len(es) \in {1, 2}}

LEMMA BatchOne == ASSUME NEW e \in Events PROVE <<e>> \in Batches
BY DEF Batches

LEMMA BatchTwo ==
    ASSUME NEW e \in Events, NEW f \in Events PROVE <<e, f>> \in Batches
BY DEF Batches

LEMMA AdvanceAllType ==
    ASSUME NEW h \in Heads, NEW es \in Batches
    PROVE  AdvanceAll(h, es) \in Heads
<1>1. es[1] \in Events /\ (Len(es) = 2 => es[2] \in Events)
  BY DEF Batches
<1> QED BY <1>1, AdvanceType DEF AdvanceAll

LEMMA RecordType ==
    ASSUME LedgerType, NEW r \in Runs, NEW es \in Batches, Record(r, es)
    PROVE  log' \in [Runs -> Seq(Events)] /\ head' \in [Runs -> Heads]
<1>1. log[r] \o es \in Seq(Events)
  BY DEF LedgerType, Batches
<1>2. Released(AdvanceAll(head[r], es)) \in Heads
  BY AdvanceAllType, ReleasedType DEF LedgerType
<1> QED BY <1>1, <1>2 DEF LedgerType, Record

LEMMA ActionEventType ==
    ASSUME NEW result \in ActionResults, NEW t \in Nat
    PROVE  ActionEvent(result, t) \in Events
BY EventType DEF ActionEvent, ActionResults, EventTypes, Signals, ActionSignals,
     Times, OptionalTimes

LEMMA CreateType ==
    ASSUME LedgerType, NEW r \in Runs, NEW t \in Nat, CreateRunFromWebhook(r, t)
    PROVE  LedgerType'
<1>1. <<Event("release-triggered", "TRIGGER_ACCEPTED", t, None)>> \in Batches
  BY EventType, BatchOne DEF EventTypes, Signals, Times, OptionalTimes
<1> QED BY <1>1, RecordType DEF LedgerType, CreateRunFromWebhook

LEMMA ClaimType ==
    ASSUME LedgerAssumption, LedgerType, NEW w \in Workers, NEW r \in Runs,
           NEW t \in Nat, ClaimNextDueRun(w, r, t)
    PROVE  LedgerType'
<1>1. t + LeaseDuration \in OptionalTimes
  BY DEF LedgerAssumption, OptionalTimes
<1>2. head[r] \in Heads
  BY DEF LedgerType
<1>3. [head[r] EXCEPT !.owner = w, !.expires = t + LeaseDuration] \in Heads
  BY <1>1, <1>2 DEF Heads
<1>4. head' = [head EXCEPT ![r] = [head[r] EXCEPT !.owner = w, !.expires = t + LeaseDuration]]
  BY DEF ClaimNextDueRun, LedgerType
<1> QED BY <1>3, <1>4 DEF LedgerType, ClaimNextDueRun

LEMMA AppendType ==
    ASSUME LedgerType, NEW r \in Runs, NEW es \in Batches, NEW version, NEW next,
           AppendTransition(r, version, es, next)
    PROVE  LedgerType'
BY RecordType DEF AppendTransition, LedgerType

LEMMA RecordDecisionType ==
    ASSUME LedgerType, NEW r \in Runs, NEW key, NEW choice, NEW expected,
           NEW fingerprint, NEW t \in Nat, NEW wake \in OptionalTimes,
           RecordDecision(r, key, choice, expected, fingerprint, t, wake)
    PROVE  LedgerType'
<1>1. DecisionEvents(choice, t, wake) \in Batches
  <2>1. /\ Event("decision-recorded", "WAIT_AND_RECHECK_AUTHORIZED", t, wake) \in Events
        /\ Event("decision-recorded", "ESCALATE_INCIDENT_AUTHORIZED", t, None) \in Events
        /\ Event("action-reserved", NoSignal, t, None) \in Events
    BY EventType DEF EventTypes, Signals, DecisionSignals, Times, OptionalTimes
  <2> QED BY <2>1, BatchOne, BatchTwo DEF DecisionEvents
<1>2. log' \in [Runs -> Seq(Events)] /\ head' \in [Runs -> Heads]
  BY <1>1, RecordType DEF RecordDecision
<1>3. action' \in [Runs -> Actions] /\ DOMAIN reserved' = Runs
  <2>1. CASE choice = "ESCALATE_INCIDENT"
    <3>1. [action[r] EXCEPT !.status = "RESERVED"] \in Actions
      BY DEF LedgerType, Actions, ActionStatuses
    <3>2. action' = [action EXCEPT ![r] = [action[r] EXCEPT !.status = "RESERVED"]]
      BY <2>1 DEF RecordDecision, LedgerType
    <3> QED BY <2>1, <3>1, <3>2 DEF RecordDecision, LedgerType
  <2>2. CASE choice # "ESCALATE_INCIDENT"
    BY <2>2 DEF RecordDecision, LedgerType
  <2> QED BY <2>1, <2>2
<1>4. DOMAIN decisions' = Runs
  BY DEF RecordDecision, LedgerType
<1> QED BY <1>2, <1>3, <1>4 DEF LedgerType

LEMMA BeginType ==
    ASSUME LedgerType, NEW r \in Runs, NEW version, NEW t \in Nat,
           BeginExternalAction(r, version, t)
    PROVE  LedgerType'
<1>1. ActionAttempted(t) \in Events
  BY EventType DEF ActionAttempted, EventTypes, Times, OptionalTimes
<1>2. Advance(head[r], ActionAttempted(t)) \in Heads
  BY <1>1, AdvanceType DEF LedgerType
<1>3. log' \in [Runs -> Seq(Events)] /\ head' \in [Runs -> Heads]
  BY <1>1, <1>2 DEF BeginExternalAction, LedgerType
<1>4. action' \in [Runs -> Actions]
  <2>1. action \in [Runs -> Actions]
        /\ action' = [action EXCEPT ![r].status = "IN_FLIGHT", ![r].attempts = 1]
    BY DEF BeginExternalAction, LedgerType
  <2>2. [action[r] EXCEPT !.status = "IN_FLIGHT", !.attempts = 1] \in Actions
    BY <2>1 DEF Actions, ActionStatuses
  <2> QED BY <2>1, <2>2
<1> QED BY <1>3, <1>4 DEF BeginExternalAction, LedgerType

LEMMA FinishType ==
    ASSUME LedgerType, NEW r \in Runs, NEW result \in ActionResults, NEW t \in Nat,
           FinishExternalAction(r, result, t)
    PROVE  LedgerType'
<1>1. <<ActionEvent(result, t)>> \in Batches
  BY ActionEventType, BatchOne
<1>2. action' \in [Runs -> Actions]
  <2>1. action \in [Runs -> Actions]
        /\ action' = [action EXCEPT ![r].status = result, ![r].receipt = result]
    BY DEF FinishExternalAction, LedgerType
  <2>2. result \in ActionStatuses
    BY DEF ActionStatuses, ActionResults
  <2>3. [action[r] EXCEPT !.status = result, !.receipt = result] \in Actions
    BY <2>1, <2>2 DEF Actions
  <2> QED BY <2>1, <2>3
<1> QED BY <1>1, <1>2, RecordType DEF FinishExternalAction, LedgerType

LEMMA RecoverType ==
    ASSUME LedgerType, NEW t \in Nat, RecoverAbandonedWork(t)
    PROVE  LedgerType'
<1>1. RecoveryEvent(t) \in Events
  BY ActionEventType DEF RecoveryEvent, ActionResults
<1>2. log' \in [Runs -> Seq(Events)]
  BY <1>1 DEF RecoverAbandonedWork, LedgerType
<1>3. head' \in [Runs -> Heads]
  <2>1. ASSUME NEW r \in Runs
        PROVE  /\ Released(Advance(head[r], RecoveryEvent(t))) \in Heads
               /\ Released(head[r]) \in Heads /\ head[r] \in Heads
    BY <1>1, AdvanceType, ReleasedType DEF LedgerType
  <2> QED BY <2>1 DEF RecoverAbandonedWork
<1>4. action' \in [Runs -> Actions]
  <2>1. ASSUME NEW r \in Runs
        PROVE  action[r] \in Actions /\ [action[r] EXCEPT !.status = "UNCERTAIN"] \in Actions
    BY DEF LedgerType, Actions, ActionStatuses
  <2> QED BY <2>1 DEF RecoverAbandonedWork
<1> QED BY <1>2, <1>3, <1>4 DEF RecoverAbandonedWork, LedgerType

-----------------------------------------------------------------------------
(* The use cases of the service.                                           *)

\* A count over a history is a number.
LEMMA CountType ==
    ASSUME NEW l \in Seq(Events), NEW type
    PROVE  CountEvents(l, type) \in Nat
<1>1. IsFiniteSet(DOMAIN l)
  BY FS_Interval
<1>2. IsFiniteSet(EventsOf(l, type))
  BY <1>1, FS_Subset DEF EventsOf
<1> QED BY <1>2, FS_CardinalityType DEF CountEvents

LEMMA AuthorizedAtType ==
    ASSUME NEW l \in Seq(Events), Authorized(l)
    PROVE  AuthorizedAt(l) \in Nat
<1>1. PICK i \in EventsOf(l, "decision-recorded") : TRUE
  BY DEF Authorized
<1>2. (CHOOSE j \in EventsOf(l, "decision-recorded") : TRUE) \in DOMAIN l
  BY <1>1 DEF EventsOf
<1>3. l[CHOOSE j \in EventsOf(l, "decision-recorded") : TRUE] \in Events
  BY <1>2
<1> QED BY <1>3 DEF AuthorizedAt, Events, Times

LEMMA NoClaimType == NoClaim \in Claims
BY DEF NoClaim, Claims, OptionalTimes, ActionStatuses

LEMMA HeadClaimType ==
    ASSUME LedgerAssumption, LedgerType, NEW r \in Runs, NEW t \in Nat
    PROVE  HeadClaim(r, t) \in Claims /\ HeadClaim(r, t).run = r
<1>1. head[r] \in Heads /\ t + LeaseDuration \in OptionalTimes
  BY DEF LedgerAssumption, LedgerType, OptionalTimes
<1> QED BY <1>1 DEF HeadClaim, NoClaim, Claims, Heads, ActionStatuses

LEMMA FullClaimType ==
    ASSUME LedgerType, NEW c \in Claims, c.run \in Runs
    PROVE  FullClaim(c) \in Claims /\ FullClaim(c).run = c.run
<1>1. log[c.run] \in Seq(Events) /\ action[c.run].status \in ActionStatuses
  BY DEF LedgerType, Actions
<1>2. /\ CountEvents(log[c.run], "observation-recorded") \in Nat
      /\ CountEvents(log[c.run], "wait-scheduled") \in Nat
      /\ CountEvents(log[c.run], "decision-requested") \in Nat
  BY <1>1, CountType
<1>3. DecisionChoice(log[c.run]) \in DecisionChoices \cup {"NONE"}
  BY DEF DecisionChoice, DecisionChoices
<1> QED BY <1>1, <1>2, <1>3 DEF FullClaim, Claims

LEMMA ObservationSignalsType ==
    ASSUME NEW phase, NEW signal \in ObservationSignals(phase)
    PROVE  signal \in Signals
BY DEF ObservationSignals, Signals, MonitoringSignals, ObservationStops

LEMMA ObservationEventsType ==
    ASSUME ServiceAssumption, NEW c, NEW signal \in Signals, NEW t \in Nat
    PROVE  ObservationEvents(c, signal, t) \in Batches
<1>1. t + Delay \in OptionalTimes /\ t + DecisionTTL \in OptionalTimes
      /\ None \in OptionalTimes /\ t \in Times
  BY DEF ServiceAssumption, OptionalTimes, Times
<1>2. /\ {"observation-recorded", "wait-scheduled", "decision-requested",
          "run-completed", "run-stopped"} \subseteq EventTypes
      /\ "OBSERVATION_BUDGET_EXHAUSTED" \in Signals
  BY DEF EventTypes, Signals, MonitoringSignals
<1>3. /\ Event("observation-recorded", NoSignal, t, None) \in Events
      /\ Event("wait-scheduled", signal, t, t + Delay) \in Events
      /\ Event("decision-requested", "OBSERVATION_BUDGET_EXHAUSTED", t, t + DecisionTTL) \in Events
      /\ Event("run-completed", signal, t, None) \in Events
      /\ Event("run-stopped", signal, t, None) \in Events
  BY <1>1, <1>2, EventType
<1>4. /\ <<Event("observation-recorded", NoSignal, t, None),
           Event("wait-scheduled", signal, t, t + Delay)>> \in Batches
      /\ <<Event("observation-recorded", NoSignal, t, None),
           Event("decision-requested", "OBSERVATION_BUDGET_EXHAUSTED", t, t + DecisionTTL)>> \in Batches
      /\ <<Event("observation-recorded", NoSignal, t, None),
           Event("run-completed", signal, t, None)>> \in Batches
      /\ <<Event("observation-recorded", NoSignal, t, None),
           Event("run-stopped", signal, t, None)>> \in Batches
  BY <1>3, BatchTwo
<1> QED BY <1>4, Zenon DEF ObservationEvents

LEMMA CommitType ==
    ASSUME ServiceAssumption, LedgerType, NEW c \in Claims, c.run \in Runs,
           NEW signal, NEW t \in Nat, CommitObservation(c, signal, t)
    PROVE  LedgerType'
<1>1. signal \in Signals
  BY ObservationSignalsType
     DEF CommitObservation, CanCommitObservation, ObservationAdmitted
<1> QED BY <1>1, ObservationEventsType, AppendType DEF CommitObservation

LEMMA WakeType ==
    ASSUME LedgerType, NEW c \in Claims, c.run \in Runs, NEW t \in Nat,
           WakeDueRun(c, t)
    PROVE  LedgerType'
<1>1. WakeEvents(t) \in Batches
  BY EventType, BatchOne DEF WakeEvents, EventTypes, Signals, Times, OptionalTimes
<1> QED BY <1>1, AppendType DEF WakeDueRun

\* Only a signal has states to be sent from.
LEMMA SourceIsSignal ==
    ASSUME NEW signal, NEW state \in SourceStates(signal)
    PROVE  signal \in Signals
BY DEF SourceStates, Signals

LEMMA StopType ==
    ASSUME LedgerType, NEW c \in Claims, c.run \in Runs, NEW signal, NEW t \in Nat,
           StopClaim(c, signal, t)
    PROVE  LedgerType'
<1>1. signal \in Signals
  BY SourceIsSignal DEF StopClaim, CanStop
<1>2. StopEvents(signal, t) \in Batches
  BY <1>1, EventType, BatchOne DEF StopEvents, EventTypes, Times, OptionalTimes
<1> QED BY <1>2, AppendType DEF StopClaim

LEMMA SubmitType ==
    ASSUME ServiceAssumption, LedgerType, NEW r \in Runs, NEW key, NEW choice,
           NEW expected, NEW t \in Nat, SubmitDecision(r, key, choice, expected, t)
    PROVE  LedgerType'
<1>1. SubmittedAt(log[r], t) \in Nat
  <2>1. log[r] \in Seq(Events)
    BY DEF LedgerType
  <2> QED BY <2>1, AuthorizedAtType DEF SubmittedAt
<1>2. SubmittedWake(log[r], choice, t) \in OptionalTimes
  BY <1>1 DEF SubmittedWake, ServiceAssumption, OptionalTimes
<1> QED BY <1>1, <1>2, RecordDecisionType DEF SubmitDecision

-----------------------------------------------------------------------------
(* The steps of a worker.                                                  *)

\* The part of TypeOK about the processes and the provider, with what makes it
\* inductive: a worker about to finish holds the result of its action; and no
\* worker holds a time that has yet to come.
WorkerType ==
    /\ now \in Nat
    /\ pc \in [Workers -> PCs]
    /\ at \in [Workers -> Nat] /\ \A w \in Workers : at[w] <= now
    /\ claim \in [Workers -> Claims]
    /\ outcome \in [Workers -> Signals \cup ActionResults \cup {"NONE"}]
    /\ stopping \in [Workers -> BOOLEAN]
    /\ restarts \in Nat
    /\ posts \in [Runs -> Nat] /\ issues \in [Runs -> Nat] /\ refusals \in [Runs -> Nat]
    /\ \A w \in Workers : pc[w] \notin {"idle", "recover", "claim"} => claim[w].run \in Runs
    /\ \A w \in Workers : pc[w] = "finish" => outcome[w] \in ActionResults

TypeInv == LedgerType /\ WorkerType

LEMMA EndTickType ==
    ASSUME WorkerType, NEW w \in Workers, EndTick(w),
           UNCHANGED <<now, providerVars>>,
           stopping' \in [Workers -> BOOLEAN], restarts' \in Nat
    PROVE  WorkerType'
<1>1. pc' = [pc EXCEPT ![w] = "idle"] /\ "idle" \in PCs /\ at' = [at EXCEPT ![w] = 0]
  BY DEF EndTick, Goto, PCs
<1>2. at' \in [Workers -> Nat] /\ \A v \in Workers : at'[v] <= now'
  BY <1>1 DEF WorkerType
<1>3. claim' \in [Workers -> Claims]
      /\ outcome' \in [Workers -> Signals \cup ActionResults \cup {"NONE"}]
  BY NoClaimType DEF WorkerType, EndTick
<1>4. /\ pc' \in [Workers -> PCs]
      /\ \A v \in Workers : pc'[v] \notin {"idle", "recover", "claim"} => claim'[v].run \in Runs
      /\ \A v \in Workers : pc'[v] = "finish" => outcome'[v] \in ActionResults
  BY <1>1 DEF WorkerType, EndTick
<1> QED BY <1>2, <1>3, <1>4 DEF WorkerType, providerVars

LEMMA AwaitType ==
    ASSUME WorkerType, NEW w \in Workers, NEW label \in PCs \ {"idle", "recover", "claim", "finish"},
           pc[w] \notin {"idle", "recover", "claim"},
           NEW result \in Signals, Await(w, label, result),
           UNCHANGED <<now, stopping, restarts, providerVars>>
    PROVE  WorkerType'
BY DEF WorkerType, Await, Goto, providerVars

\* A step that only moves a worker on.
LEMMA GotoType ==
    ASSUME WorkerType, NEW w \in Workers, NEW label \in PCs \ {"idle", "recover", "claim", "finish"},
           pc[w] \notin {"idle", "recover", "claim"}, Goto(w, label),
           posts' \in [Runs -> Nat],
           UNCHANGED <<now, at, claim, outcome, stopping, restarts, issues, refusals>>
    PROVE  WorkerType'
BY DEF WorkerType, Goto

LEMMA UnchangedLedgerType ==
    ASSUME LedgerType, UNCHANGED ledgerVars PROVE LedgerType'
BY DEF LedgerType, ledgerVars

LEMMA WorkerStepType ==
    ASSUME LedgerAssumption, ServiceAssumption, TypeInv, NEW w \in Workers, WorkerStep(w)
    PROVE  TypeInv'
<1> USE DEF TypeInv
<1>0. /\ now \in Nat /\ at[w] \in Nat /\ claim[w] \in Claims
      /\ stopping \in [Workers -> BOOLEAN] /\ restarts \in Nat
      /\ pc[w] \notin {"idle", "recover", "claim"} => claim[w].run \in Runs
  BY DEF WorkerType
<1>a. ASSUME Refused(w) PROVE TypeInv'
  BY <1>a, <1>0, EndTickType, UnchangedLedgerType DEF Refused
<1>1. CASE StartTick(w)
  <2>1. LedgerType'
    BY <1>1, UnchangedLedgerType DEF StartTick
  <2>2. WorkerType'
    BY <1>1, <1>0 DEF StartTick, WorkerType, Goto, PCs, providerVars
  <2> QED BY <2>1, <2>2
<1>15. CASE Recover(w)
  <2>1. CASE CanRecover(at[w])
    <3>1. LedgerType'
      BY <1>15, <2>1, <1>0, RecoverType DEF Recover
    <3>2. WorkerType'
      BY <1>15, <2>1, <1>0 DEF Recover, WorkerType, Goto, PCs, providerVars
    <3> QED BY <3>1, <3>2
  <2> QED BY <1>a, <1>15, <2>1 DEF Recover
<1>2. CASE NothingDue(w)
  BY <1>2, <1>0, EndTickType, UnchangedLedgerType DEF NothingDue
<1>3. CASE ReadClaim(w)
  <2>1. LedgerType'
    BY <1>3, UnchangedLedgerType DEF ReadClaim
  <2>2. CASE Branch(FullClaim(claim[w])) = "throw"
    BY <1>3, <2>1, <2>2, <1>0, EndTickType DEF ReadClaim
  <2>3. CASE Branch(FullClaim(claim[w])) # "throw"
    <3>1. FullClaim(claim[w]) \in Claims /\ FullClaim(claim[w]).run \in Runs
      BY <1>3, <1>0, FullClaimType DEF ReadClaim
    <3>2. Branch(FullClaim(claim[w])) \in PCs \ {"idle", "recover", "claim", "finish"}
      BY <2>3 DEF Branch, PCs
    <3>3. /\ claim' = [claim EXCEPT ![w] = FullClaim(claim[w])]
          /\ pc' = [pc EXCEPT ![w] = Branch(FullClaim(claim[w]))]
          /\ UNCHANGED <<at, outcome, stopping, restarts, providerVars, now>>
      BY <1>3, <2>3 DEF ReadClaim, Goto
    <3> QED BY <2>1, <3>1, <3>2, <3>3 DEF WorkerType, providerVars
  <2> QED BY <2>2, <2>3
<1>4. ASSUME NEW r \in Runs, ClaimDue(w, r) PROVE TypeInv'
  <2>1. LedgerType'
    BY <1>4, <1>0, ClaimType DEF ClaimDue
  <2>2. WorkerType'
    BY <1>4, <1>0, HeadClaimType DEF ClaimDue, WorkerType, Goto, PCs, providerVars
  <2> QED BY <2>1, <2>2
<1>5. CASE Wake(w)
  <2>1. LedgerType'
    BY <1>5, <1>0, WakeType DEF Wake
  <2> QED BY <1>5, <2>1, <1>0, EndTickType DEF Wake
<1>6. CASE Expire(w)
  <2>1. LedgerType'
    BY <1>6, <1>0, StopType DEF Expire, ExpireDecision
  <2> QED BY <1>6, <2>1, <1>0, EndTickType DEF Expire
<1>7. CASE Begin(w)
  <2>1. LedgerType'
    BY <1>7, <1>0, BeginType DEF Begin, BeginIncidentAction
  <2> QED BY <1>7, <2>1, <1>0, GotoType DEF Begin, PCs, providerVars, WorkerType
<1>8. CASE SendPost(w)
  <2>1. posts' \in [Runs -> Nat]
    BY <1>8 DEF SendPost, WorkerType
  <2> QED BY <1>8, <2>1, <1>0, GotoType, UnchangedLedgerType DEF SendPost, PCs
<1>9. ASSUME NEW result \in ActionResults, IncidentReturns(w, result) PROVE TypeInv'
  <2>1. WorkerType'
    BY <1>9, <1>0 DEF IncidentReturns, Await, Goto, WorkerType, PCs, providerVars
  <2> QED BY <1>9, <2>1, UnchangedLedgerType DEF IncidentReturns
<1>10. CASE Finish(w)
  <2>1. outcome[w] \in ActionResults
    BY <1>10 DEF Finish, WorkerType
  <2>2. LedgerType'
    BY <1>10, <2>1, <1>0, FinishType DEF Finish
  <2> QED BY <1>10, <2>2, <1>0, EndTickType DEF Finish
<1>11. ASSUME NEW signal \in MonitoringSignals, Observed(w, signal) PROVE TypeInv'
  <2>1. signal \in Signals
    BY DEF Signals
  <2> QED BY <1>11, <2>1, <1>0, AwaitType, UnchangedLedgerType DEF Observed, PCs
<1>12. ASSUME NEW signal \in ObservationFailures, ObservationFailed(w, signal)
       PROVE  TypeInv'
  <2>1. signal \in Signals
    BY DEF Signals, ObservationFailures, MonitoringSignals, ObservationStops
  <2> QED BY <1>12, <2>1, <1>0, AwaitType, UnchangedLedgerType DEF ObservationFailed, PCs
<1>13. CASE Commit(w)
  <2>1. LedgerType'
    BY <1>13, <1>0, CommitType DEF Commit
  <2> QED BY <1>13, <2>1, <1>0, EndTickType DEF Commit
<1>14. CASE StopRun(w)
  <2>1. LedgerType'
    BY <1>14, <1>0, StopType DEF StopRun
  <2> QED BY <1>14, <2>1, <1>0, EndTickType DEF StopRun
<1> QED
  BY <1>a, <1>1, <1>2, <1>3, <1>4, <1>5, <1>6, <1>7, <1>8, <1>9, <1>10, <1>11,
     <1>12, <1>13, <1>14, <1>15
     DEF WorkerStep, WakeRefused, ExpireRefused, BeginRefused, FinishRefused,
         CommitRefused, StopRunRefused, ObservationDropped

-----------------------------------------------------------------------------
(* The theorem.                                                            *)

LEMMA TypeInit == Init => TypeInv
BY NoClaimType
   DEF Init, LedgerInit, TypeInv, LedgerType, WorkerType, Unborn, Heads, NoAction,
       Actions, ActionStatuses, PCs, OptionalTimes, Times

LEMMA TypeStep ==
    ASSUME LedgerAssumption, ServiceAssumption, TypeInv, [Next]_vars
    PROVE  TypeInv'
<1> USE DEF TypeInv
<1>1. CASE Tick
  BY <1>1, UnchangedLedgerType DEF Tick, WorkerType, workerVars, providerVars
<1>2. ASSUME NEW r \in Runs, Trigger(r) PROVE TypeInv'
  BY <1>2, CreateType DEF Trigger, WorkerType, workerVars, providerVars
<1>3. ASSUME NEW r \in Runs, ProviderAccepts(r) PROVE TypeInv'
  BY <1>3, UnchangedLedgerType DEF ProviderAccepts, WorkerType, workerVars
<1>4. ASSUME NEW r \in Runs, ProviderRefuses(r) PROVE TypeInv'
  BY <1>4, UnchangedLedgerType DEF ProviderRefuses, WorkerType, workerVars
<1>5. ASSUME NEW r \in Runs, NEW key \in Keys, NEW choice \in DecisionChoices,
             NEW expected \in 1..Len(log[r]), Submit(r, key, choice, expected)
      PROVE  TypeInv'
  BY <1>5, SubmitType DEF Submit, WorkerType, workerVars, providerVars
<1>6. ASSUME NEW w \in Workers, WorkerStep(w) PROVE TypeInv'
  BY <1>6, WorkerStepType
<1>7. ASSUME NEW w \in Workers, Stop(w) PROVE TypeInv'
  <2>1. LedgerType'
    BY <1>7, UnchangedLedgerType DEF Stop
  <2> QED BY <1>7, <2>1 DEF Stop, WorkerType, providerVars
<1>8. ASSUME NEW w \in Workers, Restart(w) PROVE TypeInv'
  <2>1. LedgerType'
    BY <1>8, UnchangedLedgerType DEF Restart
  <2>2. stopping' \in [Workers -> BOOLEAN] /\ restarts' \in Nat
    BY <1>8 DEF Restart, WorkerType
  <2> QED BY <1>8, <2>1, <2>2, EndTickType DEF Restart
<1>9. ASSUME NEW w \in Workers, Locked(w) PROVE TypeInv'
  <2>1. LedgerType'
    BY <1>9, UnchangedLedgerType DEF Locked, Refused
  <2>2. stopping' \in [Workers -> BOOLEAN] /\ restarts' \in Nat
    BY <1>9 DEF Locked, Refused, WorkerType
  <2> QED BY <1>9, <2>1, <2>2, EndTickType DEF Locked, Refused
<1>10. CASE UNCHANGED vars
  BY <1>10, UnchangedLedgerType DEF vars, WorkerType, workerVars, providerVars
<1> QED
  BY <1>1, <1>2, <1>3, <1>4, <1>5, <1>6, <1>7, <1>8, <1>9, <1>10
     DEF Next, Environment

\* In every reachable state the tables, the workers and the provider hold values
\* of their types, whatever the number of runs and workers and the policy.
THEOREM TypeCorrect == Spec => []TypeOK
<1>1. TypeInv => TypeOK
  BY DEF TypeInv, LedgerType, WorkerType, TypeOK
<1> QED
  BY <1>1, TypeInit, TypeStep, LedgerAssumption, ServiceAssumption, PTL DEF Spec

=============================================================================
