------------------------ MODULE ReleaseStewardSafety ------------------------
(***************************************************************************)
(* What the release steward never does, proved for every value of the      *)
(* constants.                                                              *)
(*                                                                         *)
(* The argument has two layers.  RunInv relates the tables of one run: its *)
(* state, its action and its last event tell the same story, and the lease *)
(* of a run that ended is gone.  EffectInv relates the tables to what left *)
(* the process: at most one POST for an attempt the table counts, from the *)
(* one worker that made the attempt.                                       *)
(***************************************************************************)
EXTENDS ReleaseStewardTyping, SequenceTheorems

LastSignal(l) == l[Len(l)].signal

RunInv(r) ==
    /\ head[r].state = "RESUMING" <=> action[r].status \in {"RESERVED", "IN_FLIGHT"}
    /\ head[r].state = "ESCALATED" <=> action[r].status = "CONFIRMED"
    /\ action[r].status = "REJECTED" <=>
          head[r].state = "STOPPED" /\ LastSignal(log[r]) = "ACTION_REJECTED"
    /\ action[r].status = "UNCERTAIN" <=>
          head[r].state = "STOPPED" /\ LastSignal(log[r]) = "ACTION_UNCERTAIN"
    /\ action[r].attempts = IF action[r].status \in {"NONE", "RESERVED"} THEN 0 ELSE 1
    /\ Terminal(r) => head[r].owner = NoWorker /\ head[r].expires = None
    /\ Exists(r) => LastSignal(log[r]) \in Signals \cup {NoSignal}

TablesInv == \A r \in Runs : RunInv(r)

EffectInv ==
    /\ \A r \in Runs :
         /\ posts[r] <= action[r].attempts
         /\ issues[r] + refusals[r] <= posts[r]
         /\ action[r].status = "CONFIRMED" => issues[r] > 0
         /\ action[r].status = "REJECTED" => refusals[r] > 0
    /\ \A w \in Workers :
         /\ pc[w] = "calling" =>
               action[claim[w].run].attempts = 1 /\ posts[claim[w].run] = 0
         /\ pc[w] = "finish" /\ outcome[w] = "CONFIRMED" => issues[claim[w].run] > 0
         /\ pc[w] = "finish" /\ outcome[w] = "REJECTED" => refusals[claim[w].run] > 0
    /\ \A v, w \in Workers :
         pc[v] = "calling" /\ pc[w] = "calling" /\ claim[v].run = claim[w].run => v = w

SafetyInv == TypeInv /\ TablesInv /\ EffectInv

-----------------------------------------------------------------------------
(* What the kernel accepts.                                                *)

\* No event is accepted after the end of a run.
LEMMA TerminalAcceptsNothing ==
    ASSUME NEW h, NEW l, NEW e, Accepts(h, l, e)
    PROVE  h.state \notin TerminalStates
<1>1. CASE EventSignals(e.type) = {}
  BY <1>1 DEF Accepts, ActiveStates, TerminalStates
<1>2. CASE EventSignals(e.type) # {}
  BY <1>2 DEF Accepts, SourceStates, ActiveStates, TerminalStates, NoState
<1> QED BY <1>1, <1>2

\* The events a worker appends through appendTransition that move the state.
MovingTypes == {"wait-scheduled", "run-woke", "decision-requested",
                "run-completed", "run-stopped"}

Unresumed == {"MONITORING", "WAITING", "AWAITING_DECISION"}

\* They neither enter nor leave RESUMING, and none tells how an action ended.
LEMMA MovingEvent ==
    ASSUME NEW h, NEW l, NEW e, Accepts(h, l, e), e.type \in MovingTypes
    PROVE  /\ h.state \in Unresumed
           /\ e.signal # NoSignal /\ e.signal \notin ActionSignals
           /\ Target(e.signal) \notin {"RESUMING", "ESCALATED"}
<1>1. EventSignals(e.type) # {} /\ e.signal \in EventSignals(e.type)
      /\ h.state \in SourceStates(e.signal)
  BY DEF Accepts, EventSignals, MovingTypes
<1>2. e.signal \in {"NORMAL_WAIT_REQUIRED", "WAIT_DUE", "OBSERVATION_BUDGET_EXHAUSTED",
                    "CANDIDATE_READY", "EXTENSION_READY", "DECISION_EXPIRED",
                    "EXTENSION_EXHAUSTED"} \cup ObservationStops
  BY <1>1 DEF EventSignals, MovingTypes
<1>3. h.state \in Unresumed
  <2>1. CASE e.signal = "WAIT_DUE"
    <3>1. SourceStates("WAIT_DUE") = {"WAITING"}
      BY DEF SourceStates, MonitoringSignals, ObservationStops, DecisionSignals, ActionSignals
    <3> QED BY <1>1, <2>1, <3>1 DEF Unresumed
  <2>2. CASE e.signal = "DECISION_EXPIRED"
    <3>1. SourceStates("DECISION_EXPIRED") = {"AWAITING_DECISION"}
      BY DEF SourceStates, MonitoringSignals, ObservationStops, DecisionSignals, ActionSignals
    <3> QED BY <1>1, <2>2, <3>1 DEF Unresumed
  <2>3. CASE e.signal \in MonitoringSignals
    <3>1. SourceStates(e.signal) = {"MONITORING"}
      BY <2>3 DEF SourceStates, MonitoringSignals, ObservationStops, DecisionSignals, ActionSignals
    <3> QED BY <1>1, <3>1 DEF Unresumed
  <2> QED BY <1>2, <2>1, <2>2, <2>3 DEF MonitoringSignals
<1> QED BY <1>2, <1>3 DEF ObservationStops, ActionSignals, Target, NoSignal

\* What a batch leaves behind it, whatever its events.
LEMMA RecordEffect ==
    ASSUME LedgerType, NEW r \in Runs, NEW es \in Batches, Record(r, es)
    PROVE  /\ head'[r].state = AdvanceAll(head[r], es).state
           /\ head'[r].owner = NoWorker /\ head'[r].expires = None
           /\ LastSignal(log'[r]) = es[Len(es)].signal
           /\ LastSignal(log'[r]) \in Signals \cup {NoSignal}
           /\ \A s \in Runs \ {r} : head'[s] = head[s] /\ log'[s] = log[s]
<1>0. /\ head[r] \in Heads /\ log[r] \in Seq(Events) /\ es \in Seq(Events)
      /\ Len(es) \in {1, 2}
      /\ head' = [head EXCEPT ![r] = Released(AdvanceAll(head[r], es))]
      /\ log' = [log EXCEPT ![r] = log[r] \o es]
  BY DEF LedgerType, Record, Batches
<1>1. /\ head'[r].state = AdvanceAll(head[r], es).state
      /\ head'[r].owner = NoWorker /\ head'[r].expires = None
  <2>1. AdvanceAll(head[r], es) \in Heads
    BY <1>0, AdvanceAllType
  <2> QED BY <1>0, <2>1 DEF Released, Heads, LedgerType
<1>2. LastSignal(log'[r]) = es[Len(es)].signal
  <2>1. log'[r] = log[r] \o es
    BY <1>0 DEF LedgerType
  <2>2. /\ Len(log[r] \o es) = Len(log[r]) + Len(es)
        /\ (log[r] \o es)[Len(log[r]) + Len(es)] = es[Len(es)]
    <3>1. /\ Len(log[r]) \in Nat /\ Len(es) \in Nat
          /\ Len(log[r]) + Len(es) \in 1..(Len(log[r]) + Len(es))
          /\ ~ (Len(log[r]) + Len(es) <= Len(log[r]))
          /\ (Len(log[r]) + Len(es)) - Len(log[r]) = Len(es)
      BY <1>0
    <3>2. /\ Len(log[r] \o es) = Len(log[r]) + Len(es)
          /\ \A i \in 1..(Len(log[r]) + Len(es)) :
                (log[r] \o es)[i] = IF i <= Len(log[r]) THEN log[r][i]
                                    ELSE es[i - Len(log[r])]
      BY <1>0, ConcatProperties
    <3> QED BY <3>1, <3>2
  <2> QED BY <2>1, <2>2 DEF LastSignal
<1>3. \A s \in Runs \ {r} : head'[s] = head[s] /\ log'[s] = log[s]
  BY <1>0 DEF LedgerType
<1>4. es[Len(es)].signal \in Signals \cup {NoSignal}
  <2>1. Len(es) \in 1..Len(es)
    <3>1. \A n \in {1, 2} : n \in 1..n
      OBVIOUS
    <3> QED BY <1>0, <3>1
  <2>2. es[Len(es)] \in Events
    BY <1>0, <2>1, ElementOfSeq
  <2> QED BY <2>2 DEF Events
<1> QED BY <1>1, <1>2, <1>3, <1>4

\* A batch a worker appends: a moving event, an observation before it or not.
MovingBatches ==
    {es \in Batches : \/ Len(es) = 1 /\ es[1].type \in MovingTypes
                      \/ Len(es) = 2 /\ es[1].signal = NoSignal
                                     /\ es[2].type \in MovingTypes}

LEMMA AppendEffect ==
    ASSUME LedgerType, NEW r \in Runs, NEW es \in MovingBatches, NEW version, NEW next,
           AppendTransition(r, version, es, next)
    PROVE  /\ head[r].state \in Unresumed
           /\ head'[r].state \notin {"RESUMING", "ESCALATED"}
           /\ head'[r].owner = NoWorker /\ head'[r].expires = None
           /\ LastSignal(log'[r]) \notin ActionSignals
           /\ LastSignal(log'[r]) \in Signals \cup {NoSignal}
           /\ UNCHANGED action
           /\ \A s \in Runs \ {r} : head'[s] = head[s] /\ log'[s] = log[s]
<1> DEFINE h == head[r]  l == log[r]
<1>0. /\ h \in Heads /\ l \in Seq(Events) /\ es \in Seq(Events)
      /\ AcceptsAll(h, l, es)
      /\ UNCHANGED action
  BY DEF LedgerType, AppendTransition, CanAppend, MovingBatches, Batches
<1>1. /\ h.state \in Unresumed
      /\ AdvanceAll(h, es).state \notin {"RESUMING", "ESCALATED"}
      /\ es[Len(es)].signal \notin ActionSignals
  <2>1. CASE Len(es) = 1
    <3>1. Accepts(h, l, es[1]) /\ es[1].type \in MovingTypes
      BY <1>0, <2>1 DEF AcceptsAll, MovingBatches
    <3>2. AdvanceAll(h, es).state = Target(es[1].signal)
      BY <3>1, <1>0, <2>1, MovingEvent DEF AdvanceAll, Advance, Heads
    <3> QED BY <3>1, <3>2, <2>1, MovingEvent
  <2>2. CASE Len(es) = 2
    <3>1. /\ Accepts(Advance(h, es[1]), Append(l, es[1]), es[2])
          /\ es[2].type \in MovingTypes /\ es[1].signal = NoSignal
      BY <1>0, <2>2 DEF AcceptsAll, MovingBatches
    <3>2. Advance(h, es[1]).state = h.state
      BY <3>1, <1>0 DEF Advance, Heads
    <3>3. Advance(h, es[1]) \in Heads
      <4>a. es \in Seq(Events) /\ 1 \in 1..Len(es)
        BY <1>0, <2>2
      <4>1. es[1] \in Events
        BY <4>a, ElementOfSeq
      <4> QED BY <1>0, <4>1, AdvanceType
    <3>4. AdvanceAll(h, es).state = Target(es[2].signal)
      BY <3>1, <3>3, <2>2, MovingEvent DEF AdvanceAll, Advance, Heads
    <3> QED BY <3>1, <3>2, <3>4, <2>2, MovingEvent
  <2> QED BY <2>1, <2>2 DEF MovingBatches
<1>2. es \in Batches /\ Record(r, es)
  BY DEF MovingBatches, AppendTransition
<1> QED BY <1>0, <1>1, <1>2, RecordEffect

\* The tables keep telling the same story.
LEMMA AppendTables ==
    ASSUME LedgerType, TablesInv, NEW r \in Runs, NEW es \in MovingBatches,
           NEW version, NEW next, AppendTransition(r, version, es, next)
    PROVE  TablesInv'
<1>1. ASSUME NEW s \in Runs PROVE RunInv(s)'
  <2>1. CASE s = r
    BY <2>1, AppendEffect DEF TablesInv, RunInv, Unresumed, ActionSignals, Terminal
  <2>2. CASE s # r
    BY <2>2, AppendEffect DEF TablesInv, RunInv, Terminal, Exists
  <2> QED BY <2>1, <2>2
<1> QED BY <1>1 DEF TablesInv

-----------------------------------------------------------------------------
(* The tables, transaction by transaction.                                 *)

LEMMA CreateTables ==
    ASSUME LedgerType, TablesInv, NEW r \in Runs, NEW t \in Nat,
           CreateRunFromWebhook(r, t)
    PROVE  TablesInv'
<1> DEFINE e == Event("release-triggered", "TRIGGER_ACCEPTED", t, None)
<1>1. e \in Events
  BY EventType DEF EventTypes, Signals, Times, OptionalTimes
<1>2. <<e>> \in Batches /\ Record(r, <<e>>) /\ UNCHANGED action
      /\ head[r].state = NoState /\ head[r] \in Heads
  BY <1>1, BatchOne DEF CreateRunFromWebhook, Exists, LedgerType
<1>3. head'[r].state = "MONITORING"
  <2>1. AdvanceAll(head[r], <<e>>).state = "MONITORING"
    BY <1>2 DEF AdvanceAll, Advance, Event, Target, NoSignal, Heads
  <2> QED BY <1>2, <2>1, RecordEffect
<1>4. ASSUME NEW s \in Runs PROVE RunInv(s)'
  <2>1. CASE s = r
    <3>1. LastSignal(log'[r]) \in Signals \cup {NoSignal}
      BY <1>2, RecordEffect
    <3> QED BY <1>2, <1>3, <2>1, <3>1
            DEF TablesInv, RunInv, Exists, Terminal, TerminalStates, NoState
  <2>2. CASE s # r
    BY <1>2, <2>2, RecordEffect DEF TablesInv, RunInv, Terminal, Exists
  <2> QED BY <2>1, <2>2
<1> QED BY <1>4 DEF TablesInv

LEMMA ClaimTables ==
    ASSUME LedgerType, TablesInv, NEW w \in Workers, NEW r \in Runs, NEW t \in Nat,
           ClaimNextDueRun(w, r, t)
    PROVE  TablesInv'
<1>1. /\ head[r].state \in ActiveStates /\ UNCHANGED <<log, action>>
      /\ \A s \in Runs : head'[s].state = head[s].state
      /\ \A s \in Runs \ {r} : head'[s] = head[s]
  BY DEF ClaimNextDueRun, NextDue, Claimable, LedgerType, Heads
<1>2. ASSUME NEW s \in Runs PROVE RunInv(s)'
  BY <1>1 DEF TablesInv, RunInv, Exists, Terminal, TerminalStates, ActiveStates
<1> QED BY <1>2 DEF TablesInv

LEMMA DecisionTables ==
    ASSUME LedgerType, TablesInv, NEW r \in Runs, NEW key,
           NEW choice \in DecisionChoices, NEW expected, NEW fingerprint, NEW t \in Nat, NEW wake \in OptionalTimes,
           RecordDecision(r, key, choice, expected, fingerprint, t, wake)
    PROVE  TablesInv'
<1> DEFINE es == DecisionEvents(choice, t, wake)
           d  == Event("decision-recorded", "WAIT_AND_RECHECK_AUTHORIZED", t, wake)
           f  == Event("decision-recorded", "ESCALATE_INCIDENT_AUTHORIZED", t, None)
           g  == Event("action-reserved", NoSignal, t, None)
<1>1. /\ head[r].state = "AWAITING_DECISION" /\ head[r] \in Heads /\ Record(r, es)
      /\ choice = "ESCALATE_INCIDENT" => action[r].status = "NONE"
  BY DEF RecordDecision, DecisionReply, LedgerType
<1>2. d \in Events /\ f \in Events /\ g \in Events
  BY EventType DEF EventTypes, Signals, DecisionSignals, Times, OptionalTimes
<1>3. es \in Batches
  BY <1>2, BatchOne, BatchTwo DEF DecisionEvents
<1>r. LastSignal(log'[r]) \in Signals \cup {NoSignal}
  BY <1>1, <1>3, RecordEffect
<1>4. ASSUME NEW s \in Runs \ {r} PROVE RunInv(s)'
  <2>1. action'[s] = action[s]
    BY DEF RecordDecision, LedgerType
  <2> QED BY <2>1, <1>1, <1>3, RecordEffect DEF TablesInv, RunInv, Terminal, Exists
<1>5. RunInv(r)'
  <2>1. CASE choice = "WAIT_AND_RECHECK"
    <3>1. es = <<d>> /\ UNCHANGED action
      BY <2>1 DEF DecisionEvents, RecordDecision
    <3>2. head'[r].state = "WAITING"
      <4>1. AdvanceAll(head[r], <<d>>).state = "WAITING"
        BY <1>1 DEF AdvanceAll, Advance, Event, Target, NoSignal, Heads
      <4> QED BY <4>1, <3>1, <1>1, <1>3, RecordEffect
    <3> QED BY <3>1, <3>2, <1>1, <1>r DEF TablesInv, RunInv, Exists, Terminal, TerminalStates
  <2>2. CASE choice = "ESCALATE_INCIDENT"
    <3>1. es = <<f, g>>
      BY <2>2 DEF DecisionEvents
    <3>2. /\ action'[r].status = "RESERVED"
          /\ action'[r].attempts = action[r].attempts
      BY <2>2 DEF RecordDecision, LedgerType, Actions
    <3>3. head'[r].state = "RESUMING"
      <4>1. Advance(head[r], f).state = "RESUMING" /\ Advance(head[r], f) \in Heads
        <5>1. Target("ESCALATE_INCIDENT_AUTHORIZED") = "RESUMING"
          BY DEF Target
        <5>2. f.signal = "ESCALATE_INCIDENT_AUTHORIZED" /\ f.signal # NoSignal
          BY DEF Event, NoSignal
        <5> QED BY <1>1, <1>2, <5>1, <5>2, AdvanceType DEF Advance, Heads
      <4>2. AdvanceAll(head[r], <<f, g>>) = Advance(Advance(head[r], f), g)
        BY DEF AdvanceAll
      <4>3. Advance(Advance(head[r], f), g).state = "RESUMING"
        BY <4>1 DEF Advance, Event, Heads
      <4> QED BY <4>2, <4>3, <3>1, <1>1, <1>3, RecordEffect
    <3> QED BY <3>2, <3>3, <1>1, <1>r, <2>2 DEF TablesInv, RunInv, Exists, Terminal, TerminalStates
  <2> QED BY <2>1, <2>2 DEF DecisionChoices
<1> QED BY <1>4, <1>5 DEF TablesInv

LEMMA BeginTables ==
    ASSUME LedgerType, TablesInv, NEW r \in Runs, NEW version, NEW t \in Nat,
           BeginExternalAction(r, version, t)
    PROVE  /\ TablesInv'
           /\ action[r].attempts = 0 /\ action'[r].attempts = 1
           /\ action'[r].status = "IN_FLIGHT"
           /\ \A s \in Runs \ {r} : action'[s] = action[s]
<1>1. /\ head[r] \in Heads /\ action[r] \in Actions
      /\ head[r].state = "RESUMING" /\ action[r].status = "RESERVED"
      /\ action[r].attempts = 0
  BY DEF BeginExternalAction, CanBegin, LedgerType
<1>2. head'[r].state = "RESUMING"
  BY <1>1 DEF BeginExternalAction, Advance, ActionAttempted, Event, LedgerType, Heads
<1>3. action'[r].status = "IN_FLIGHT" /\ action'[r].attempts = 1
  BY <1>1 DEF BeginExternalAction, LedgerType, Actions
<1>4. \A s \in Runs \ {r} : /\ action'[s] = action[s] /\ head'[s] = head[s]
                            /\ log'[s] = log[s]
  BY DEF BeginExternalAction, LedgerType
<1>r. LastSignal(log'[r]) = NoSignal
  <2>1. log[r] \in Seq(Events) /\ log'[r] = Append(log[r], ActionAttempted(t))
    BY DEF BeginExternalAction, LedgerType
  <2> QED BY <2>1 DEF LastSignal, ActionAttempted, Event
<1>5. RunInv(r)'
  BY <1>2, <1>3, <1>r DEF RunInv, Exists, Terminal, TerminalStates
<1>6. ASSUME NEW s \in Runs \ {r} PROVE RunInv(s)'
  BY <1>4 DEF TablesInv, RunInv, Terminal, Exists
<1> QED BY <1>1, <1>3, <1>4, <1>5, <1>6 DEF TablesInv

\* An event that tells how the action ended, on a run that was resuming.
LEMMA ActionEventEffect ==
    ASSUME NEW result \in ActionResults, NEW t \in Nat, NEW h \in Heads
    PROVE  /\ ActionEvent(result, t).signal \in Signals
           /\ ActionEvent(result, t).signal = "ACTION_REJECTED" <=> result = "REJECTED"
           /\ ActionEvent(result, t).signal = "ACTION_UNCERTAIN" <=> result = "UNCERTAIN"
           /\ Advance(h, ActionEvent(result, t)).state =
                IF result = "CONFIRMED" THEN "ESCALATED" ELSE "STOPPED"
<1>1. /\ Target("ACTION_CONFIRMED") = "ESCALATED"
      /\ Target("ACTION_REJECTED") = "STOPPED"
      /\ Target("ACTION_UNCERTAIN") = "STOPPED"
  BY DEF Target
<1>2. CASE result = "CONFIRMED"
  BY <1>1, <1>2 DEF ActionEvent, Event, Signals, ActionSignals, Advance, Heads, NoSignal
<1>3. CASE result = "REJECTED"
  BY <1>1, <1>3 DEF ActionEvent, Event, Signals, ActionSignals, Advance, Heads, NoSignal
<1>4. CASE result = "UNCERTAIN"
  BY <1>1, <1>4 DEF ActionEvent, Event, Signals, ActionSignals, Advance, Heads, NoSignal
<1> QED BY <1>2, <1>3, <1>4 DEF ActionResults

LEMMA FinishTables ==
    ASSUME LedgerType, TablesInv, NEW r \in Runs, NEW result \in ActionResults,
           NEW t \in Nat, FinishExternalAction(r, result, t)
    PROVE  /\ TablesInv'
           /\ action[r].status = "IN_FLIGHT"
           /\ action'[r].status = result /\ action'[r].attempts = action[r].attempts
           /\ \A s \in Runs \ {r} : action'[s] = action[s]
<1> DEFINE e == ActionEvent(result, t)
<1>1. /\ head[r] \in Heads /\ action[r].status = "IN_FLIGHT" /\ action[r].attempts = 1
      /\ Record(r, <<e>>)
      /\ <<e>> \in Batches
  BY ActionEventType, BatchOne DEF FinishExternalAction, CanFinish, LedgerType
<1>2. action'[r].status = result /\ action'[r].attempts = action[r].attempts
  BY DEF FinishExternalAction, LedgerType, Actions
<1>3. \A s \in Runs \ {r} : action'[s] = action[s]
  BY DEF FinishExternalAction, LedgerType
<1>4. /\ head'[r].state = IF result = "CONFIRMED" THEN "ESCALATED" ELSE "STOPPED"
      /\ head'[r].owner = NoWorker /\ head'[r].expires = None
      /\ LastSignal(log'[r]) = e.signal
  <2>1. AdvanceAll(head[r], <<e>>) = Advance(head[r], e)
    BY DEF AdvanceAll
  <2>2. Len(<<e>>) = 1 /\ <<e>>[1] = e
    OBVIOUS
  <2>3. /\ head'[r].state = AdvanceAll(head[r], <<e>>).state
        /\ head'[r].owner = NoWorker /\ head'[r].expires = None
        /\ LastSignal(log'[r]) = <<e>>[Len(<<e>>)].signal
    BY <1>1, RecordEffect
  <2>4. Advance(head[r], e).state = IF result = "CONFIRMED" THEN "ESCALATED" ELSE "STOPPED"
    BY <1>1, ActionEventEffect
  <2> QED BY <2>1, <2>2, <2>3, <2>4
<1>5. RunInv(r)'
  BY <1>1, <1>2, <1>4, ActionEventEffect DEF RunInv, Exists, Terminal, ActionResults
<1>6. ASSUME NEW s \in Runs \ {r} PROVE RunInv(s)'
  BY <1>1, <1>3, RecordEffect DEF TablesInv, RunInv, Terminal, Exists
<1> QED BY <1>1, <1>2, <1>3, <1>5, <1>6 DEF TablesInv

LEMMA RecoverTables ==
    ASSUME LedgerType, TablesInv, NEW t \in Nat, RecoverAbandonedWork(t)
    PROVE  /\ TablesInv'
           /\ \A r \in Runs :
                /\ action'[r].attempts = action[r].attempts
                /\ action'[r].status \in {action[r].status, "UNCERTAIN"}
                /\ r \notin Abandoned(t) => action'[r] = action[r] /\ log'[r] = log[r]
<1>1. ASSUME NEW r \in Abandoned(t)
      PROVE  /\ RunInv(r)' /\ action'[r].attempts = action[r].attempts
             /\ action'[r].status = "UNCERTAIN"
  <2> DEFINE e == RecoveryEvent(t)
  <2>1. /\ r \in Runs /\ head[r] \in Heads /\ action[r].status = "IN_FLIGHT"
        /\ action[r] \in Actions /\ log[r] \in Seq(Events) /\ e \in Events
        /\ action[r].attempts = 1
    BY ActionEventType
       DEF Abandoned, LedgerType, TablesInv, RunInv, RecoveryEvent, ActionResults
  <2>2. /\ head'[r] = Released(Advance(head[r], e))
        /\ action'[r] = [action[r] EXCEPT !.status = "UNCERTAIN"]
        /\ log'[r] = Append(log[r], e)
    BY <2>1 DEF RecoverAbandonedWork
  <2>3. /\ action'[r].status = "UNCERTAIN" /\ action'[r].attempts = 1
    BY <2>1, <2>2 DEF Actions
  <2>4. /\ Advance(head[r], e).state = "STOPPED" /\ e.signal = "ACTION_UNCERTAIN"
        /\ Advance(head[r], e) \in Heads
    BY <2>1, ActionEventEffect, AdvanceType DEF RecoveryEvent, ActionResults
  <2>5. /\ head'[r].state = "STOPPED" /\ head'[r].owner = NoWorker
        /\ head'[r].expires = None
    BY <2>2, <2>4 DEF Released, Heads
  <2>6. LastSignal(log'[r]) = "ACTION_UNCERTAIN"
    BY <2>1, <2>2, <2>4 DEF LastSignal
  <2> QED BY <2>1, <2>3, <2>5, <2>6 DEF RunInv, Exists, Signals, ActionSignals
<1>2. ASSUME NEW r \in Runs \ Abandoned(t)
      PROVE  RunInv(r)' /\ action'[r] = action[r] /\ log'[r] = log[r]
  <2>1. action'[r] = action[r] /\ log'[r] = log[r] /\ head'[r] \in {head[r], Released(head[r])}
    BY DEF RecoverAbandonedWork
  <2>2. head[r] \in Heads
    BY DEF LedgerType
  <2>3. /\ head'[r].state = head[r].state
        /\ head[r].owner = NoWorker => head'[r].owner = NoWorker
        /\ head[r].expires = None => head'[r].expires = None
    BY <2>1, <2>2 DEF Released, Heads
  <2> QED BY <2>1, <2>3 DEF TablesInv, RunInv, Terminal, Exists
<1> QED BY <1>1, <1>2 DEF TablesInv, Abandoned

-----------------------------------------------------------------------------
(* What left the process.                                                  *)

\* A step that sends nothing and brings no worker to a call or to its answer.
LEMMA EffectKept ==
    ASSUME TypeInv, TablesInv, TypeInv', TablesInv', EffectInv,
           UNCHANGED <<posts, issues, refusals>>,
           \A r \in Runs : action'[r].attempts >= action[r].attempts,
           \A r \in Runs : action'[r].status = "CONFIRMED" =>
              action[r].status = "CONFIRMED" \/ issues[r] > 0,
           \A r \in Runs : action'[r].status = "REJECTED" =>
              action[r].status = "REJECTED" \/ refusals[r] > 0,
           \A w \in Workers : pc'[w] \in {"calling", "finish"} =>
              pc[w] = pc'[w] /\ claim'[w] = claim[w] /\ outcome'[w] = outcome[w]
    PROVE  EffectInv'
<1>1. \A r \in Runs : /\ action[r].attempts \in {0, 1} /\ action'[r].attempts \in {0, 1}
                      /\ posts[r] \in Nat
  BY DEF TablesInv, RunInv, TypeInv, WorkerType
<1>2. ASSUME NEW r \in Runs
      PROVE  /\ posts'[r] <= action'[r].attempts
             /\ issues'[r] + refusals'[r] <= posts'[r]
             /\ action'[r].status = "CONFIRMED" => issues'[r] > 0
             /\ action'[r].status = "REJECTED" => refusals'[r] > 0
  BY <1>1 DEF EffectInv
<1>3. ASSUME NEW w \in Workers
      PROVE  /\ pc'[w] = "calling" =>
                   action'[claim'[w].run].attempts = 1 /\ posts'[claim'[w].run] = 0
             /\ pc'[w] = "finish" /\ outcome'[w] = "CONFIRMED" => issues'[claim'[w].run] > 0
             /\ pc'[w] = "finish" /\ outcome'[w] = "REJECTED" => refusals'[claim'[w].run] > 0
  <2>1. CASE pc'[w] = "calling"
    <3>1. /\ pc[w] = "calling" /\ claim'[w] = claim[w] /\ claim[w].run \in Runs
          /\ action[claim[w].run].attempts = 1 /\ posts[claim[w].run] = 0
      BY <2>1 DEF EffectInv, TypeInv, WorkerType
    <3> QED BY <2>1, <3>1, <1>1
  <2>2. CASE pc'[w] = "finish"
    BY <2>2 DEF EffectInv
  <2> QED BY <2>1, <2>2
<1>4. ASSUME NEW v \in Workers, NEW w \in Workers, pc'[v] = "calling", pc'[w] = "calling",
             claim'[v].run = claim'[w].run
      PROVE  v = w
  BY <1>4 DEF EffectInv
<1> QED BY <1>2, <1>3, <1>4 DEF EffectInv

\* The attempt: the worker that makes it is the only one that calls.
LEMMA EffectBegin ==
    ASSUME TypeInv, TablesInv, EffectInv, TypeInv', NEW w \in Workers, Begin(w)
    PROVE  EffectInv'
<1> DEFINE r == claim[w].run
<1>1. /\ r \in Runs /\ action[r].attempts = 0 /\ action'[r].attempts = 1
      /\ action'[r].status = "IN_FLIGHT"
      /\ \A s \in Runs \ {r} : action'[s] = action[s]
  <2>1. r \in Runs /\ at[w] \in Nat
    BY DEF Begin, TypeInv, WorkerType
  <2> QED BY <2>1, BeginTables DEF Begin, BeginIncidentAction, TypeInv
<1>2. /\ UNCHANGED <<posts, issues, refusals, claim, outcome>>
      /\ pc' = [pc EXCEPT ![w] = "calling"]
  BY DEF Begin, Goto, providerVars
<1>3. posts[r] = 0
  BY <1>1 DEF EffectInv, TypeInv, WorkerType
<1>4. ASSUME NEW s \in Runs
      PROVE  /\ posts'[s] <= action'[s].attempts
             /\ issues'[s] + refusals'[s] <= posts'[s]
             /\ action'[s].status = "CONFIRMED" => issues'[s] > 0
             /\ action'[s].status = "REJECTED" => refusals'[s] > 0
  BY <1>1, <1>2, <1>3 DEF EffectInv
<1>5. ASSUME NEW v \in Workers \ {w}, pc'[v] = "calling" PROVE claim[v].run # r
  BY <1>1, <1>2, <1>5 DEF EffectInv, TypeInv, WorkerType
<1>6. ASSUME NEW v \in Workers
      PROVE  /\ pc'[v] = "calling" =>
                   action'[claim'[v].run].attempts = 1 /\ posts'[claim'[v].run] = 0
             /\ pc'[v] = "finish" /\ outcome'[v] = "CONFIRMED" => issues'[claim'[v].run] > 0
             /\ pc'[v] = "finish" /\ outcome'[v] = "REJECTED" => refusals'[claim'[v].run] > 0
  <2>1. CASE v = w
    BY <1>1, <1>2, <1>3, <2>1 DEF TypeInv, WorkerType
  <2>2. CASE v # w
    BY <1>1, <1>2, <1>5, <2>2 DEF EffectInv, TypeInv, WorkerType
  <2> QED BY <2>1, <2>2
<1>7. ASSUME NEW u \in Workers, NEW v \in Workers, pc'[u] = "calling", pc'[v] = "calling",
             claim'[u].run = claim'[v].run
      PROVE  u = v
  BY <1>2, <1>5, <1>7 DEF EffectInv, TypeInv, WorkerType
<1> QED BY <1>4, <1>6, <1>7 DEF EffectInv

\* The POST, by a worker whose run has sent none.
LEMMA EffectPost ==
    ASSUME TypeInv, TablesInv, EffectInv, NEW w \in Workers, SendPost(w)
    PROVE  EffectInv'
<1> DEFINE r == claim[w].run
<1>a. /\ posts' = [posts EXCEPT ![r] = @ + 1]
      /\ pc[w] = "calling" /\ pc' = [pc EXCEPT ![w] = "posted"]
      /\ UNCHANGED <<action, claim, outcome, issues, refusals>>
  BY DEF SendPost, Goto, ledgerVars
<1>b. r \in Runs /\ posts[r] = 0 /\ action[r].attempts = 1
  BY <1>a DEF EffectInv, TypeInv, WorkerType
<1>c. posts' = [posts EXCEPT ![r] = 1]
  BY <1>a, <1>b
<1>1. /\ r \in Runs /\ posts[r] = 0 /\ action[r].attempts = 1
      /\ posts' = [posts EXCEPT ![r] = 1]
      /\ pc[w] = "calling" /\ pc' = [pc EXCEPT ![w] = "posted"]
      /\ UNCHANGED <<action, claim, outcome, issues, refusals>>
  BY <1>a, <1>b, <1>c
<1>2. ASSUME NEW s \in Runs
      PROVE  /\ posts'[s] <= action'[s].attempts
             /\ issues'[s] + refusals'[s] <= posts'[s]
             /\ action'[s].status = "CONFIRMED" => issues'[s] > 0
             /\ action'[s].status = "REJECTED" => refusals'[s] > 0
  BY <1>1 DEF EffectInv, TypeInv, WorkerType
<1>3. ASSUME NEW v \in Workers
      PROVE  /\ pc'[v] = "calling" =>
                   action'[claim'[v].run].attempts = 1 /\ posts'[claim'[v].run] = 0
             /\ pc'[v] = "finish" /\ outcome'[v] = "CONFIRMED" => issues'[claim'[v].run] > 0
             /\ pc'[v] = "finish" /\ outcome'[v] = "REJECTED" => refusals'[claim'[v].run] > 0
  <2>1. pc'[v] = "calling" => v # w /\ pc[v] = "calling" /\ claim[v].run # r
    BY <1>1 DEF EffectInv, TypeInv, WorkerType
  <2>2. pc'[v] = "finish" => pc[v] = "finish"
    BY <1>1 DEF TypeInv, WorkerType
  <2>3. posts'[claim[v].run] = posts[claim[v].run] \/ claim[v].run = r
    BY <1>1 DEF TypeInv, WorkerType
  <2> QED BY <1>1, <2>1, <2>2, <2>3 DEF EffectInv
<1>4. ASSUME NEW u \in Workers, NEW v \in Workers, pc'[u] = "calling", pc'[v] = "calling",
             claim'[u].run = claim'[v].run
      PROVE  u = v
  BY <1>1, <1>4 DEF EffectInv, TypeInv, WorkerType
<1> QED BY <1>2, <1>3, <1>4 DEF EffectInv

LEMMA EffectReturn ==
    ASSUME TypeInv, EffectInv, NEW w \in Workers, NEW result \in ActionResults,
           IncidentReturns(w, result)
    PROVE  EffectInv'
<1>1. /\ UNCHANGED <<action, claim, posts, issues, refusals>>
      /\ pc' = [pc EXCEPT ![w] = "finish"] /\ outcome' = [outcome EXCEPT ![w] = result]
      /\ result = "CONFIRMED" => issues[claim[w].run] > 0
      /\ result = "REJECTED" => refusals[claim[w].run] > 0
  BY DEF IncidentReturns, Await, Goto, ledgerVars, providerVars
<1> QED BY <1>1 DEF EffectInv, TypeInv, WorkerType

LEMMA EffectProvider ==
    ASSUME TypeInv, EffectInv, NEW r \in Runs, ProviderAccepts(r) \/ ProviderRefuses(r)
    PROVE  EffectInv'
<1>1. /\ UNCHANGED <<action, claim, posts, pc, outcome>>
      /\ issues[r] + refusals[r] < posts[r]
      /\ \/ issues' = [issues EXCEPT ![r] = @ + 1] /\ refusals' = refusals
         \/ refusals' = [refusals EXCEPT ![r] = @ + 1] /\ issues' = issues
  BY DEF ProviderAccepts, ProviderRefuses, ledgerVars, workerVars
<1>2. /\ \A s \in Runs : issues'[s] \in Nat /\ refusals'[s] \in Nat /\ posts[s] \in Nat
      /\ \A s \in Runs : issues'[s] >= issues[s] /\ refusals'[s] >= refusals[s]
      /\ \A s \in Runs : issues[s] \in Nat /\ refusals[s] \in Nat
      /\ \A s \in Runs : issues'[s] + refusals'[s] <= posts[s]
  BY <1>1 DEF EffectInv, TypeInv, WorkerType
<1>3. \A w \in Workers : pc[w] = "finish" => claim[w].run \in Runs
  BY DEF TypeInv, WorkerType
<1>4. ASSUME NEW w \in Workers
      PROVE  /\ pc'[w] = "finish" /\ outcome'[w] = "CONFIRMED" => issues'[claim'[w].run] > 0
             /\ pc'[w] = "finish" /\ outcome'[w] = "REJECTED" => refusals'[claim'[w].run] > 0
  BY <1>1, <1>2, <1>3 DEF EffectInv
<1> QED BY <1>1, <1>2, <1>4 DEF EffectInv

-----------------------------------------------------------------------------
(* The invariant.                                                          *)

\* What a claim commits is one of the batches of MovingBatches.
LEMMA CommitMoves ==
    ASSUME ServiceAssumption, NEW c, NEW signal \in Signals, NEW t \in Nat
    PROVE  ObservationEvents(c, signal, t) \in MovingBatches
<1>1. ObservationEvents(c, signal, t) \in Batches
  BY ObservationEventsType
<1>2. \E f : /\ ObservationEvents(c, signal, t)
                   = <<Event("observation-recorded", NoSignal, t, None), f>>
            /\ f.type \in MovingTypes
  <2>1. /\ Event("wait-scheduled", signal, t, t + Delay).type \in MovingTypes
        /\ Event("decision-requested", "OBSERVATION_BUDGET_EXHAUSTED", t,
                 t + DecisionTTL).type \in MovingTypes
        /\ Event("run-completed", signal, t, None).type \in MovingTypes
        /\ Event("run-stopped", signal, t, None).type \in MovingTypes
    BY DEF Event, MovingTypes
  <2> DEFINE o == Event("observation-recorded", NoSignal, t, None)
             f == ObservationEvents(c, signal, t)[2]
  <2>2. ObservationEvents(c, signal, t) = <<o, f>>
    BY DEF ObservationEvents
  <2>3. f \in {Event("wait-scheduled", signal, t, t + Delay),
              Event("decision-requested", "OBSERVATION_BUDGET_EXHAUSTED", t, t + DecisionTTL),
              Event("run-completed", signal, t, None),
              Event("run-stopped", signal, t, None)}
    BY DEF ObservationEvents
  <2> QED BY <2>1, <2>2, <2>3
<1>3. Event("observation-recorded", NoSignal, t, None).signal = NoSignal
  BY DEF Event
<1> QED BY <1>1, <1>2, <1>3 DEF MovingBatches

LEMMA WakeMoves == ASSUME NEW t \in Nat PROVE WakeEvents(t) \in MovingBatches
<1>1. WakeEvents(t) \in Batches
  BY EventType, BatchOne DEF WakeEvents, EventTypes, Signals, Times, OptionalTimes
<1> QED BY <1>1 DEF MovingBatches, WakeEvents, Event, MovingTypes

LEMMA StopMoves ==
    ASSUME NEW signal \in Signals, NEW t \in Nat
    PROVE  StopEvents(signal, t) \in MovingBatches
<1>1. StopEvents(signal, t) \in Batches
  BY EventType, BatchOne DEF StopEvents, EventTypes, Times, OptionalTimes
<1> QED BY <1>1 DEF MovingBatches, StopEvents, Event, MovingTypes

\* A claim's commit keeps the tables and touches no action.
LEMMA ClaimCommits ==
    ASSUME ServiceAssumption, TypeInv, TablesInv, NEW w \in Workers,
           claim[w].run \in Runs, NEW signal, NEW t \in Nat,
           \/ CommitObservation(claim[w], signal, t)
           \/ WakeDueRun(claim[w], t)
           \/ StopClaim(claim[w], signal, t)
    PROVE  /\ TablesInv' /\ UNCHANGED action
           /\ head[claim[w].run].state \in Unresumed
           /\ \A s \in Runs \ {claim[w].run} : head'[s] = head[s] /\ log'[s] = log[s]
<1>1. CASE CommitObservation(claim[w], signal, t)
  <2>1. signal \in Signals
    BY <1>1, ObservationSignalsType
       DEF CommitObservation, CanCommitObservation, ObservationAdmitted
  <2> QED BY <1>1, <2>1, CommitMoves, AppendTables, AppendEffect
          DEF CommitObservation, TypeInv
<1>2. CASE WakeDueRun(claim[w], t)
  BY <1>2, WakeMoves, AppendTables, AppendEffect DEF WakeDueRun, TypeInv
<1>3. CASE StopClaim(claim[w], signal, t)
  <2>1. signal \in Signals
    BY <1>3, SourceIsSignal DEF StopClaim, CanStop
  <2> QED BY <1>3, <2>1, StopMoves, AppendTables, AppendEffect DEF StopClaim, TypeInv
<1> QED BY <1>1, <1>2, <1>3

LEMMA UnchangedTables ==
    ASSUME TablesInv, UNCHANGED <<log, head, action>> PROVE TablesInv'
BY DEF TablesInv, RunInv, Terminal, Exists

\* The end of a tick leads to no call and to no answer.
LEMMA EffectEndTick ==
    ASSUME TypeInv, TablesInv, TypeInv', TablesInv', EffectInv,
           NEW w \in Workers, EndTick(w), UNCHANGED <<action, providerVars>>
    PROVE  EffectInv'
<1>1. \A r \in Runs : action[r].attempts \in Nat
  BY DEF TypeInv, LedgerType, Actions
<1> QED BY <1>1, EffectKept DEF EndTick, Goto, TypeInv, WorkerType, providerVars

\* A step that moves one worker on and settles no action.
LEMMA EffectMove ==
    ASSUME TypeInv, TablesInv, TypeInv', TablesInv', EffectInv,
           NEW w \in Workers, NEW label, label \notin {"calling", "finish"},
           Goto(w, label), \A v \in Workers \ {w} : claim'[v] = claim[v] /\ outcome'[v] = outcome[v],
           UNCHANGED <<action, providerVars>>
    PROVE  EffectInv'
<1>1. \A r \in Runs : action[r].attempts \in Nat
  BY DEF TypeInv, LedgerType, Actions
<1> QED BY <1>1, EffectKept DEF Goto, TypeInv, WorkerType, providerVars

LEMMA WorkerStepSafety ==
    ASSUME LedgerAssumption, ServiceAssumption, SafetyInv, TypeInv',
           NEW w \in Workers, WorkerStep(w)
    PROVE  TablesInv' /\ EffectInv'
<1> USE DEF SafetyInv
<1>0. /\ now \in Nat /\ at[w] \in Nat /\ LedgerType
      /\ pc[w] \notin {"idle", "recover", "claim"} => claim[w].run \in Runs
      /\ pc[w] = "finish" => outcome[w] \in ActionResults
      /\ \A r \in Runs : action[r].attempts \in Nat
  BY DEF TypeInv, WorkerType, LedgerType, Actions
<1>a. ASSUME Refused(w) PROVE TablesInv' /\ EffectInv'
  <2>1. TablesInv'
    BY <1>a, UnchangedTables DEF Refused, ledgerVars
  <2> QED BY <1>a, <2>1, EffectEndTick DEF Refused, ledgerVars
<1>b. CASE StartTick(w)
  <2>1. TablesInv'
    BY <1>b, UnchangedTables DEF StartTick, ledgerVars
  <2>2. /\ Goto(w, "recover") /\ UNCHANGED <<action, providerVars, claim, outcome>>
    BY <1>b DEF StartTick, ledgerVars
  <2> QED BY <2>1, <2>2, EffectMove
<1>1. ASSUME Recover(w), CanRecover(at[w]) PROVE TablesInv' /\ EffectInv'
  <2>1. /\ TablesInv'
        /\ \A r \in Runs : /\ action'[r].attempts = action[r].attempts
                           /\ action'[r].status \in {action[r].status, "UNCERTAIN"}
    BY <1>1, <1>0, RecoverTables DEF Recover
  <2>2. /\ UNCHANGED <<posts, issues, refusals, claim, outcome>>
        /\ pc' = [pc EXCEPT ![w] = "claim"]
    BY <1>1 DEF Recover, Goto, providerVars
  <2>3. /\ \A r \in Runs : action'[r].attempts >= action[r].attempts
        /\ \A r \in Runs : action'[r].status = "CONFIRMED" => action[r].status = "CONFIRMED"
        /\ \A r \in Runs : action'[r].status = "REJECTED" => action[r].status = "REJECTED"
    BY <2>1, <1>0
  <2>4. \A v \in Workers : pc'[v] \in {"calling", "finish"} =>
           pc[v] = pc'[v] /\ claim'[v] = claim[v] /\ outcome'[v] = outcome[v]
    BY <2>2 DEF TypeInv, WorkerType
  <2> QED BY <2>1, <2>2, <2>3, <2>4, EffectKept
<1>2. CASE NothingDue(w)
  <2>1. TablesInv'
    BY <1>2, UnchangedTables DEF NothingDue, ledgerVars
  <2> QED BY <1>2, <2>1, EffectEndTick DEF NothingDue, ledgerVars
<1>3. CASE ReadClaim(w)
  <2>1. TablesInv'
    BY <1>3, UnchangedTables DEF ReadClaim, ledgerVars
  <2>2. CASE Branch(FullClaim(claim[w])) = "throw"
    BY <1>3, <2>1, <2>2, EffectEndTick DEF ReadClaim, ledgerVars
  <2>3. CASE Branch(FullClaim(claim[w])) # "throw"
    <3>1. Branch(FullClaim(claim[w])) \notin {"calling", "finish"}
      BY DEF Branch
    <3>2. /\ Goto(w, Branch(FullClaim(claim[w]))) /\ UNCHANGED <<action, providerVars, outcome>>
          /\ claim' = [claim EXCEPT ![w] = FullClaim(claim[w])]
      BY <1>3, <2>3 DEF ReadClaim, ledgerVars
    <3>3. \A v \in Workers \ {w} : claim'[v] = claim[v] /\ outcome'[v] = outcome[v]
      BY <3>2 DEF TypeInv, WorkerType
    <3> QED BY <2>1, <3>1, <3>2, <3>3, EffectMove
  <2> QED BY <2>2, <2>3
<1>4. ASSUME NEW r \in Runs, ClaimDue(w, r) PROVE TablesInv' /\ EffectInv'
  <2>1. TablesInv'
    BY <1>4, <1>0, ClaimTables DEF ClaimDue
  <2>2. /\ Goto(w, "read") /\ UNCHANGED <<action, providerVars, outcome>>
        /\ claim' = [claim EXCEPT ![w] = HeadClaim(r, at[w])]
    BY <1>4 DEF ClaimDue, ClaimNextDueRun
  <2>3. \A v \in Workers \ {w} : claim'[v] = claim[v] /\ outcome'[v] = outcome[v]
    BY <2>2 DEF TypeInv, WorkerType
  <2> QED BY <2>1, <2>2, <2>3, EffectMove
<1>5. CASE Wake(w)
  <2>1. TablesInv' /\ UNCHANGED action
    BY <1>5, <1>0, ClaimCommits DEF Wake
  <2> QED BY <1>5, <2>1, EffectEndTick DEF Wake
<1>6. CASE Expire(w)
  <2>1. TablesInv' /\ UNCHANGED action
    BY <1>6, <1>0, ClaimCommits DEF Expire, ExpireDecision
  <2> QED BY <1>6, <2>1, EffectEndTick DEF Expire
<1>7. CASE Begin(w)
  <2>1. TablesInv'
    BY <1>7, <1>0, BeginTables DEF Begin, BeginIncidentAction
  <2> QED BY <1>7, <2>1, EffectBegin
<1>8. CASE SendPost(w)
  <2>1. TablesInv'
    BY <1>8, UnchangedTables DEF SendPost, ledgerVars
  <2> QED BY <1>8, <2>1, EffectPost
<1>9. ASSUME NEW result \in ActionResults, IncidentReturns(w, result)
      PROVE  TablesInv' /\ EffectInv'
  <2>1. TablesInv'
    BY <1>9, UnchangedTables DEF IncidentReturns, ledgerVars
  <2> QED BY <1>9, <2>1, EffectReturn
<1>10. CASE Finish(w)
  <2> DEFINE r == claim[w].run
  <2>1. pc[w] = "finish" /\ r \in Runs /\ outcome[w] \in ActionResults
    BY <1>10, <1>0 DEF Finish
  <2>2. /\ TablesInv'
        /\ action'[r].status = outcome[w] /\ action'[r].attempts = action[r].attempts
        /\ \A s \in Runs \ {r} : action'[s] = action[s]
    BY <1>10, <2>1, <1>0, FinishTables DEF Finish
  <2>3. /\ outcome[w] = "CONFIRMED" => issues[r] > 0
        /\ outcome[w] = "REJECTED" => refusals[r] > 0
    BY <2>1 DEF EffectInv
  <2>4. /\ \A s \in Runs : action'[s].attempts >= action[s].attempts
        /\ \A s \in Runs : action'[s].status = "CONFIRMED" =>
              action[s].status = "CONFIRMED" \/ issues[s] > 0
        /\ \A s \in Runs : action'[s].status = "REJECTED" =>
              action[s].status = "REJECTED" \/ refusals[s] > 0
    BY <2>2, <2>3, <1>0
  <2>5. \A v \in Workers : pc'[v] \in {"calling", "finish"} =>
           pc[v] = pc'[v] /\ claim'[v] = claim[v] /\ outcome'[v] = outcome[v]
    BY <1>10 DEF Finish, EndTick, Goto, TypeInv, WorkerType
  <2>6. UNCHANGED <<posts, issues, refusals>>
    BY <1>10 DEF Finish, providerVars
  <2> QED BY <2>2, <2>4, <2>5, <2>6, EffectKept
<1>11. ASSUME NEW label \in {"commit", "stop"}, NEW signal, Await(w, label, signal),
              UNCHANGED <<ledgerVars, providerVars>>
       PROVE  TablesInv' /\ EffectInv'
  <2>1. TablesInv' /\ UNCHANGED action
    BY <1>11, UnchangedTables DEF ledgerVars
  <2>2. \A v \in Workers \ {w} : claim'[v] = claim[v] /\ outcome'[v] = outcome[v]
    BY <1>11 DEF Await, TypeInv, WorkerType
  <2> QED BY <1>11, <2>1, <2>2, EffectMove DEF Await
<1>12. CASE Commit(w)
  <2>1. TablesInv' /\ UNCHANGED action
    BY <1>12, <1>0, ClaimCommits DEF Commit
  <2> QED BY <1>12, <2>1, EffectEndTick DEF Commit
<1>13. CASE StopRun(w)
  <2>1. TablesInv' /\ UNCHANGED action
    BY <1>13, <1>0, ClaimCommits DEF StopRun
  <2> QED BY <1>13, <2>1, EffectEndTick DEF StopRun
<1>14. ASSUME NEW signal, Observed(w, signal) \/ ObservationFailed(w, signal)
       PROVE  TablesInv' /\ EffectInv'
  BY <1>14, <1>11 DEF Observed, ObservationFailed
<1> QED
  BY <1>a, <1>b, <1>1, <1>2, <1>3, <1>4, <1>5, <1>6, <1>7, <1>8, <1>9, <1>10, <1>12,
     <1>13, <1>14
     DEF WorkerStep, Recover, WakeRefused, ExpireRefused, BeginRefused, FinishRefused,
         CommitRefused, StopRunRefused, ObservationDropped

LEMMA SafetyInit == Init => SafetyInv
<1> SUFFICES ASSUME Init PROVE SafetyInv
  OBVIOUS
<1>1. TypeInv
  BY TypeInit
<1>2. TablesInv
  BY DEF Init, LedgerInit, TablesInv, RunInv, Unborn, NoAction, NoState, Terminal,
     TerminalStates, Exists
<1>3. EffectInv
  BY DEF Init, LedgerInit, EffectInv, NoAction
<1> QED BY <1>1, <1>2, <1>3 DEF SafetyInv

LEMMA SafetyStep ==
    ASSUME LedgerAssumption, ServiceAssumption, SafetyInv, [Next]_vars
    PROVE  SafetyInv'
<1> USE DEF SafetyInv
<1>0. /\ TypeInv' /\ now \in Nat /\ LedgerType
      /\ \A r \in Runs : action[r].attempts \in Nat
  BY TypeStep DEF TypeInv, WorkerType, LedgerType, Actions
<1>a. ASSUME TablesInv', UNCHANGED <<posts, issues, refusals, pc, claim, outcome>>,
             \A r \in Runs : action'[r].attempts >= action[r].attempts,
             \A r \in Runs : action'[r].status = action[r].status
                              \/ action'[r].status = "RESERVED"
      PROVE  EffectInv'
  BY <1>a, <1>0, EffectKept
<1>1. ASSUME UNCHANGED <<ledgerVars, posts, issues, refusals, pc, claim, outcome>>
      PROVE  SafetyInv'
  <2>1. TablesInv'
    BY <1>1, UnchangedTables DEF ledgerVars
  <2> QED BY <1>1, <2>1, <1>0, <1>a DEF ledgerVars
<1>2. ASSUME NEW r \in Runs, Trigger(r) PROVE SafetyInv'
  <2>1. TablesInv' /\ UNCHANGED action
    BY <1>2, <1>0, CreateTables DEF Trigger, CreateRunFromWebhook
  <2> QED BY <1>2, <2>1, <1>0, <1>a DEF Trigger, workerVars, providerVars
<1>3. ASSUME NEW r \in Runs, ProviderAccepts(r) \/ ProviderRefuses(r) PROVE SafetyInv'
  <2>1. TablesInv'
    BY <1>3, UnchangedTables DEF ProviderAccepts, ProviderRefuses, ledgerVars
  <2> QED BY <1>3, <2>1, <1>0, EffectProvider
<1>4. ASSUME NEW r \in Runs, NEW key \in Keys, NEW choice \in DecisionChoices,
             NEW expected \in 1..Len(log[r]), Submit(r, key, choice, expected)
      PROVE  SafetyInv'
  <2>1. SubmittedAt(log[r], now) \in Nat
    <3>1. log[r] \in Seq(Events)
      BY <1>0 DEF LedgerType
    <3> QED BY <3>1, <1>0, AuthorizedAtType DEF SubmittedAt
  <2>2. SubmittedWake(log[r], choice, now) \in OptionalTimes
    BY <2>1 DEF SubmittedWake, ServiceAssumption, OptionalTimes
  <2>3. TablesInv'
    BY <1>4, <1>0, <2>1, <2>2, DecisionTables DEF Submit, SubmitDecision
  <2>4. \A s \in Runs : /\ action'[s].attempts = action[s].attempts
                        /\ action'[s].status \in {action[s].status, "RESERVED"}
    <3>1. \/ action' = [action EXCEPT ![r].status = "RESERVED"]
          \/ UNCHANGED action
      BY <1>4 DEF Submit, SubmitDecision, RecordDecision
    <3>2. action \in [Runs -> Actions]
      BY <1>0 DEF LedgerType
    <3> QED BY <3>1, <3>2 DEF Actions
  <2> QED BY <1>4, <2>3, <2>4, <1>0, <1>a DEF Submit, workerVars, providerVars
<1>5. ASSUME NEW w \in Workers, WorkerStep(w) PROVE SafetyInv'
  BY <1>5, <1>0, WorkerStepSafety
<1>6. ASSUME NEW w \in Workers, Restart(w) PROVE SafetyInv'
  <2>1. TablesInv'
    BY <1>6, UnchangedTables DEF Restart, ledgerVars
  <2> QED BY <1>6, <2>1, <1>0, EffectEndTick DEF Restart, ledgerVars
<1>7. ASSUME NEW w \in Workers, Stop(w) PROVE SafetyInv'
  BY <1>7, <1>1 DEF Stop, providerVars
<1>8. ASSUME NEW w \in Workers, Locked(w) PROVE SafetyInv'
  <2>1. TablesInv'
    BY <1>8, UnchangedTables DEF Locked, Refused, ledgerVars
  <2> QED BY <1>8, <2>1, <1>0, EffectEndTick DEF Locked, Refused, ledgerVars
<1>9. CASE Tick \/ UNCHANGED vars
  BY <1>9, <1>1 DEF Tick, vars, workerVars, providerVars
<1> QED
  BY <1>2, <1>3, <1>4, <1>5, <1>6, <1>7, <1>8, <1>9 DEF Next, Environment

\* The invariant the theorems below follow from.
THEOREM SafetyCorrect == Spec => []SafetyInv
BY SafetyInit, SafetyStep, LedgerAssumption, ServiceAssumption, PTL DEF Spec

-----------------------------------------------------------------------------
(* What follows from it.                                                   *)

\* Whatever crashes, restarts, expired leases and further workers do, one run
\* sends at most one incident POST.
THEOREM OnePost == Spec => []AtMostOnePost
<1>1. SafetyInv => AtMostOnePost
  BY DEF SafetyInv, TablesInv, RunInv, EffectInv, AtMostOnePost, TypeInv, WorkerType
<1> QED BY <1>1, SafetyCorrect, PTL

\* What the ledger says of the action is what the provider did.
THEOREM TrueReceipt == Spec => []ReceiptIsTrue
<1>1. SafetyInv => ReceiptIsTrue
  <2> SUFFICES ASSUME SafetyInv, NEW r \in Runs
               PROVE  /\ action[r].status = "CONFIRMED" => issues[r] = 1
                      /\ action[r].status = "REJECTED" =>
                            issues[r] = 0 /\ refusals[r] = posts[r]
                      /\ action[r].status \in {"NONE", "RESERVED"} => posts[r] = 0
    BY DEF ReceiptIsTrue
  <2>1. /\ posts[r] \in Nat /\ issues[r] \in Nat /\ refusals[r] \in Nat
        /\ posts[r] <= action[r].attempts /\ issues[r] + refusals[r] <= posts[r]
        /\ action[r].attempts = IF action[r].status \in {"NONE", "RESERVED"} THEN 0 ELSE 1
        /\ action[r].status = "CONFIRMED" => issues[r] > 0
        /\ action[r].status = "REJECTED" => refusals[r] > 0
    BY DEF SafetyInv, TypeInv, WorkerType, TablesInv, RunInv, EffectInv
  <2> QED BY <2>1
<1> QED BY <1>1, SafetyCorrect, PTL

\* The run and its action tell the same story.
THEOREM OneStory == Spec => []ActionMatchesHead
<1>1. SafetyInv => ActionMatchesHead
  <2> SUFFICES ASSUME SafetyInv, NEW r \in Runs
               PROVE  /\ head[r].state = "RESUMING" <=> action[r].status \in {"RESERVED", "IN_FLIGHT"}
                      /\ head[r].state = "ESCALATED" <=> action[r].status = "CONFIRMED"
                      /\ LET code == IF head[r].state = "STOPPED"
                                       THEN StopCode(log[r][Len(log[r])].signal) ELSE NoCode
                         IN  /\ code = "ACTION_REJECTED" <=> action[r].status = "REJECTED"
                             /\ code = "ACTION_OUTCOME_UNCERTAIN" <=> action[r].status = "UNCERTAIN"
    BY DEF ActionMatchesHead
  <2>1. RunInv(r)
    BY DEF SafetyInv, TablesInv
  <2>2. \A signal : /\ StopCode(signal) = "ACTION_REJECTED" => signal = "ACTION_REJECTED"
                    /\ StopCode(signal) = "ACTION_OUTCOME_UNCERTAIN" =>
                          signal \in {"ACTION_UNCERTAIN", "ACTION_OUTCOME_UNCERTAIN"}
    BY DEF StopCode, NoCode
  <2>3. /\ StopCode("ACTION_REJECTED") = "ACTION_REJECTED"
        /\ StopCode("ACTION_UNCERTAIN") = "ACTION_OUTCOME_UNCERTAIN"
    BY DEF StopCode, Target, NoCode
  <2>4. head[r].state = "STOPPED" =>
           LastSignal(log[r]) \in Signals \cup {NoSignal}
           /\ LastSignal(log[r]) # "ACTION_OUTCOME_UNCERTAIN"
    BY <2>1 DEF RunInv, Exists, NoState, Signals, NoSignal, MonitoringSignals,
       ObservationStops, DecisionSignals, ActionSignals
  <2> QED BY <2>1, <2>2, <2>3, <2>4 DEF RunInv, LastSignal, NoCode
<1> QED BY <1>1, SafetyCorrect, PTL

-----------------------------------------------------------------------------
(* What a step may do.                                                     *)

Untouched(r) == head'[r] = head[r] /\ log'[r] = log[r] /\ action'[r] = action[r]

LEMMA ReleasedAgain ==
    ASSUME NEW h \in Heads, h.owner = NoWorker, h.expires = None
    PROVE  Released(h) = h
BY DEF Released, Heads

\* No step touches a run that has ended.
LEMMA WorkerLeavesTerminal ==
    ASSUME ServiceAssumption, SafetyInv, NEW w \in Workers, WorkerStep(w),
           NEW r \in Runs, Terminal(r)
    PROVE  Untouched(r)
<1>0. /\ TypeInv /\ TablesInv /\ LedgerType /\ RunInv(r) /\ at[w] \in Nat /\ now \in Nat
      /\ pc[w] \notin {"idle", "recover", "claim"} => claim[w].run \in Runs
      /\ head[r].state \notin Unresumed \cup {"RESUMING"} \cup ActiveStates
  BY DEF SafetyInv, TypeInv, WorkerType, TablesInv, Terminal, TerminalStates, Unresumed,
     ActiveStates
<1>a. ASSUME UNCHANGED <<log, head, action>> PROVE Untouched(r)
  BY <1>a DEF Untouched
<1>1. ASSUME Recover(w), CanRecover(at[w]) PROVE Untouched(r)
  <2>1. r \notin Abandoned(at[w])
    BY <1>0 DEF Abandoned, RunInv
  <2>2. head'[r] \in {head[r], Released(head[r])} /\ log'[r] = log[r] /\ action'[r] = action[r]
    BY <1>1, <2>1 DEF Recover, RecoverAbandonedWork
  <2>3. head[r] \in Heads /\ head[r].owner = NoWorker /\ head[r].expires = None
    BY <1>0 DEF LedgerType, RunInv
  <2> QED BY <2>2, <2>3, ReleasedAgain DEF Untouched
<1>2. ASSUME NEW q \in Runs, ClaimDue(w, q) PROVE Untouched(r)
  BY <1>2, <1>0 DEF ClaimDue, ClaimNextDueRun, NextDue, Claimable, Untouched, LedgerType
<1>3. CASE Wake(w) \/ Expire(w) \/ Commit(w) \/ StopRun(w)
  <2>1. /\ claim[w].run \in Runs
        /\ \E signal : \/ CommitObservation(claim[w], signal, at[w])
                       \/ WakeDueRun(claim[w], at[w])
                       \/ StopClaim(claim[w], signal, at[w])
    BY <1>3, <1>0 DEF Wake, Expire, ExpireDecision, Commit, StopRun
  <2>2. /\ UNCHANGED action /\ head[claim[w].run].state \in Unresumed
        /\ \A s \in Runs \ {claim[w].run} : head'[s] = head[s] /\ log'[s] = log[s]
    BY <2>1, <1>0, ClaimCommits
  <2> QED BY <2>2, <1>0 DEF Untouched
<1>4. CASE Begin(w)
  <2>1. claim[w].run \in Runs /\ BeginExternalAction(claim[w].run, claim[w].version, at[w])
    BY <1>4, <1>0 DEF Begin, BeginIncidentAction
  <2>2. claim[w].run # r
    BY <2>1, <1>0 DEF BeginExternalAction, CanBegin
  <2> QED BY <2>1, <2>2, <1>0 DEF BeginExternalAction, LedgerType, Untouched
<1>5. CASE Finish(w)
  <2>1. claim[w].run \in Runs /\ FinishExternalAction(claim[w].run, outcome[w], at[w])
    BY <1>5, <1>0 DEF Finish
  <2>2. claim[w].run # r
    BY <2>1, <1>0 DEF FinishExternalAction, CanFinish
  <2> QED BY <2>1, <2>2, <1>0 DEF FinishExternalAction, Record, LedgerType, Untouched
<1>6. ASSUME UNCHANGED ledgerVars PROVE Untouched(r)
  BY <1>6, <1>a DEF ledgerVars
<1> QED
  BY <1>1, <1>2, <1>3, <1>4, <1>5, <1>6
     DEF WorkerStep, StartTick, Recover, NothingDue, ReadClaim, WakeRefused, ExpireRefused,
         BeginRefused, SendPost, IncidentReturns, FinishRefused, Observed,
         ObservationFailed, ObservationDropped, CommitRefused, StopRunRefused, Refused

\* A run that has ended stays as it ended.
THEOREM TerminalForEver == Spec => TerminalIsFinal
<1>1. ASSUME ServiceAssumption, SafetyInv, [Next]_vars, NEW r \in Runs, Terminal(r)
      PROVE  head'[r] = head[r] /\ log'[r] = log[r] /\ action'[r] = action[r]
  <2>0. LedgerType /\ head[r].state \in TerminalStates
    BY <1>1 DEF SafetyInv, TypeInv, Terminal
  <2>1. ASSUME UNCHANGED ledgerVars PROVE Untouched(r)
    BY <2>1 DEF ledgerVars, Untouched
  <2>2. ASSUME NEW q \in Runs, Trigger(q) PROVE Untouched(r)
    BY <2>2, <2>0 DEF Trigger, CreateRunFromWebhook, Exists, Record, LedgerType, Untouched,
       NoState, TerminalStates
  <2>3. ASSUME NEW q \in Runs, NEW key \in Keys, NEW choice \in DecisionChoices,
               NEW expected \in 1..Len(log[q]), Submit(q, key, choice, expected)
        PROVE  Untouched(r)
    <3>1. RecordDecision(q, key, choice, expected, SubmittedFingerprint(log[q], choice, now),
                         SubmittedAt(log[q], now), SubmittedWake(log[q], choice, now))
      BY <2>3 DEF Submit, SubmitDecision
    <3>2. q # r
      BY <3>1, <2>0 DEF RecordDecision, DecisionReply, TerminalStates
    <3>3. head'[r] = head[r] /\ log'[r] = log[r]
      BY <3>1, <3>2, <2>0 DEF RecordDecision, Record, LedgerType
    <3>4. action'[r] = action[r]
      BY <3>1, <3>2, <2>0 DEF RecordDecision, LedgerType
    <3> QED BY <3>3, <3>4 DEF Untouched
  <2>4. ASSUME NEW w \in Workers, WorkerStep(w) PROVE Untouched(r)
    BY <1>1, <2>4, WorkerLeavesTerminal
  <2>5. Untouched(r)
    BY <1>1, <2>1, <2>2, <2>3, <2>4
       DEF Next, Environment, Tick, ProviderAccepts, ProviderRefuses, Locked, Refused,
           Stop, Restart, vars
  <2> QED BY <2>5 DEF Untouched
<1>2. ServiceAssumption /\ SafetyInv /\ [Next]_vars =>
        [\A r \in Runs : Terminal(r) =>
            head'[r] = head[r] /\ log'[r] = log[r] /\ action'[r] = action[r]]_vars
  BY <1>1
<1> QED BY <1>2, SafetyCorrect, ServiceAssumption, PTL DEF Spec, TerminalIsFinal

\* Recovery gives up no action whose lease is unexpired.
THEOREM LiveLeaseRespected == Spec => LiveLeaseProtects
<1>1. ASSUME ServiceAssumption, SafetyInv, [Next]_vars, NEW r \in Runs,
             action[r].status = "IN_FLIGHT", action'[r].status # "IN_FLIGHT",
             head[r].expires > now
      PROVE  \E w \in Workers : claim[w].run = r /\ pc[w] = "finish"
  <2>0. /\ TypeInv /\ TablesInv /\ LedgerType /\ now \in Nat
        /\ \A w \in Workers : at[w] \in Nat /\ at[w] <= now
        /\ head[r].state = "RESUMING" /\ head[r] \in Heads /\ action[r] \in Actions
    BY <1>1 DEF SafetyInv, TypeInv, WorkerType, TablesInv, RunInv, LedgerType
  <2>1. action'[r] # action[r]
    BY <1>1
  <2>2. ASSUME NEW w \in Workers, Recover(w), CanRecover(at[w]) PROVE FALSE
    <3>1. r \notin Abandoned(at[w])
      BY <1>1, <2>0 DEF Abandoned, LeaseFree, None, Heads, OptionalTimes
    <3> QED BY <3>1, <2>1, <2>2 DEF Recover, RecoverAbandonedWork
  <2>3. ASSUME NEW w \in Workers, Begin(w) PROVE FALSE
    <3>1. claim[w].run \in Runs /\ BeginExternalAction(claim[w].run, claim[w].version, at[w])
      BY <2>3, <2>0 DEF Begin, BeginIncidentAction, TypeInv, WorkerType
    <3>2. claim[w].run # r
      BY <3>1, <1>1 DEF BeginExternalAction, CanBegin
    <3> QED BY <3>1, <3>2, <2>0, <2>1 DEF BeginExternalAction, LedgerType
  <2>4. ASSUME NEW w \in Workers, Finish(w)
        PROVE  claim[w].run = r /\ pc[w] = "finish"
    <3>1. FinishExternalAction(claim[w].run, outcome[w], at[w]) /\ pc[w] = "finish"
      BY <2>4 DEF Finish
    <3>2. claim[w].run # r => action'[r] = action[r]
      BY <3>1, <2>0 DEF FinishExternalAction, LedgerType
    <3> QED BY <3>1, <3>2, <2>1
  <2>5. ASSUME NEW q \in Runs, NEW key \in Keys, NEW choice \in DecisionChoices,
               NEW expected \in 1..Len(log[q]), Submit(q, key, choice, expected)
        PROVE  FALSE
    <3>1. RecordDecision(q, key, choice, expected, SubmittedFingerprint(log[q], choice, now),
                         SubmittedAt(log[q], now), SubmittedWake(log[q], choice, now))
      BY <2>5 DEF Submit, SubmitDecision
    <3>2. q # r
      BY <3>1, <2>0 DEF RecordDecision, DecisionReply
    <3> QED BY <3>1, <3>2, <2>0, <2>1 DEF RecordDecision, LedgerType
  <2>6. ASSUME NEW w \in Workers, WorkerStep(w), ~ (Recover(w) /\ CanRecover(at[w])),
               ~ Begin(w), ~ Finish(w)
        PROVE  FALSE
    <3>1. CASE Wake(w) \/ Expire(w) \/ Commit(w) \/ StopRun(w)
      BY <3>1, <2>1
         DEF Wake, WakeDueRun, Expire, ExpireDecision, Commit, CommitObservation, StopRun,
             StopClaim, AppendTransition
    <3>2. CASE \E q \in Runs : ClaimDue(w, q)
      BY <3>2, <2>1 DEF ClaimDue, ClaimNextDueRun
    <3>3. CASE UNCHANGED ledgerVars
      BY <3>3, <2>1 DEF ledgerVars
    <3> QED
      BY <2>6, <3>1, <3>2, <3>3
         DEF WorkerStep, StartTick, Recover, NothingDue, ReadClaim, WakeRefused,
             ExpireRefused, BeginRefused, SendPost, IncidentReturns, FinishRefused,
             Observed, ObservationFailed, ObservationDropped, CommitRefused,
             StopRunRefused, Refused
  <2>7. ASSUME UNCHANGED action PROVE FALSE
    BY <2>7, <2>1
  <2>8. \E w \in Workers : WorkerStep(w)
    BY <1>1, <2>5, <2>7
       DEF Next, Environment, Tick, Trigger, CreateRunFromWebhook, ProviderAccepts,
           ProviderRefuses, Locked, Refused, Stop, Restart, vars, ledgerVars
  <2> QED BY <2>2, <2>3, <2>4, <2>6, <2>8
<1>2. ServiceAssumption /\ SafetyInv /\ [Next]_vars =>
        [\A r \in Runs :
           (action[r].status = "IN_FLIGHT" /\ action'[r].status # "IN_FLIGHT"
             /\ head[r].expires > now) =>
                \E w \in Workers : claim[w].run = r /\ pc[w] = "finish"]_vars
  BY <1>1
<1> QED BY <1>2, SafetyCorrect, ServiceAssumption, PTL DEF Spec, LiveLeaseProtects

=============================================================================
