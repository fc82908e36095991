----------------------- MODULE ReleaseStewardRefinement -----------------------
(***************************************************************************)
(* The release steward implements the abstract life of a run, for every    *)
(* value of the constants: whatever workers, leases, versions, crashes and *)
(* zombies do, each run takes one step of ReleaseRunLifecycle at a time.   *)
(*                                                                         *)
(* A step sends a POST, keeps a run, or grows its history (RunGrowth); each *)
(* way a history grows is one disjunct of LifeStep.                        *)
(***************************************************************************)
EXTENDS ReleaseStewardHistory

\* What the run's reader sees after one more event, and after two.
Continued(r, l, h, e) ==
    LET g == Advance(h, e) IN
    [state        |-> g.state,
     code         |-> IF g.state = "STOPPED" THEN StopCode(e.signal) ELSE NoCode,
     observations |-> CountEvents(l, "observation-recorded") +
                        (IF e.type = "observation-recorded" THEN 1 ELSE 0),
     asked        |-> Prompted(l) \/ e.type = "decision-requested",
     choice       |-> DecisionChoice(Append(l, e)),
     incident     |-> action'[r].status,
     sent         |-> posts'[r]]

LEMMA LifeContinued ==
    ASSUME LedgerType', NEW r \in Runs, NEW l \in Seq(Events), NEW h \in Heads, NEW e \in Events,
           log'[r] = Append(l, e), Released(head'[r]) = Released(Advance(h, e))
    PROVE  LifeOf(r)' = Continued(r, l, h, e)
<1>1. head'[r] \in Heads /\ Advance(h, e) \in Heads
  BY AdvanceType DEF LedgerType
<1>2. head'[r].state = Advance(h, e).state
  BY <1>1, ReleasedFields
<1>3. log'[r][Len(log'[r])] = e
  BY AppendOne
<1>4. CountEvents(log'[r], "observation-recorded") =
        CountEvents(l, "observation-recorded") +
          (IF e.type = "observation-recorded" THEN 1 ELSE 0)
  BY CountAppend
<1>5. Prompted(log'[r]) = (Prompted(l) \/ e.type = "decision-requested")
  <2>1. Prompted(log'[r]) <=> (Prompted(l) \/ e.type = "decision-requested")
    BY PromptedAppend
  <2>2. Prompted(log'[r]) \in BOOLEAN
    BY DEF Prompted
  <2> QED BY <2>1, <2>2
<1> QED BY <1>2, <1>3, <1>4, <1>5 DEF LifeOf, Continued

\* A run that keeps its tables keeps its life.
LEMMA LifeKept ==
    ASSUME LedgerType, LedgerType', NEW r \in Runs, Kept(r), posts'[r] = posts[r]
    PROVE  LifeOf(r)' = LifeOf(r)
<1>0. head[r] \in Heads /\ head'[r] \in Heads
  BY DEF LedgerType
<1>1. head'[r].state = head[r].state
  BY <1>0, ReleasedFields DEF Kept
<1> QED BY <1>1 DEF LifeOf, Kept

\* A POST is the one step of a life that is none of the ledger.
LEMMA SendPostLives ==
    ASSUME SafetyInv, NEW w \in Workers, SendPost(w), NEW r \in Runs
    PROVE  LifeOf(r)' = LifeOf(r) \/ Lifecycle!Sent(LifeOf(r), LifeOf(r)')
<1>0. /\ posts \in [Runs -> Nat] /\ claim[w].run \in Runs
      /\ action[r] \in Actions /\ issues[r] \in Nat /\ refusals[r] \in Nat
  BY DEF SafetyInv, TypeInv, LedgerType, WorkerType, SendPost
<1>1. /\ head' = head /\ log' = log /\ action' = action
      /\ posts' = [posts EXCEPT ![claim[w].run] = @ + 1]
  BY DEF SendPost, ledgerVars
<1>2. CASE claim[w].run # r
  <2>1. posts'[r] = posts[r]
    BY <1>0, <1>1, <1>2
  <2> QED BY <1>1, <2>1 DEF LifeOf
<1>3. CASE claim[w].run = r
  <2>1. action[r].attempts = 1 /\ posts[r] = 0
    BY <1>3 DEF SafetyInv, EffectInv, SendPost
  <2>2. action[r].status \in {"IN_FLIGHT", "UNCERTAIN"}
    <3>1. /\ action[r].status \in ActionStatuses
          /\ action[r].attempts = IF action[r].status \in {"NONE", "RESERVED"} THEN 0 ELSE 1
          /\ issues[r] + refusals[r] <= posts[r]
          /\ action[r].status = "CONFIRMED" => issues[r] > 0
          /\ action[r].status = "REJECTED" => refusals[r] > 0
      BY <1>0 DEF SafetyInv, TablesInv, RunInv, EffectInv, Actions
    <3> QED BY <1>0, <2>1, <3>1 DEF ActionStatuses
  <2>3. posts'[r] = 1
    BY <1>0, <1>1, <1>3, <2>1
  <2>4. LifeOf(r)' = [LifeOf(r) EXCEPT !.sent = 1]
    BY <1>1, <2>3 DEF LifeOf
  <2>5. LifeOf(r).incident \in {"IN_FLIGHT", "UNCERTAIN"} /\ LifeOf(r).sent = 0
    BY <2>1, <2>2 DEF LifeOf
  <2> QED BY <2>4, <2>5 DEF Lifecycle!Sent
<1> QED BY <1>2, <1>3

\* No other step sends one.
LEMMA PostsKept ==
    ASSUME TypeInv, [Next]_vars
    PROVE  posts' = posts \/ \E w \in Workers : SendPost(w)
<1>1. ASSUME NEW w \in Workers, WorkerStep(w) PROVE posts' = posts \/ SendPost(w)
  BY <1>1
     DEF WorkerStep, StartTick, Recover, NothingDue, ReadClaim, ClaimDue, Wake, WakeRefused, Expire,
         ExpireRefused, Begin, BeginRefused, IncidentReturns, Finish, FinishRefused,
         Observed, ObservationFailed, ObservationDropped, Commit, CommitRefused, StopRun,
         StopRunRefused, Refused, providerVars
<1>2. CASE Environment
  BY <1>2 DEF Environment, Tick, Trigger, Submit, ProviderAccepts, ProviderRefuses, providerVars
<1>3. ASSUME NEW w \in Workers, Locked(w) \/ Stop(w) \/ Restart(w) PROVE posts' = posts
  BY <1>3 DEF Locked, Stop, Restart, Refused, providerVars
<1>4. CASE UNCHANGED vars
  BY <1>4 DEF vars, providerVars
<1> QED BY <1>1, <1>2, <1>3, <1>4 DEF Next

-----------------------------------------------------------------------------
(* Each way a history grows is a step of the life.                         *)

\* The kernel of the two levels is the same.
LEMMA SameKernel ==
    /\ \A signal : Lifecycle!Target(signal) = Target(signal)
    /\ \A signal : Lifecycle!StopCode(signal) = StopCode(signal)
    /\ Lifecycle!ObservationStops = ObservationStops
    /\ Lifecycle!NoState = NoState /\ Lifecycle!NoCode = NoCode
<1>1. \A signal : Lifecycle!Target(signal) = Target(signal)
  BY DEF Lifecycle!Target, Target
<1>2. Lifecycle!NoState = NoState /\ Lifecycle!NoCode = NoCode
      /\ Lifecycle!ObservationStops = ObservationStops
  BY DEF Lifecycle!NoState, NoState, Lifecycle!NoCode, NoCode,
         Lifecycle!ObservationStops, ObservationStops
<1>3. \A signal : Lifecycle!StopCode(signal) = StopCode(signal)
  BY <1>1, <1>2, Zenon DEF Lifecycle!StopCode, StopCode
<1> QED BY <1>1, <1>2, <1>3

\* A life by its fields.
LifeRecord(state, code, observations, asked, choice, incident, sent) ==
    [state |-> state, code |-> code, observations |-> observations, asked |-> asked,
     choice |-> choice, incident |-> incident, sent |-> sent]

\* The steps of a life, field by field.
LEMMA WokenIs ==
    ASSUME NEW c, NEW n, NEW k, NEW d, NEW i, NEW p
    PROVE  Lifecycle!Woken(LifeRecord("WAITING", c, n, k, d, i, p),
                           LifeRecord("MONITORING", c, n, k, d, i, p))
<1> DEFINE a == LifeRecord("WAITING", c, n, k, d, i, p)
<1>1. [a EXCEPT !.state = "MONITORING"] = LifeRecord("MONITORING", c, n, k, d, i, p)
  BY DEF LifeRecord
<1>2. a.state = "WAITING"
  BY DEF LifeRecord
<1> HIDE DEF a
<1> QED BY <1>1, <1>2 DEF a, Lifecycle!Woken

LEMMA AttemptedIs ==
    ASSUME NEW s, NEW c, NEW n, NEW k, NEW d, NEW p
    PROVE  Lifecycle!Attempted(LifeRecord(s, c, n, k, d, "RESERVED", p),
                               LifeRecord(s, c, n, k, d, "IN_FLIGHT", p))
<1> DEFINE a == LifeRecord(s, c, n, k, d, "RESERVED", p)
<1>1. [a EXCEPT !.incident = "IN_FLIGHT"] = LifeRecord(s, c, n, k, d, "IN_FLIGHT", p)
  BY DEF LifeRecord
<1>2. a.incident = "RESERVED"
  BY DEF LifeRecord
<1> HIDE DEF a
<1> QED BY <1>1, <1>2 DEF a, Lifecycle!Attempted

LEMMA WaitedIs ==
    ASSUME NEW c, NEW n, NEW k, NEW d, NEW i, NEW p, ~ k, n + 1 < NormalObservations
    PROVE  Lifecycle!Waited(LifeRecord("MONITORING", c, n, k, d, i, p),
                            LifeRecord("WAITING", c, n + 1, k, d, i, p))
<1> DEFINE a == LifeRecord("MONITORING", c, n, k, d, i, p)
<1>1. [a EXCEPT !.state = "WAITING"] = LifeRecord("WAITING", c, n, k, d, i, p)
  BY DEF LifeRecord
<1>2. [LifeRecord("WAITING", c, n, k, d, i, p) EXCEPT !.observations = @ + 1]
        = LifeRecord("WAITING", c, n + 1, k, d, i, p)
  BY DEF LifeRecord
<1>3. [a EXCEPT !.state = "WAITING", !.observations = @ + 1]
        = [[a EXCEPT !.state = "WAITING"] EXCEPT !.observations = @ + 1]
  BY DEF LifeRecord
<1>4. a.state = "MONITORING" /\ a.observations = n /\ a.asked = k
  BY DEF LifeRecord
<1> HIDE DEF a
<1> QED BY <1>1, <1>2, <1>3, <1>4 DEF a, Lifecycle!Waited

WithState(a, x) == [a EXCEPT !.state = x]

LEMMA StateChange ==
    ASSUME NEW s, NEW c, NEW n, NEW k, NEW d, NEW i, NEW p, NEW x
    PROVE  WithState(LifeRecord(s, c, n, k, d, i, p), x) = LifeRecord(x, c, n, k, d, i, p)
BY DEF WithState, LifeRecord

WithPrompt(a, x) ==
    [a EXCEPT !.state = "AWAITING_DECISION", !.observations = @ + 1, !.asked = x]

LEMMA PromptChange ==
    ASSUME NEW s, NEW c, NEW n, NEW k, NEW d, NEW i, NEW p, NEW x
    PROVE  WithPrompt(LifeRecord(s, c, n, k, d, i, p), x)
             = LifeRecord("AWAITING_DECISION", c, n + 1, x, d, i, p)
<1> DEFINE a == LifeRecord(s, c, n, k, d, i, p)
<1>1. [a EXCEPT !.state = "AWAITING_DECISION"]
        = LifeRecord("AWAITING_DECISION", c, n, k, d, i, p)
  BY DEF LifeRecord
<1>2. [LifeRecord("AWAITING_DECISION", c, n, k, d, i, p) EXCEPT !.observations = @ + 1]
        = LifeRecord("AWAITING_DECISION", c, n + 1, k, d, i, p)
  BY DEF LifeRecord
<1>3. [LifeRecord("AWAITING_DECISION", c, n + 1, k, d, i, p) EXCEPT !.asked = x]
        = LifeRecord("AWAITING_DECISION", c, n + 1, x, d, i, p)
  BY DEF LifeRecord
<1>4. WithPrompt(a, x) = [[[a EXCEPT !.state = "AWAITING_DECISION"]
                            EXCEPT !.observations = @ + 1] EXCEPT !.asked = x]
  BY DEF WithPrompt, LifeRecord
<1> HIDE DEF a
<1> QED BY <1>1, <1>2, <1>3, <1>4 DEF a

LEMMA ConcludedIs ==
    ASSUME NEW c, NEW n, NEW k, NEW d, NEW i, NEW p, NEW signal, 
           signal \in IF k THEN {"EXTENSION_READY", "EXTENSION_EXHAUSTED"}
                     ELSE {"CANDIDATE_READY"} \cup
                          (IF n = 0 THEN {"EVIDENCE_INVALID", "REQUIRED_CI_FAILED"} ELSE {})
    PROVE  Lifecycle!Concluded(LifeRecord("MONITORING", c, n, k, d, i, p),
                               LifeRecord(Target(signal), StopCode(signal), n + 1, k, d, i, p))
<1> DEFINE a == LifeRecord("MONITORING", c, n, k, d, i, p)
<1>1. [a EXCEPT !.state = Target(signal)] = LifeRecord(Target(signal), c, n, k, d, i, p)
  BY DEF LifeRecord
<1>2. [LifeRecord(Target(signal), c, n, k, d, i, p) EXCEPT !.code = StopCode(signal)]
        = LifeRecord(Target(signal), StopCode(signal), n, k, d, i, p)
  BY DEF LifeRecord
<1>3. [LifeRecord(Target(signal), StopCode(signal), n, k, d, i, p) EXCEPT !.observations = @ + 1]
        = LifeRecord(Target(signal), StopCode(signal), n + 1, k, d, i, p)
  BY DEF LifeRecord
<1>4. [a EXCEPT !.state = Target(signal), !.code = StopCode(signal), !.observations = @ + 1]
        = [[[a EXCEPT !.state = Target(signal)] EXCEPT !.code = StopCode(signal)] EXCEPT !.observations = @ + 1]
  BY DEF LifeRecord
<1>5. a.state = "MONITORING" /\ a.observations = n /\ a.asked = k
  BY DEF LifeRecord
<1> HIDE DEF a
<1> QED BY <1>1, <1>2, <1>3, <1>4, <1>5, SameKernel DEF a, Lifecycle!Concluded

LEMMA FailedIs ==
    ASSUME NEW c, NEW n, NEW k, NEW d, NEW i, NEW p, NEW code, code \in ObservationStops \ {"REQUIRED_CI_FAILED"}
    PROVE  Lifecycle!Failed(LifeRecord("MONITORING", c, n, k, d, i, p),
                            LifeRecord("STOPPED", code, n, k, d, i, p))
<1> DEFINE a == LifeRecord("MONITORING", c, n, k, d, i, p)
<1>1. [a EXCEPT !.state = "STOPPED"] = LifeRecord("STOPPED", c, n, k, d, i, p)
  BY DEF LifeRecord
<1>2. [LifeRecord("STOPPED", c, n, k, d, i, p) EXCEPT !.code = code]
        = LifeRecord("STOPPED", code, n, k, d, i, p)
  BY DEF LifeRecord
<1>3. [a EXCEPT !.state = "STOPPED", !.code = code]
        = [[a EXCEPT !.state = "STOPPED"] EXCEPT !.code = code]
  BY DEF LifeRecord
<1>4. a.state = "MONITORING"
  BY DEF LifeRecord
<1> HIDE DEF a
<1> QED BY <1>1, <1>2, <1>3, <1>4, SameKernel DEF a, Lifecycle!Failed

LEMMA ExpiredIs ==
    ASSUME NEW c, NEW n, NEW k, NEW d, NEW i, NEW p
    PROVE  Lifecycle!Expired(LifeRecord("AWAITING_DECISION", c, n, k, d, i, p),
                             LifeRecord("STOPPED", "DECISION_EXPIRED", n, k, d, i, p))
<1> DEFINE a == LifeRecord("AWAITING_DECISION", c, n, k, d, i, p)
<1>1. [a EXCEPT !.state = "STOPPED"] = LifeRecord("STOPPED", c, n, k, d, i, p)
  BY DEF LifeRecord
<1>2. [LifeRecord("STOPPED", c, n, k, d, i, p) EXCEPT !.code = "DECISION_EXPIRED"]
        = LifeRecord("STOPPED", "DECISION_EXPIRED", n, k, d, i, p)
  BY DEF LifeRecord
<1>3. [a EXCEPT !.state = "STOPPED", !.code = "DECISION_EXPIRED"]
        = [[a EXCEPT !.state = "STOPPED"] EXCEPT !.code = "DECISION_EXPIRED"]
  BY DEF LifeRecord
<1>4. a.state = "AWAITING_DECISION"
  BY DEF LifeRecord
<1> HIDE DEF a
<1> QED BY <1>1, <1>2, <1>3, <1>4 DEF a, Lifecycle!Expired

LEMMA DecidedToWaitIs ==
    ASSUME NEW c, NEW n, NEW k, NEW d, NEW i, NEW p
    PROVE  Lifecycle!Decided(LifeRecord("AWAITING_DECISION", c, n, k, d, i, p),
                             LifeRecord("WAITING", c, n, k, "WAIT_AND_RECHECK", i, p))
<1> DEFINE a == LifeRecord("AWAITING_DECISION", c, n, k, d, i, p)
<1>1. [a EXCEPT !.state = "WAITING"] = LifeRecord("WAITING", c, n, k, d, i, p)
  BY DEF LifeRecord
<1>2. [LifeRecord("WAITING", c, n, k, d, i, p) EXCEPT !.choice = "WAIT_AND_RECHECK"]
        = LifeRecord("WAITING", c, n, k, "WAIT_AND_RECHECK", i, p)
  BY DEF LifeRecord
<1>3. [a EXCEPT !.state = "WAITING", !.choice = "WAIT_AND_RECHECK"]
        = [[a EXCEPT !.state = "WAITING"] EXCEPT !.choice = "WAIT_AND_RECHECK"]
  BY DEF LifeRecord
<1>4. a.state = "AWAITING_DECISION"
  BY DEF LifeRecord
<1> HIDE DEF a
<1> QED BY <1>1, <1>2, <1>3, <1>4 DEF a, Lifecycle!Decided

LEMMA DecidedToEscalateIs ==
    ASSUME NEW c, NEW n, NEW k, NEW d, NEW i, NEW p
    PROVE  Lifecycle!Decided(LifeRecord("AWAITING_DECISION", c, n, k, d, i, p),
                             LifeRecord("RESUMING", c, n, k, "ESCALATE_INCIDENT", "RESERVED", p))
<1> DEFINE a == LifeRecord("AWAITING_DECISION", c, n, k, d, i, p)
<1>1. [a EXCEPT !.state = "RESUMING"] = LifeRecord("RESUMING", c, n, k, d, i, p)
  BY DEF LifeRecord
<1>2. [LifeRecord("RESUMING", c, n, k, d, i, p) EXCEPT !.choice = "ESCALATE_INCIDENT"]
        = LifeRecord("RESUMING", c, n, k, "ESCALATE_INCIDENT", i, p)
  BY DEF LifeRecord
<1>3. [LifeRecord("RESUMING", c, n, k, "ESCALATE_INCIDENT", i, p) EXCEPT !.incident = "RESERVED"]
        = LifeRecord("RESUMING", c, n, k, "ESCALATE_INCIDENT", "RESERVED", p)
  BY DEF LifeRecord
<1>4. [a EXCEPT !.state = "RESUMING", !.choice = "ESCALATE_INCIDENT", !.incident = "RESERVED"]
        = [[[a EXCEPT !.state = "RESUMING"] EXCEPT !.choice = "ESCALATE_INCIDENT"] EXCEPT !.incident = "RESERVED"]
  BY DEF LifeRecord
<1>5. a.state = "AWAITING_DECISION"
  BY DEF LifeRecord
<1> HIDE DEF a
<1> QED BY <1>1, <1>2, <1>3, <1>4, <1>5 DEF a, Lifecycle!Decided

LEMMA ConfirmedIs ==
    ASSUME NEW s, NEW c, NEW n, NEW k, NEW d
    PROVE  Lifecycle!Settled(LifeRecord(s, c, n, k, d, "IN_FLIGHT", 1),
                             LifeRecord("ESCALATED", c, n, k, d, "CONFIRMED", 1))
<1> DEFINE a == LifeRecord(s, c, n, k, d, "IN_FLIGHT", 1)
<1>1. [a EXCEPT !.state = "ESCALATED"] = LifeRecord("ESCALATED", c, n, k, d, "IN_FLIGHT", 1)
  BY DEF LifeRecord
<1>2. [LifeRecord("ESCALATED", c, n, k, d, "IN_FLIGHT", 1) EXCEPT !.incident = "CONFIRMED"]
        = LifeRecord("ESCALATED", c, n, k, d, "CONFIRMED", 1)
  BY DEF LifeRecord
<1>3. [a EXCEPT !.state = "ESCALATED", !.incident = "CONFIRMED"]
        = [[a EXCEPT !.state = "ESCALATED"] EXCEPT !.incident = "CONFIRMED"]
  BY DEF LifeRecord
<1>4. a.incident = "IN_FLIGHT" /\ a.sent = 1
  BY DEF LifeRecord
<1> HIDE DEF a
<1> QED BY <1>1, <1>2, <1>3, <1>4 DEF a, Lifecycle!Settled

LEMMA RejectedIs ==
    ASSUME NEW s, NEW c, NEW n, NEW k, NEW d
    PROVE  Lifecycle!Settled(LifeRecord(s, c, n, k, d, "IN_FLIGHT", 1),
                             LifeRecord("STOPPED", "ACTION_REJECTED", n, k, d, "REJECTED", 1))
<1> DEFINE a == LifeRecord(s, c, n, k, d, "IN_FLIGHT", 1)
<1>1. [a EXCEPT !.state = "STOPPED"] = LifeRecord("STOPPED", c, n, k, d, "IN_FLIGHT", 1)
  BY DEF LifeRecord
<1>2. [LifeRecord("STOPPED", c, n, k, d, "IN_FLIGHT", 1) EXCEPT !.incident = "REJECTED"]
        = LifeRecord("STOPPED", c, n, k, d, "REJECTED", 1)
  BY DEF LifeRecord
<1>3. [LifeRecord("STOPPED", c, n, k, d, "REJECTED", 1) EXCEPT !.code = "ACTION_REJECTED"]
        = LifeRecord("STOPPED", "ACTION_REJECTED", n, k, d, "REJECTED", 1)
  BY DEF LifeRecord
<1>4. [a EXCEPT !.state = "STOPPED", !.incident = "REJECTED", !.code = "ACTION_REJECTED"]
        = [[[a EXCEPT !.state = "STOPPED"] EXCEPT !.incident = "REJECTED"] EXCEPT !.code = "ACTION_REJECTED"]
  BY DEF LifeRecord
<1>5. a.incident = "IN_FLIGHT" /\ a.sent = 1
  BY DEF LifeRecord
<1> HIDE DEF a
<1> QED BY <1>1, <1>2, <1>3, <1>4, <1>5 DEF a, Lifecycle!Settled

LEMMA UncertainIs ==
    ASSUME NEW s, NEW c, NEW n, NEW k, NEW d, NEW p
    PROVE  Lifecycle!Settled(LifeRecord(s, c, n, k, d, "IN_FLIGHT", p),
                             LifeRecord("STOPPED", "ACTION_OUTCOME_UNCERTAIN", n, k, d, "UNCERTAIN", p))
<1> DEFINE a == LifeRecord(s, c, n, k, d, "IN_FLIGHT", p)
<1>1. [a EXCEPT !.state = "STOPPED"] = LifeRecord("STOPPED", c, n, k, d, "IN_FLIGHT", p)
  BY DEF LifeRecord
<1>2. [LifeRecord("STOPPED", c, n, k, d, "IN_FLIGHT", p) EXCEPT !.incident = "UNCERTAIN"]
        = LifeRecord("STOPPED", c, n, k, d, "UNCERTAIN", p)
  BY DEF LifeRecord
<1>3. [LifeRecord("STOPPED", c, n, k, d, "UNCERTAIN", p) EXCEPT !.code = "ACTION_OUTCOME_UNCERTAIN"]
        = LifeRecord("STOPPED", "ACTION_OUTCOME_UNCERTAIN", n, k, d, "UNCERTAIN", p)
  BY DEF LifeRecord
<1>4. [a EXCEPT !.state = "STOPPED", !.incident = "UNCERTAIN", !.code = "ACTION_OUTCOME_UNCERTAIN"]
        = [[[a EXCEPT !.state = "STOPPED"] EXCEPT !.incident = "UNCERTAIN"] EXCEPT !.code = "ACTION_OUTCOME_UNCERTAIN"]
  BY DEF LifeRecord
<1>5. a.incident = "IN_FLIGHT"
  BY DEF LifeRecord
<1> HIDE DEF a
<1> QED BY <1>1, <1>2, <1>3, <1>4, <1>5 DEF a, Lifecycle!Settled

CodeAfter(state, signal) == IF state = "STOPPED" THEN StopCode(signal) ELSE NoCode

LEMMA UnstoppedCode ==
    ASSUME NEW signal, Target(signal) # "STOPPED"
    PROVE  StopCode(signal) = NoCode
<1>1. signal # "ACTION_UNCERTAIN"
  BY KernelTargets
<1> QED BY <1>1 DEF StopCode

\* One event that is neither an observation nor a prompt.
LEMMA AfterOne ==
    ASSUME LedgerType, LedgerType', NEW r \in Runs, NEW e, Extends(r, e), posts'[r] = posts[r],
           e.type \notin {"observation-recorded", "decision-requested"}
    PROVE  LET state == Advance(head[r], e).state IN
           LifeOf(r)' = LifeRecord(state, CodeAfter(state, e.signal), ObservationsOf(r),
                                   Prompted(log[r]), DecisionChoice(Append(log[r], e)),
                                   action'[r].status, posts[r])
<1>1. /\ log[r] \in Seq(Events) /\ head[r] \in Heads /\ e \in Events
      /\ log'[r] = Append(log[r], e) /\ Released(head'[r]) = Released(Advance(head[r], e))
  BY DEF LedgerType, Extends
<1>2. LifeOf(r)' = Continued(r, log[r], head[r], e)
  BY <1>1, LifeContinued
<1>3. CountEvents(log[r], "observation-recorded") + 0 = CountEvents(log[r], "observation-recorded")
  BY <1>1, CountType
<1>4. (Prompted(log[r]) \/ e.type = "decision-requested") = Prompted(log[r])
  BY DEF Prompted
<1>5. CountEvents(log[r], "observation-recorded") +
        (IF e.type = "observation-recorded" THEN 1 ELSE 0) = ObservationsOf(r)
  BY <1>3 DEF ObservationsOf
<1> QED BY <1>2, <1>4, <1>5 DEF Continued, CodeAfter, LifeRecord

\* An observation and the event that follows it.
LEMMA AfterObservation ==
    ASSUME LedgerType, LedgerType', NEW r \in Runs, NEW e, NEW f, ExtendsTwice(r, e, f),
           posts'[r] = posts[r], action'[r] = action[r], e.type = "observation-recorded",
           f.type \notin {"observation-recorded", "decision-recorded"}
    PROVE  LET state == Advance(Advance(head[r], e), f).state IN
           LifeOf(r)' = LifeRecord(state, CodeAfter(state, f.signal), ObservationsOf(r) + 1,
                                   Prompted(log[r]) \/ f.type = "decision-requested",
                                   DecisionChoice(log[r]), action[r].status, posts[r])
<1> DEFINE m == Append(log[r], e)  g == Advance(head[r], e)
<1>1. /\ log[r] \in Seq(Events) /\ head[r] \in Heads /\ e \in Events /\ f \in Events
      /\ log'[r] = Append(m, f) /\ Released(head'[r]) = Released(Advance(g, f))
  BY DEF LedgerType, ExtendsTwice
<1>2. m \in Seq(Events) /\ g \in Heads
  BY <1>1, AppendOne, AdvanceType
<1>3. LifeOf(r)' = Continued(r, m, g, f)
  <2> HIDE DEF m, g
  <2> QED BY <1>1, <1>2, LifeContinued
<1>4. /\ CountEvents(m, "observation-recorded") = ObservationsOf(r) + 1
      /\ CountEvents(m, "observation-recorded") + 0 = CountEvents(m, "observation-recorded")
  BY <1>1, <1>2, CountAppend, CountType DEF ObservationsOf
<1>5. Prompted(m) = Prompted(log[r])
  <2>1. Prompted(m) <=> Prompted(log[r])
    BY <1>1, PromptedAppend
  <2> QED BY <2>1 DEF Prompted
<1>6. DecisionChoice(Append(m, f)) = DecisionChoice(log[r])
  BY <1>1, <1>2, ChoiceAppend
<1> HIDE DEF m, g
<1>7. Continued(r, m, g, f) =
        LifeRecord(Advance(g, f).state, CodeAfter(Advance(g, f).state, f.signal),
                   ObservationsOf(r) + 1, Prompted(log[r]) \/ f.type = "decision-requested",
                   DecisionChoice(log[r]), action[r].status, posts[r])
  BY <1>4, <1>5, <1>6 DEF Continued, CodeAfter, LifeRecord
<1> QED BY <1>3, <1>7 DEF m, g

\* The life of a run that has not stopped.
LEMMA LifeUnstopped ==
    ASSUME NEW r \in Runs, head[r].state # "STOPPED"
    PROVE  LifeOf(r) = LifeRecord(head[r].state, NoCode, ObservationsOf(r), Prompted(log[r]),
                                  DecisionChoice(log[r]), action[r].status, posts[r])
BY DEF LifeOf, ObservationsOf, LifeRecord

LivesOn(r) == Lifecycle!LifeStep(LifeOf(r), LifeOf(r)')

LEMMA TriggerLives ==
    ASSUME SafetyInv, TypeInv', NEW r \in Runs, RunHistory(r), posts'[r] = posts[r], Triggers(r)
    PROVE  LivesOn(r)
<1> DEFINE e == Event("release-triggered", "TRIGGER_ACCEPTED", now, None)
<1>0. /\ LedgerType /\ LedgerType' /\ log[r] \in Seq(Events) /\ head[r] \in Heads
      /\ posts[r] \in Nat /\ action[r] \in Actions
  BY DEF SafetyInv, TypeInv, LedgerType, WorkerType
<1>1. /\ Extends(r, e) /\ e \in Events /\ head[r].state = NoState /\ action'[r] = action[r]
      /\ e.type = "release-triggered" /\ e.signal = "TRIGGER_ACCEPTED"
  BY DEF Triggers, LedgerBeside, Exists, Extends, Event
<1>2. log[r] = <<>>
  BY <1>1 DEF RunHistory, Story, History, Numbered
<1>3. /\ ~ Prompted(log[r]) /\ ~ Authorized(log[r]) /\ ObservationsOf(r) = 0
  <2>1. \A type : EventsOf(log[r], type) = {}
    BY <1>2 DEF EventsOf
  <2> QED BY <2>1, FS_EmptySet DEF Prompted, Authorized, ObservationsOf, CountEvents
<1>4. DecisionChoice(log[r]) = "NONE" /\ DecisionChoice(Append(log[r], e)) = "NONE"
  BY <1>0, <1>1, <1>3, ChoiceAppend
<1>5. action[r].status = "NONE"
  BY <1>4 DEF RunHistory, Planned
<1>6. posts[r] = 0
  <2>1. posts[r] <= action[r].attempts
        /\ action[r].attempts = IF action[r].status \in {"NONE", "RESERVED"} THEN 0 ELSE 1
    BY DEF SafetyInv, EffectInv, TablesInv, RunInv
  <2> QED BY <1>0, <1>5, <2>1
<1>7. Advance(head[r], e).state = "MONITORING"
  BY <1>0, <1>1, AdvanceFields, KernelTargets DEF NoSignal
<1>8. Prompted(log[r]) = FALSE
  BY <1>3 DEF Prompted
<1>9. LifeOf(r) = LifeRecord(NoState, NoCode, 0, Prompted(log[r]), "NONE", "NONE", 0)
  BY <1>1, <1>3, <1>4, <1>5, <1>6, LifeUnstopped DEF NoState
<1>10. LifeOf(r) = Lifecycle!Unlived
  BY <1>8, <1>9, SameKernel DEF Lifecycle!Unlived, LifeRecord
<1>11. LifeOf(r)' = LifeRecord("MONITORING", NoCode, 0, Prompted(log[r]), "NONE", "NONE", 0)
  <2> HIDE DEF e
  <2> QED BY <1>0, <1>1, <1>3, <1>4, <1>5, <1>6, <1>7, AfterOne DEF CodeAfter
<1>12. LifeOf(r)' = [LifeOf(r) EXCEPT !.state = "MONITORING"]
  <2>1. LifeOf(r)' = WithState(LifeOf(r), "MONITORING")
    BY <1>9, <1>11, StateChange
  <2> QED BY <2>1 DEF WithState
<1> QED BY <1>10, <1>12 DEF LivesOn, Lifecycle!LifeStep, Lifecycle!Triggered

\* What an observation and its event say of the states.
LEMMA ObservedRows ==
    ASSUME LedgerType, NEW r \in Runs, NEW e, NEW f, ExtendsTwice(r, e, f),
           e.type = "observation-recorded", f.signal # NoSignal
    PROVE  /\ head[r].state = "MONITORING"
           /\ Advance(Advance(head[r], e), f).state = Target(f.signal)
<1>1. /\ head[r] \in Heads /\ e \in Events /\ f \in Events /\ log[r] \in Seq(Events)
      /\ Permitted(head[r], log[r], e)
  BY DEF LedgerType, ExtendsTwice
<1>2. Advance(head[r], e) \in Heads
  BY <1>1, AdvanceType
<1> QED BY <1>1, <1>2, AdvanceFields DEF Permitted

LEMMA WaitLives ==
    ASSUME LedgerType, LedgerType', NEW r \in Runs, posts'[r] = posts[r], NEW t, WaitsAgain(r, t)
    PROVE  LivesOn(r)
<1> DEFINE e == Seen(t)  f == Event("wait-scheduled", "NORMAL_WAIT_REQUIRED", t, t + Delay)
<1>1. /\ ExtendsTwice(r, e, f) /\ action'[r] = action[r] /\ ~ Prompted(log[r])
      /\ ObservationsOf(r) + 1 < NormalObservations
      /\ e.type = "observation-recorded" /\ f.type = "wait-scheduled"
      /\ f.signal = "NORMAL_WAIT_REQUIRED"
  BY DEF WaitsAgain, LedgerBeside, Seen, Event
<1> HIDE DEF e, f
<1>2. head[r].state = "MONITORING" /\ Advance(Advance(head[r], e), f).state = "WAITING"
  BY <1>1, ObservedRows, KernelTargets DEF NoSignal
<1>3. (Prompted(log[r]) \/ f.type = "decision-requested") = Prompted(log[r])
  BY <1>1 DEF Prompted
<1>4. LifeOf(r) = LifeRecord("MONITORING", NoCode, ObservationsOf(r), Prompted(log[r]),
                             DecisionChoice(log[r]), action[r].status, posts[r])
  BY <1>2, <1>3, LifeUnstopped
<1>5. LifeOf(r)' = LifeRecord("WAITING", NoCode, ObservationsOf(r) + 1, Prompted(log[r]),
                              DecisionChoice(log[r]), action[r].status, posts[r])
  BY <1>1, <1>2, <1>3, AfterObservation DEF CodeAfter
<1> QED BY <1>1, <1>4, <1>5, WaitedIs DEF LivesOn, Lifecycle!LifeStep

LEMMA AskLives ==
    ASSUME LedgerType, LedgerType', NEW r \in Runs, RunHistory(r), posts'[r] = posts[r],
           NEW t, Asks(r, t)
    PROVE  LivesOn(r)
<1> DEFINE e == Seen(t)
           f == Event("decision-requested", "OBSERVATION_BUDGET_EXHAUSTED", t, t + DecisionTTL)
<1>1. /\ ExtendsTwice(r, e, f) /\ action'[r] = action[r] /\ ~ Prompted(log[r])
      /\ ObservationsOf(r) + 1 >= NormalObservations
      /\ e.type = "observation-recorded" /\ f.type = "decision-requested"
      /\ f.signal = "OBSERVATION_BUDGET_EXHAUSTED"
  BY DEF Asks, LedgerBeside, Seen, Event
<1> DEFINE yes == Prompted(log[r]) \/ f.type = "decision-requested"
<1> HIDE DEF e, f
<1>2. head[r].state = "MONITORING"
      /\ Advance(Advance(head[r], e), f).state = "AWAITING_DECISION"
  BY <1>1, ObservedRows, KernelTargets DEF NoSignal
<1>3. yes = TRUE
  BY <1>1
<1>4. LifeOf(r) = LifeRecord("MONITORING", NoCode, ObservationsOf(r), Prompted(log[r]),
                             DecisionChoice(log[r]), action[r].status, posts[r])
  BY <1>2, <1>3, LifeUnstopped
<1>5. LifeOf(r)' = LifeRecord("AWAITING_DECISION", NoCode, ObservationsOf(r) + 1, yes,
                              DecisionChoice(log[r]), action[r].status, posts[r])
  BY <1>1, <1>2, AfterObservation DEF CodeAfter
<1>7. ObservationsOf(r) + 1 = NormalObservations
  <2>1. log[r] \in Seq(Events) /\ Budgeted(log[r], head[r])
    BY DEF LedgerType, RunHistory, Story
  <2>2. ObservationsOf(r) \in Nat /\ NormalObservations \in Nat
    BY <2>1, CountType, ServiceAssumption DEF ServiceAssumption, ObservationsOf
  <2>3. ObservationsOf(r) < NormalObservations
    BY <1>1, <1>2, <2>1 DEF Budgeted, ObservationsOf
  <2> QED BY <1>1, <2>2, <2>3
<1> HIDE DEF yes
<1>8. LifeOf(r)' = WithPrompt(LifeOf(r), yes)
  BY <1>4, <1>5, PromptChange
<1>9. LifeOf(r)' = WithPrompt(LifeOf(r), TRUE)
  BY <1>3, <1>8, Zenon
<1>10. /\ LifeOf(r).state = "MONITORING" /\ LifeOf(r).observations = ObservationsOf(r)
       /\ LifeOf(r).asked = Prompted(log[r])
  BY <1>4 DEF LifeRecord
<1> QED
  BY <1>1, <1>7, <1>9, <1>10 DEF LivesOn, Lifecycle!LifeStep, Lifecycle!Asked, WithPrompt

LEMMA ConcludeLives ==
    ASSUME LedgerType, LedgerType', NEW r \in Runs, posts'[r] = posts[r],
           NEW signal, NEW t, Concludes(r, signal, t)
    PROVE  LivesOn(r)
<1>1. PICK type \in {"run-completed", "run-stopped"} :
         ExtendsTwice(r, Seen(t), Event(type, signal, t, None))
  BY DEF Concludes
<1> DEFINE e == Seen(t)  f == Event(type, signal, t, None)
<1>2. /\ ExtendsTwice(r, e, f) /\ action'[r] = action[r] /\ signal \in Verdicts(r)
      /\ e.type = "observation-recorded" /\ f.type \in {"run-completed", "run-stopped"}
      /\ f.signal = signal
  BY <1>1 DEF Concludes, LedgerBeside, Seen, Event
<1> HIDE DEF e, f
<1>3. signal # NoSignal
  BY <1>2 DEF Verdicts, NoSignal
<1>4. head[r].state = "MONITORING" /\ Advance(Advance(head[r], e), f).state = Target(signal)
  BY <1>2, <1>3, ObservedRows
<1>5. CodeAfter(Target(signal), signal) = StopCode(signal)
  BY UnstoppedCode DEF CodeAfter
<1>6. (Prompted(log[r]) \/ f.type = "decision-requested") = Prompted(log[r])
  BY <1>2 DEF Prompted
<1>7. LifeOf(r) = LifeRecord("MONITORING", NoCode, ObservationsOf(r), Prompted(log[r]),
                             DecisionChoice(log[r]), action[r].status, posts[r])
  BY <1>4, LifeUnstopped
<1>8. LifeOf(r)' = LifeRecord(Target(signal), StopCode(signal), ObservationsOf(r) + 1,
                              Prompted(log[r]), DecisionChoice(log[r]), action[r].status,
                              posts[r])
  BY <1>2, <1>4, <1>5, <1>6, AfterObservation
<1> QED BY <1>2, <1>7, <1>8, ConcludedIs DEF LivesOn, Lifecycle!LifeStep, Verdicts

LEMMA WakeLives ==
    ASSUME LedgerType, LedgerType', NEW r \in Runs, posts'[r] = posts[r], NEW t, Wakes(r, t)
    PROVE  LivesOn(r)
<1> DEFINE e == Event("run-woke", "WAIT_DUE", t, None)
<1>1. /\ Extends(r, e) /\ action'[r] = action[r] /\ e \in Events
      /\ Permitted(head[r], log[r], e) /\ e.type = "run-woke" /\ e.signal = "WAIT_DUE"
  BY DEF Wakes, LedgerBeside, Extends, Event
<1> HIDE DEF e
<1>2. log[r] \in Seq(Events) /\ head[r] \in Heads
  BY DEF LedgerType
<1>3. head[r].state = "WAITING" /\ Advance(head[r], e).state = "MONITORING"
  BY <1>1, <1>2, PermittedRow DEF Row, ActionSignals, NoSignal, ObservationStops
<1>4. DecisionChoice(Append(log[r], e)) = DecisionChoice(log[r])
  BY <1>1, <1>2, ChoiceAppend
<1>5. LifeOf(r) = LifeRecord("WAITING", NoCode, ObservationsOf(r), Prompted(log[r]),
                             DecisionChoice(log[r]), action[r].status, posts[r])
  BY <1>3, LifeUnstopped
<1>6. LifeOf(r)' = LifeRecord("MONITORING", NoCode, ObservationsOf(r), Prompted(log[r]),
                              DecisionChoice(log[r]), action[r].status, posts[r])
  BY <1>1, <1>3, <1>4, AfterOne DEF CodeAfter
<1> QED BY <1>5, <1>6, WokenIs DEF LivesOn, Lifecycle!LifeStep

LEMMA StopLives ==
    ASSUME LedgerType, LedgerType', NEW r \in Runs, posts'[r] = posts[r],
           NEW signal, NEW t, Stops(r, signal, t)
    PROVE  LivesOn(r)
<1> DEFINE e == Event("run-stopped", signal, t, None)
<1>1. /\ Extends(r, e) /\ action'[r] = action[r] /\ e \in Events
      /\ Permitted(head[r], log[r], e) /\ e.type = "run-stopped" /\ e.signal = signal
      /\ signal \in ObservationFailures \cup {"DECISION_EXPIRED"}
  BY DEF Stops, LedgerBeside, Extends, Event
<1> HIDE DEF e
<1>2. log[r] \in Seq(Events) /\ head[r] \in Heads
  BY DEF LedgerType
<1>3. /\ Advance(head[r], e).state = "STOPPED"
      /\ signal = "DECISION_EXPIRED" => head[r].state = "AWAITING_DECISION"
      /\ signal # "DECISION_EXPIRED" => head[r].state = "MONITORING"
  <2>1. Row(e.type, e.signal, head[r].state, Advance(head[r], e).state)
    BY <1>1, <1>2, PermittedRow
  <2> QED BY <1>1, <2>1 DEF Row, ObservationStops
<1>4. DecisionChoice(Append(log[r], e)) = DecisionChoice(log[r])
  BY <1>1, <1>2, ChoiceAppend
<1>5. CodeAfter("STOPPED", signal) = signal
  <2>1. Target(signal) = "STOPPED" /\ signal # "ACTION_UNCERTAIN"
    BY <1>1, KernelTargets DEF ObservationFailures, ObservationStops
  <2> QED BY <2>1 DEF CodeAfter, StopCode
<1>6. LifeOf(r) = LifeRecord(head[r].state, NoCode, ObservationsOf(r), Prompted(log[r]),
                             DecisionChoice(log[r]), action[r].status, posts[r])
  BY <1>3, LifeUnstopped
<1>7. LifeOf(r)' = LifeRecord("STOPPED", signal, ObservationsOf(r), Prompted(log[r]),
                              DecisionChoice(log[r]), action[r].status, posts[r])
  BY <1>1, <1>3, <1>4, <1>5, AfterOne
<1>8. CASE signal = "DECISION_EXPIRED"
  BY <1>3, <1>6, <1>7, <1>8, ExpiredIs DEF LivesOn, Lifecycle!LifeStep
<1>9. CASE signal # "DECISION_EXPIRED"
  <2>1. signal \in ObservationStops \ {"REQUIRED_CI_FAILED"}
    BY <1>1, <1>9 DEF ObservationFailures, ObservationStops
  <2> QED BY <1>3, <1>6, <1>7, <1>9, <2>1, FailedIs DEF LivesOn, Lifecycle!LifeStep
<1> QED BY <1>8, <1>9

LEMMA DecisionRows ==
    ASSUME LedgerType, NEW r \in Runs, NEW e \in Events, Permitted(head[r], log[r], e),
           e.type = "decision-recorded"
    PROVE  /\ head[r].state = "AWAITING_DECISION" /\ Advance(head[r], e).state = Target(e.signal)
           /\ DecisionChoice(Append(log[r], e)) = IF e.signal = "WAIT_AND_RECHECK_AUTHORIZED"
                                                    THEN "WAIT_AND_RECHECK"
                                                    ELSE "ESCALATE_INCIDENT"
<1>1. log[r] \in Seq(Events) /\ head[r] \in Heads
  BY DEF LedgerType
<1>2. ~ Authorized(log[r])
  BY DEF Permitted, Accepts, Authorized, EventsOf
<1>3. Row(e.type, e.signal, head[r].state, Advance(head[r], e).state)
  BY <1>1, PermittedRow
<1> QED BY <1>1, <1>2, <1>3, ChoiceAppend, KernelTargets DEF Row

LEMMA DecideToWaitLives ==
    ASSUME LedgerType, LedgerType', NEW r \in Runs, posts'[r] = posts[r],
           NEW key, NEW expected, DecidesToWait(r, key, expected)
    PROVE  LivesOn(r)
<1> DEFINE e == Event("decision-recorded", "WAIT_AND_RECHECK_AUTHORIZED", now, now + Extension)
<1>1. /\ Extends(r, e) /\ action'[r] = action[r] /\ e \in Events
      /\ Permitted(head[r], log[r], e) /\ e.type = "decision-recorded"
      /\ e.signal = "WAIT_AND_RECHECK_AUTHORIZED"
  BY DEF DecidesToWait, Extends, Event
<1> HIDE DEF e
<1>2. /\ head[r].state = "AWAITING_DECISION" /\ Advance(head[r], e).state = "WAITING"
      /\ DecisionChoice(Append(log[r], e)) = "WAIT_AND_RECHECK"
  BY <1>1, DecisionRows, KernelTargets
<1>3. LifeOf(r) = LifeRecord("AWAITING_DECISION", NoCode, ObservationsOf(r), Prompted(log[r]),
                             DecisionChoice(log[r]), action[r].status, posts[r])
  BY <1>2, LifeUnstopped
<1>4. LifeOf(r)' = LifeRecord("WAITING", NoCode, ObservationsOf(r), Prompted(log[r]),
                              "WAIT_AND_RECHECK", action[r].status, posts[r])
  BY <1>1, <1>2, AfterOne DEF CodeAfter
<1> QED BY <1>3, <1>4, DecidedToWaitIs DEF LivesOn, Lifecycle!LifeStep

LEMMA DecideToEscalateLives ==
    ASSUME LedgerType, LedgerType', NEW r \in Runs, posts'[r] = posts[r],
           NEW key, NEW expected, DecidesToEscalate(r, key, expected)
    PROVE  LivesOn(r)
<1> DEFINE e == Event("decision-recorded", "ESCALATE_INCIDENT_AUTHORIZED", now, None)
           f == Event("action-reserved", NoSignal, now, None)
           m == Append(log[r], e)  g == Advance(head[r], e)
<1>1. /\ ExtendsTwice(r, e, f) /\ action'[r] = [action[r] EXCEPT !.status = "RESERVED"]
      /\ e.type = "decision-recorded" /\ e.signal = "ESCALATE_INCIDENT_AUTHORIZED"
      /\ f.type = "action-reserved" /\ f.signal = NoSignal
  BY DEF DecidesToEscalate, Event
<1> HIDE DEF e, f
<1>2. /\ e \in Events /\ f \in Events /\ Permitted(head[r], log[r], e)
      /\ log'[r] = Append(m, f) /\ Released(head'[r]) = Released(Advance(g, f))
  BY <1>1 DEF ExtendsTwice
<1>3. /\ log[r] \in Seq(Events) /\ head[r] \in Heads /\ action[r] \in Actions
      /\ m \in Seq(Events) /\ g \in Heads
  BY <1>2, AppendOne, AdvanceType DEF LedgerType
<1>4. /\ head[r].state = "AWAITING_DECISION" /\ g.state = "RESUMING"
      /\ DecisionChoice(m) = "ESCALATE_INCIDENT"
  BY <1>1, <1>2, DecisionRows, KernelTargets
<1>5. Advance(g, f).state = "RESUMING" /\ DecisionChoice(Append(m, f)) = "ESCALATE_INCIDENT"
  BY <1>1, <1>2, <1>3, <1>4, AdvanceFields, ChoiceAppend
<1>6. LifeOf(r)' = Continued(r, m, g, f)
  <2> HIDE DEF m, g
  <2> QED BY <1>2, <1>3, LifeContinued
<1>7. CountEvents(m, "observation-recorded") + 0 = ObservationsOf(r)
  <2>1. CountEvents(m, "observation-recorded") = ObservationsOf(r) + 0
    BY <1>1, <1>2, <1>3, CountAppend DEF ObservationsOf
  <2>2. ObservationsOf(r) \in Nat
    BY <1>3, CountType DEF ObservationsOf
  <2> QED BY <2>1, <2>2
<1>8. (Prompted(m) \/ f.type = "decision-requested") = Prompted(log[r])
  <2>1. Prompted(m) <=> Prompted(log[r])
    BY <1>1, <1>2, <1>3, PromptedAppend
  <2> QED BY <1>1, <2>1 DEF Prompted
<1>9. action'[r].status = "RESERVED"
  BY <1>1, <1>3 DEF Actions
<1>10. LifeOf(r) = LifeRecord("AWAITING_DECISION", NoCode, ObservationsOf(r), Prompted(log[r]),
                              DecisionChoice(log[r]), action[r].status, posts[r])
  BY <1>4, LifeUnstopped
<1> HIDE DEF m, g
<1>11. LifeOf(r)' = LifeRecord("RESUMING", NoCode, ObservationsOf(r), Prompted(log[r]),
                               "ESCALATE_INCIDENT", "RESERVED", posts[r])
  <2>1. f.type # "observation-recorded"
    BY <1>1
  <2> QED BY <1>5, <1>6, <1>7, <1>8, <1>9, <2>1 DEF Continued, LifeRecord
<1> QED BY <1>10, <1>11, DecidedToEscalateIs DEF LivesOn, Lifecycle!LifeStep

LEMMA AttemptLives ==
    ASSUME LedgerType, LedgerType', NEW r \in Runs, RunInv(r), posts'[r] = posts[r],
           NEW t, Attempts(r, t)
    PROVE  LivesOn(r)
<1> DEFINE e == ActionAttempted(t)
<1>1. /\ Extends(r, e) /\ action[r].status = "RESERVED" /\ e \in Events
      /\ action'[r] = [action[r] EXCEPT !.status = "IN_FLIGHT", !.attempts = 1]
      /\ e.type = "action-attempted" /\ e.signal = NoSignal
  BY DEF Attempts, Extends, ActionAttempted, Event
<1> HIDE DEF e
<1>2. log[r] \in Seq(Events) /\ head[r] \in Heads /\ action[r] \in Actions
  BY DEF LedgerType
<1>3. head[r].state = "RESUMING" /\ Advance(head[r], e).state = "RESUMING"
  BY <1>1, <1>2, AdvanceFields DEF RunInv
<1>4. DecisionChoice(Append(log[r], e)) = DecisionChoice(log[r])
  BY <1>1, <1>2, ChoiceAppend
<1>5. action'[r].status = "IN_FLIGHT"
  BY <1>1, <1>2 DEF Actions
<1>6. LifeOf(r) = LifeRecord("RESUMING", NoCode, ObservationsOf(r), Prompted(log[r]),
                             DecisionChoice(log[r]), "RESERVED", posts[r])
  BY <1>1, <1>3, LifeUnstopped
<1>7. LifeOf(r)' = LifeRecord("RESUMING", NoCode, ObservationsOf(r), Prompted(log[r]),
                              DecisionChoice(log[r]), "IN_FLIGHT", posts[r])
  <2>1. /\ Extends(r, e) /\ CodeAfter("RESUMING", e.signal) = NoCode
        /\ e.type \notin {"observation-recorded", "decision-requested"}
    BY <1>1 DEF CodeAfter
  <2> QED BY <1>3, <1>4, <1>5, <2>1, AfterOne
<1> QED BY <1>6, <1>7, AttemptedIs DEF LivesOn, Lifecycle!LifeStep

\* An outcome is settled as known only once the POST has left.
LEMMA SettleLives ==
    ASSUME SafetyInv, SafetyInv', NEW r \in Runs, posts'[r] = posts[r],
           NEW result \in ActionResults, NEW t, Settles(r, result, t)
    PROVE  LivesOn(r)
<1> DEFINE e == ActionEvent(result, t)
<1>1. /\ Extends(r, e) /\ action[r].status = "IN_FLIGHT" /\ action'[r].status = result
      /\ action'[r].attempts = action[r].attempts /\ e \in Events
      /\ e.type \in {"action-confirmed", "action-rejected", "action-uncertain"}
      /\ result = "CONFIRMED" => e.signal = "ACTION_CONFIRMED"
      /\ result = "REJECTED" => e.signal = "ACTION_REJECTED"
      /\ result = "UNCERTAIN" => e.signal = "ACTION_UNCERTAIN"
  BY DEF Settles, Extends, ActionEvent, Event
<1> HIDE DEF e
<1>2. /\ LedgerType /\ LedgerType' /\ RunInv(r) /\ head[r] \in Heads /\ log[r] \in Seq(Events)
      /\ posts'[r] \in Nat /\ issues'[r] \in Nat /\ refusals'[r] \in Nat
  BY DEF SafetyInv, TypeInv, TablesInv, LedgerType, WorkerType
<1>3. head[r].state = "RESUMING" /\ action[r].attempts = 1
  BY <1>1, <1>2 DEF RunInv
<1>4. /\ posts'[r] <= 1 /\ issues'[r] + refusals'[r] <= posts'[r]
      /\ result = "CONFIRMED" => issues'[r] > 0
      /\ result = "REJECTED" => refusals'[r] > 0
  <2>1. /\ posts'[r] <= action'[r].attempts /\ issues'[r] + refusals'[r] <= posts'[r]
        /\ action'[r].status = "CONFIRMED" => issues'[r] > 0
        /\ action'[r].status = "REJECTED" => refusals'[r] > 0
    BY DEF SafetyInv, EffectInv
  <2> QED BY <1>1, <1>3, <2>1
<1>5. result \in {"CONFIRMED", "REJECTED"} => posts[r] = 1
  BY <1>2, <1>4
<1>6. DecisionChoice(Append(log[r], e)) = DecisionChoice(log[r])
  BY <1>1, <1>2, ChoiceAppend
<1>7. Advance(head[r], e).state = Target(e.signal)
  BY <1>1, <1>2, AdvanceFields DEF ActionResults, NoSignal
<1>8. LifeOf(r) = LifeRecord("RESUMING", NoCode, ObservationsOf(r), Prompted(log[r]),
                             DecisionChoice(log[r]), "IN_FLIGHT", posts[r])
  BY <1>1, <1>3, LifeUnstopped
<1>9. LifeOf(r)' = LifeRecord(Target(e.signal), CodeAfter(Target(e.signal), e.signal),
                              ObservationsOf(r), Prompted(log[r]),
                              DecisionChoice(log[r]), result, posts[r])
  BY <1>1, <1>2, <1>6, <1>7, AfterOne
<1>10. CASE result = "CONFIRMED"
  <2>1. Target(e.signal) = "ESCALATED" /\ CodeAfter("ESCALATED", e.signal) = NoCode
    BY <1>1, <1>10, KernelTargets DEF CodeAfter
  <2> QED BY <1>5, <1>8, <1>9, <1>10, <2>1, ConfirmedIs DEF LivesOn, Lifecycle!LifeStep
<1>11. CASE result = "REJECTED"
  <2>1. Target(e.signal) = "STOPPED" /\ CodeAfter("STOPPED", e.signal) = "ACTION_REJECTED"
    BY <1>1, <1>11, KernelTargets DEF CodeAfter, StopCode
  <2> QED BY <1>5, <1>8, <1>9, <1>11, <2>1, RejectedIs DEF LivesOn, Lifecycle!LifeStep
<1>12. CASE result = "UNCERTAIN"
  <2>1. /\ Target(e.signal) = "STOPPED"
        /\ CodeAfter("STOPPED", e.signal) = "ACTION_OUTCOME_UNCERTAIN"
    BY <1>1, <1>12, KernelTargets DEF CodeAfter, StopCode
  <2> QED BY <1>8, <1>9, <1>12, <2>1, UncertainIs DEF LivesOn, Lifecycle!LifeStep
<1> QED BY <1>10, <1>11, <1>12 DEF ActionResults

-----------------------------------------------------------------------------
(* The refinement.                                                         *)

LEMMA GrowthLives ==
    ASSUME SafetyInv, SafetyInv', NEW r \in Runs, RunHistory(r), posts'[r] = posts[r], Grows(r)
    PROVE  LivesOn(r)
<1>0. LedgerType /\ LedgerType' /\ TypeInv' /\ RunInv(r)
  BY DEF SafetyInv, TypeInv, TablesInv
<1>1. ASSUME NEW t, WaitsAgain(r, t) \/ Asks(r, t) \/ Wakes(r, t) \/ Attempts(r, t)
      PROVE  LivesOn(r)
  BY <1>0, <1>1, WaitLives, AskLives, WakeLives, AttemptLives
<1>2. ASSUME NEW t, NEW signal, Concludes(r, signal, t) \/ Stops(r, signal, t)
      PROVE  LivesOn(r)
  BY <1>0, <1>2, ConcludeLives, StopLives
<1>3. ASSUME NEW key, NEW expected,
             DecidesToWait(r, key, expected) \/ DecidesToEscalate(r, key, expected)
      PROVE  LivesOn(r)
  BY <1>0, <1>3, DecideToWaitLives, DecideToEscalateLives
<1>4. ASSUME NEW t, NEW result \in ActionResults, Settles(r, result, t)
      PROVE  LivesOn(r)
  BY <1>4, SettleLives
<1>5. CASE Triggers(r)
  BY <1>0, <1>5, TriggerLives
<1> QED BY <1>1, <1>2, <1>3, <1>4, <1>5 DEF Grows

LEMMA LifeInit == Init => Lifecycle!Init
<1> SUFFICES ASSUME Init, NEW r \in Runs PROVE LifeOf(r) = Lifecycle!Unlived
  BY DEF Lifecycle!Init
<1>1. /\ log[r] = <<>> /\ head[r] = Unborn /\ action[r] = NoAction /\ posts[r] = 0
      /\ Unborn.state = NoState /\ NoAction.status = "NONE" /\ NoState # "STOPPED"
  BY DEF Init, LedgerInit, Unborn, NoAction, NoState
<1>2. Prompted(log[r]) = FALSE /\ ObservationsOf(r) = 0 /\ DecisionChoice(log[r]) = "NONE"
  <2>1. \A type : EventsOf(log[r], type) = {}
    BY <1>1 DEF EventsOf
  <2> QED BY <2>1, FS_EmptySet DEF Prompted, DecisionChoice, ObservationsOf, CountEvents
<1>3. LifeOf(r) = LifeRecord(NoState, NoCode, 0, Prompted(log[r]), "NONE", "NONE", 0)
  BY <1>1, <1>2, LifeUnstopped
<1> QED BY <1>2, <1>3, SameKernel DEF Lifecycle!Unlived, LifeRecord

LEMMA LifeNext ==
    ASSUME LedgerAssumption, ServiceAssumption, SafetyInv, SafetyInv', ClaimInv, FailureInv,
           HistoryInv, [Next]_vars
    PROVE  Lifecycle!Next
<1>0. TypeInv /\ LedgerType /\ LedgerType'
  BY DEF SafetyInv, TypeInv
<1>1. SUFFICES ASSUME NEW r \in Runs PROVE LifeOf(r)' = LifeOf(r) \/ LivesOn(r)
  BY DEF Lifecycle!Next, LivesOn
<1>2. ASSUME NEW w \in Workers, SendPost(w) PROVE LifeOf(r)' = LifeOf(r) \/ LivesOn(r)
  BY <1>2, SendPostLives DEF LivesOn, Lifecycle!LifeStep
<1>3. CASE posts' = posts
  <2>1. RunHistory(r) /\ Numbered(log[r], head[r])
    BY DEF HistoryInv, RunHistory, Story, History
  <2>2. CASE Kept(r)
    BY <1>0, <1>3, <2>2, LifeKept
  <2>3. CASE Grows(r)
    BY <1>3, <2>1, <2>3, GrowthLives
  <2> QED BY <1>0, <2>1, <2>2, <2>3, RunGrowth
<1> QED BY <1>0, <1>2, <1>3, PostsKept

\* Workers, leases, versions, crashes and zombies notwithstanding, every run
\* lives one of the sequential lives of ReleaseRunLifecycle.
THEOREM LifeIsImplemented == Spec => ImplementsLifecycle
<1>1. SafetyInv /\ SafetyInv' /\ ClaimInv /\ FailureInv /\ HistoryInv /\ [Next]_vars
        => Lifecycle!Next
  BY LifeNext, LedgerAssumption, ServiceAssumption
<1> QED
  BY <1>1, LifeInit, SafetyCorrect, HistoryCorrect, PTL
     DEF Spec, ImplementsLifecycle, Lifecycle!Spec

=============================================================================
