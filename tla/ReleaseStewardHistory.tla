------------------------ MODULE ReleaseStewardHistory ------------------------
(***************************************************************************)
(* What the append-only history of a run says, and what a worker may       *)
(* believe of it, proved for every value of the constants.                 *)
(*                                                                         *)
(* A step either leaves the history of a run alone or raises its version   *)
(* (RunCases, VersionRises).  So a claim whose version is still the head's *)
(* is a true picture of the run (ClaimInv); what such a claim commits      *)
(* extends the history in one of a few ways (RunGrowth); and each of them  *)
(* keeps what the histories promise (HistoryInv).                          *)
(***************************************************************************)
EXTENDS ReleaseStewardSafety, WellFoundedInduction

-----------------------------------------------------------------------------
(* What a step does to one run.                                            *)

Same(r) ==
    /\ head'[r] = head[r] /\ log'[r] = log[r] /\ action'[r] = action[r]
    /\ reserved'[r] = reserved[r] /\ decisions'[r] = decisions[r]

\* Another run's transaction touches no table of this one.
LEMMA RecordFrame ==
    ASSUME LedgerType, NEW r \in Runs, NEW es, Record(r, es), NEW s \in Runs \ {r}
    PROVE  head'[s] = head[s] /\ log'[s] = log[s]
BY DEF Record, LedgerType

WorkerCommits(w) == Wake(w) \/ Expire(w) \/ Begin(w) \/ Finish(w) \/ Commit(w) \/ StopRun(w)

LEMMA CommitFrame ==
    ASSUME TypeInv, NEW w \in Workers, WorkerCommits(w)
    PROVE  claim[w].run \in Runs /\ \A s \in Runs \ {claim[w].run} : Same(s)
<1>0. LedgerType /\ claim[w].run \in Runs
  BY DEF TypeInv, WorkerType, WorkerCommits, Wake, Expire, Begin, Finish, Commit, StopRun
<1>1. SUFFICES ASSUME NEW s \in Runs \ {claim[w].run} PROVE Same(s)
  BY <1>0
<1>2. ASSUME NEW es, NEW version, NEW next, AppendTransition(claim[w].run, version, es, next)
      PROVE  Same(s)
  BY <1>0, <1>2, RecordFrame DEF AppendTransition, Same
<1>3. CASE Wake(w)
  BY <1>2, <1>3 DEF Wake, WakeDueRun
<1>4. CASE Expire(w)
  BY <1>2, <1>4 DEF Expire, ExpireDecision, StopClaim
<1>5. CASE Commit(w)
  BY <1>2, <1>5 DEF Commit, CommitObservation
<1>6. CASE StopRun(w)
  BY <1>2, <1>6 DEF StopRun, StopClaim
<1>7. CASE Begin(w)
  BY <1>0, <1>7 DEF Begin, BeginIncidentAction, BeginExternalAction, Same, LedgerType
<1>8. CASE Finish(w)
  BY <1>0, <1>8, RecordFrame DEF Finish, FinishExternalAction, Same, LedgerType
<1> QED BY <1>3, <1>4, <1>5, <1>6, <1>7, <1>8 DEF WorkerCommits

LEMMA SubmitFrame ==
    ASSUME TypeInv, NEW r \in Runs, NEW key, NEW choice, NEW expected,
           Submit(r, key, choice, expected), NEW s \in Runs \ {r}
    PROVE  Same(s)
<1> DEFINE l == log[r]
<1>1. LedgerType
      /\ RecordDecision(r, key, choice, expected, SubmittedFingerprint(l, choice, now),
                        SubmittedAt(l, now), SubmittedWake(l, choice, now))
  BY DEF Submit, SubmitDecision, TypeInv
<1>2. head'[s] = head[s] /\ log'[s] = log[s]
  BY <1>1, RecordFrame DEF RecordDecision
<1>3. action'[s] = action[s] /\ reserved'[s] = reserved[s] /\ decisions'[s] = decisions[s]
  BY <1>1 DEF RecordDecision, LedgerType
<1> QED BY <1>2, <1>3 DEF Same

\* A step claims the run, recovers its lease or its action, creates it, decides
\* it or commits to it, or it leaves every table of the run as it is.
LEMMA RunCases ==
    ASSUME TypeInv, [Next]_vars, NEW r \in Runs
    PROVE  \/ Same(r)
           \/ \E w \in Workers : ClaimDue(w, r)
           \/ \E w \in Workers : RecoverAbandonedWork(at[w])
           \/ Trigger(r)
           \/ \E key \in Keys, choice \in DecisionChoices : \E expected \in 1..Len(log[r]) :
                 Submit(r, key, choice, expected)
           \/ \E w \in Workers : WorkerCommits(w) /\ claim[w].run = r
<1>0. LedgerType
  BY DEF TypeInv
<1>1. ASSUME UNCHANGED ledgerVars PROVE Same(r)
  BY <1>1 DEF ledgerVars, Same
<1>2. ASSUME NEW s \in Runs, s # r, Trigger(s) PROVE Same(r)
  BY <1>0, <1>2, RecordFrame DEF Trigger, CreateRunFromWebhook, Same
<1>3. ASSUME NEW w \in Workers, NEW s \in Runs, s # r, ClaimDue(w, s) PROVE Same(r)
  BY <1>0, <1>3 DEF ClaimDue, ClaimNextDueRun, Same, LedgerType
<1>4. ASSUME NEW s \in Runs, s # r, NEW key, NEW choice, NEW expected,
             Submit(s, key, choice, expected)
      PROVE  Same(r)
  BY <1>4, SubmitFrame
<1>5. ASSUME NEW w \in Workers, WorkerCommits(w), claim[w].run # r PROVE Same(r)
  BY <1>5, CommitFrame
<1>6. ASSUME NEW w \in Workers, WorkerStep(w)
      PROVE  \/ UNCHANGED ledgerVars \/ RecoverAbandonedWork(at[w]) \/ WorkerCommits(w)
             \/ \E s \in Runs : ClaimDue(w, s)
  BY <1>6
     DEF WorkerStep, WorkerCommits, StartTick, Recover, NothingDue, ReadClaim, WakeRefused, ExpireRefused,
         BeginRefused, SendPost, IncidentReturns, FinishRefused, Observed,
         ObservationFailed, ObservationDropped, CommitRefused, StopRunRefused, Refused
<1>7. ASSUME Environment
      PROVE  \/ UNCHANGED ledgerVars \/ \E s \in Runs : Trigger(s)
             \/ \E s \in Runs, key \in Keys, choice \in DecisionChoices :
                  \E expected \in 1..Len(log[s]) : Submit(s, key, choice, expected)
  BY <1>7 DEF Environment, Tick, ProviderAccepts, ProviderRefuses
<1>8. ASSUME NEW w \in Workers, Locked(w) \/ Stop(w) \/ Restart(w)
      PROVE  UNCHANGED ledgerVars
  BY <1>8 DEF Locked, Stop, Restart, Refused
<1>9. CASE UNCHANGED vars
  BY <1>9, <1>1 DEF vars
<1>10. CASE Environment
  BY <1>1, <1>2, <1>4, <1>7, <1>10
<1>11. CASE \E w \in Workers : WorkerStep(w)
  BY <1>1, <1>3, <1>5, <1>6, <1>11
<1> QED BY <1>1, <1>8, <1>9, <1>10, <1>11 DEF Next

-----------------------------------------------------------------------------
(* A step leaves a run alone, lease aside, or raises its version.          *)

Kept(r) ==
    /\ Released(head'[r]) = Released(head[r])
    /\ log'[r] = log[r] /\ action'[r] = action[r]
    /\ reserved'[r] = reserved[r] /\ decisions'[r] = decisions[r]

LeaseKept(r) ==
    \/ head'[r].owner = head[r].owner /\ head'[r].expires = head[r].expires
    \/ head[r].expires <= now

Rises(r) == head'[r].version > head[r].version

LEMMA ReleasedFields ==
    ASSUME NEW h \in Heads
    PROVE  /\ Released(h).state = h.state /\ Released(h).version = h.version
           /\ Released(h).wake = h.wake /\ Released(h).updatedAt = h.updatedAt
BY DEF Released, Heads

LEMMA AdvanceFields ==
    ASSUME NEW h \in Heads, NEW e \in Events
    PROVE  /\ Advance(h, e).version = h.version + 1
           /\ Advance(h, e).updatedAt = e.at
           /\ e.signal = NoSignal =>
                 Advance(h, e).state = h.state /\ Advance(h, e).wake = h.wake
           /\ e.signal # NoSignal =>
                 Advance(h, e).state = Target(e.signal) /\ Advance(h, e).wake = e.wake
BY DEF Advance, Heads

LEMMA RecordRises ==
    ASSUME LedgerType, NEW r \in Runs, NEW es \in Batches, Record(r, es)
    PROVE  Rises(r)
<1>1. /\ head[r] \in Heads /\ AdvanceAll(head[r], es) \in Heads
      /\ es[1] \in Events /\ (Len(es) = 2 => es[2] \in Events)
  <2>1. /\ es \in Seq(Events) /\ 1 \in 1..Len(es)
        /\ Len(es) = 2 => 2 \in 1..Len(es)
    BY DEF Batches
  <2> QED BY <2>1, AdvanceAllType, ElementOfSeq DEF LedgerType
<1>2. AdvanceAll(head[r], es).version > head[r].version
  <2>0. head[r].version \in Nat
    BY <1>1 DEF Heads
  <2>1. Advance(head[r], es[1]).version = head[r].version + 1
        /\ Advance(head[r], es[1]) \in Heads
    BY <1>1, AdvanceFields, AdvanceType
  <2>2. Len(es) = 2 => AdvanceAll(head[r], es).version = (head[r].version + 1) + 1
    BY <1>1, <2>1, AdvanceFields DEF AdvanceAll
  <2> QED BY <2>0, <2>1, <2>2 DEF AdvanceAll
<1>3. head'[r] = Released(AdvanceAll(head[r], es))
  BY <1>1 DEF Record, LedgerType
<1> QED BY <1>1, <1>2, <1>3, ReleasedFields DEF Rises

\* What a worker appends is a batch of events.
LEMMA WorkerBatch ==
    ASSUME ServiceAssumption, TypeInv, NEW w \in Workers,
           Wake(w) \/ Expire(w) \/ Commit(w) \/ StopRun(w)
    PROVE  \E es \in Batches : \E next :
              AppendTransition(claim[w].run, claim[w].version, es, next)
<1>0. at[w] \in Nat
  BY DEF TypeInv, WorkerType
<1>1. CASE Wake(w)
  <2>1. WakeEvents(at[w]) \in Batches
    BY <1>0, WakeMoves DEF MovingBatches
  <2> QED BY <1>1, <2>1 DEF Wake, WakeDueRun
<1>2. ASSUME NEW signal, StopClaim(claim[w], signal, at[w])
      PROVE  \E es \in Batches : \E next :
                AppendTransition(claim[w].run, claim[w].version, es, next)
  <2>1. signal \in Signals
    BY <1>2, SourceIsSignal DEF StopClaim, CanStop
  <2>2. StopEvents(signal, at[w]) \in Batches
    BY <1>0, <2>1, StopMoves DEF MovingBatches
  <2> QED BY <1>2, <2>2 DEF StopClaim
<1>3. CASE Commit(w)
  <2>1. outcome[w] \in Signals
    BY <1>3, ObservationSignalsType
       DEF Commit, CommitObservation, CanCommitObservation, ObservationAdmitted
  <2>2. ObservationEvents(claim[w], outcome[w], at[w]) \in Batches
    BY <1>0, <2>1, ObservationEventsType
  <2> QED BY <1>3, <2>2 DEF Commit, CommitObservation
<1> QED BY <1>1, <1>2, <1>3 DEF Expire, ExpireDecision, StopRun

LEMMA WorkerRises ==
    ASSUME ServiceAssumption, TypeInv, NEW w \in Workers, WorkerCommits(w)
    PROVE  Rises(claim[w].run)
<1> DEFINE r == claim[w].run
<1>0. LedgerType /\ r \in Runs /\ at[w] \in Nat /\ head[r] \in Heads
  BY CommitFrame DEF TypeInv, WorkerType, LedgerType
<1>1. CASE Wake(w) \/ Expire(w) \/ Commit(w) \/ StopRun(w)
  BY <1>0, <1>1, WorkerBatch, RecordRises DEF AppendTransition
<1>2. CASE Begin(w)
  <2>1. head'[r] = Advance(head[r], ActionAttempted(at[w]))
    BY <1>0, <1>2 DEF Begin, BeginIncidentAction, BeginExternalAction, LedgerType
  <2>2. ActionAttempted(at[w]) \in Events
    BY <1>0, EventType DEF ActionAttempted, EventTypes, Times, OptionalTimes
  <2> QED BY <1>0, <2>1, <2>2, AdvanceFields DEF Rises, Heads
<1>3. CASE Finish(w)
  <2>1. outcome[w] \in ActionResults
    BY <1>3 DEF Finish, TypeInv, WorkerType
  <2>2. <<ActionEvent(outcome[w], at[w])>> \in Batches
    BY <1>0, <2>1, ActionEventType, BatchOne
  <2> QED BY <1>0, <1>3, <2>2, RecordRises DEF Finish, FinishExternalAction
<1> QED BY <1>1, <1>2, <1>3 DEF WorkerCommits

LEMMA SubmitRises ==
    ASSUME ServiceAssumption, TypeInv, NEW r \in Runs, NEW key, NEW choice, NEW expected,
           Submit(r, key, choice, expected)
    PROVE  Rises(r)
<1> DEFINE t == SubmittedAt(log[r], now)  wake == SubmittedWake(log[r], choice, now)
<1>0. LedgerType /\ now \in Nat /\ log[r] \in Seq(Events)
  BY DEF TypeInv, WorkerType, LedgerType
<1>1. t \in Times
  BY <1>0, AuthorizedAtType DEF SubmittedAt, Times
<1>2. wake \in OptionalTimes
  BY <1>1 DEF SubmittedWake, ServiceAssumption, OptionalTimes, Times
<1>3. DecisionEvents(choice, t, wake) \in Batches
  <2>1. /\ Event("decision-recorded", "WAIT_AND_RECHECK_AUTHORIZED", t, wake) \in Events
        /\ Event("decision-recorded", "ESCALATE_INCIDENT_AUTHORIZED", t, None) \in Events
        /\ Event("action-reserved", NoSignal, t, None) \in Events
    BY <1>1, <1>2, EventType DEF EventTypes, Signals, DecisionSignals, OptionalTimes
  <2> QED BY <2>1, BatchOne, BatchTwo DEF DecisionEvents
<1> QED BY <1>0, <1>3, RecordRises DEF Submit, SubmitDecision, RecordDecision

\* The compare-and-swap of the version is worth something: no transaction changes
\* what a claim pictures without raising the version, and none but a claim
\* changes the holder of a lease that has not expired.
LEMMA VersionRises ==
    ASSUME ServiceAssumption, TypeInv, [Next]_vars, NEW r \in Runs
    PROVE  \/ Kept(r) /\ LeaseKept(r)
           \/ Kept(r) /\ \E w \in Workers : ClaimDue(w, r)
           \/ Rises(r)
<1>0. LedgerType /\ now \in Nat /\ head[r] \in Heads /\ head[r].version \in Nat
  BY DEF TypeInv, WorkerType, LedgerType, Heads
<1>1. CASE Same(r)
  BY <1>1 DEF Same, Kept, LeaseKept
<1>2. ASSUME NEW w \in Workers, ClaimDue(w, r)
      PROVE  Kept(r)
  <2>1. UNCHANGED <<log, action, reserved, decisions>>
        /\ head' = [head EXCEPT ![r].owner = w, ![r].expires = at[w] + LeaseDuration]
    BY <1>2 DEF ClaimDue, ClaimNextDueRun
  <2>2. Released(head'[r]) = Released(head[r])
    BY <1>0, <2>1 DEF Released, LedgerType, Heads
  <2> QED BY <2>1, <2>2 DEF Kept
<1>3. ASSUME NEW w \in Workers, RecoverAbandonedWork(at[w])
      PROVE  (Kept(r) /\ LeaseKept(r)) \/ Rises(r)
  <2> DEFINE t == at[w]
  <2>1. RecoverAbandonedWork(t) /\ t \in Nat /\ t <= now
    BY <1>3 DEF TypeInv, WorkerType
  <2>2. CASE r \in Abandoned(t)
    <3>1. RecoveryEvent(t) \in Events
      BY <2>1, ActionEventType DEF RecoveryEvent, ActionResults
    <3>2. head'[r] = Released(Advance(head[r], RecoveryEvent(t)))
      BY <2>1, <2>2 DEF RecoverAbandonedWork
    <3> QED BY <1>0, <3>1, <3>2, AdvanceFields, AdvanceType, ReleasedFields DEF Rises
  <2>3. CASE r \notin Abandoned(t)
    <3>1. /\ log'[r] = log[r] /\ action'[r] = action[r]
          /\ reserved'[r] = reserved[r] /\ decisions'[r] = decisions[r]
          /\ head'[r] = IF LeaseFree(r, t) THEN Released(head[r]) ELSE head[r]
      BY <2>1, <2>3 DEF RecoverAbandonedWork
    <3>2. Released(Released(head[r])) = Released(head[r])
      BY <1>0 DEF Released, Heads
    <3>3. LeaseFree(r, t) => head[r].expires <= now
      BY <1>0, <2>1 DEF LeaseFree, None, Heads, OptionalTimes
    <3> QED BY <3>1, <3>2, <3>3 DEF Kept, LeaseKept
  <2> QED BY <2>2, <2>3
<1>4. CASE Trigger(r)
  <2>1. <<Event("release-triggered", "TRIGGER_ACCEPTED", now, None)>> \in Batches
    BY <1>0, EventType, BatchOne DEF EventTypes, Signals, Times, OptionalTimes
  <2> QED BY <1>0, <1>4, <2>1, RecordRises DEF Trigger, CreateRunFromWebhook
<1>5. ASSUME NEW key, NEW choice, NEW expected, Submit(r, key, choice, expected)
      PROVE  Rises(r)
  BY <1>5, SubmitRises
<1>6. ASSUME NEW w \in Workers, WorkerCommits(w), claim[w].run = r PROVE Rises(r)
  BY <1>6, WorkerRises
<1> QED BY <1>1, <1>2, <1>3, <1>4, <1>5, <1>6, RunCases

-----------------------------------------------------------------------------
(* What a worker may believe of the run it holds.                          *)

\* Where a worker has read the history and not yet committed.
Informed == {"wake", "expire", "begin", "observing", "commit", "stop"}

\* The claim w holds of run r pictures it: the lease in the head is the claim's
\* unless the claim has expired.
Pictures(w, r) ==
    LET c == claim[w] IN
    /\ c.state = head[r].state /\ c.wake = head[r].wake
    /\ pc[w] \in Informed =>
         /\ c.observations = CountEvents(log[r], "observation-recorded")
         /\ c.waits = CountEvents(log[r], "wait-scheduled")
         /\ c.prompts = CountEvents(log[r], "decision-requested")
         /\ c.choice = DecisionChoice(log[r])
         /\ c.status = action[r].status
    /\ \/ c.expires <= now
       \/ head[r].owner = w /\ head[r].expires = c.expires

WorkerClaimInv(w) ==
    /\ at[w] <= now
    /\ pc[w] \in {"idle", "recover", "claim"} => claim[w] = NoClaim
    /\ claim[w].run \in Runs =>
         /\ claim[w].version <= head[claim[w].run].version
         /\ claim[w].version = head[claim[w].run].version => Pictures(w, claim[w].run)

ClaimInv == (\A w \in Workers : WorkerClaimInv(w)) /\ LeaseExcludes

\* What any step but a claim and the reading of one does to a worker.
Carries(w) ==
    /\ now' >= now /\ at'[w] <= now'
    /\ \/ claim'[w] = NoClaim
       \/ /\ claim'[w] = claim[w] /\ pc'[w] \notin {"idle", "recover", "claim"}
          /\ pc'[w] \in Informed => pc[w] \in Informed

LEMMA CarriedClaims ==
    ASSUME ServiceAssumption, TypeInv, TypeInv', ClaimInv,
           \A r \in Runs : (Kept(r) /\ LeaseKept(r)) \/ Rises(r),
           \A w \in Workers : Carries(w)
    PROVE  ClaimInv'
<1>a. /\ now \in Nat /\ now' \in Nat /\ head \in [Runs -> Heads] /\ head' \in [Runs -> Heads]
      /\ claim \in [Workers -> Claims]
  BY DEF TypeInv, WorkerType, LedgerType
<1>0. /\ now \in Nat /\ now' \in Nat /\ NoClaim.run = NoRun /\ NoRun \notin Runs
      /\ \A r \in Runs : /\ head[r] \in Heads /\ head'[r] \in Heads
                         /\ head[r].version \in Nat /\ head'[r].version \in Nat
                         /\ head[r].expires \in Int
      /\ \A w \in Workers : /\ claim[w] \in Claims
                            /\ claim[w].version \in Nat /\ claim[w].expires \in Int
  BY <1>a DEF Heads, Claims, OptionalTimes, None, NoClaim, ServiceAssumption
<1>1. ASSUME NEW w \in Workers PROVE WorkerClaimInv(w)'
  <2>1. CASE claim'[w] = NoClaim
    BY <1>0, <2>1 DEF WorkerClaimInv, Carries
  <2>2. CASE claim'[w] # NoClaim
    <3> DEFINE r == claim[w].run
    <3>1. /\ claim'[w] = claim[w] /\ pc'[w] \notin {"idle", "recover", "claim"}
          /\ pc'[w] \in Informed => pc[w] \in Informed
          /\ now' >= now /\ at'[w] <= now' /\ WorkerClaimInv(w)
      BY <2>2 DEF Carries, ClaimInv
    <3>2. ASSUME r \in Runs
          PROVE  /\ claim[w].version <= head'[r].version
                 /\ claim[w].version = head'[r].version => Pictures(w, r)'
      <4>1. CASE Rises(r)
        BY <1>0, <3>1, <3>2, <4>1 DEF Rises, WorkerClaimInv
      <4>2. CASE Kept(r) /\ LeaseKept(r)
        <5>1. /\ head'[r].version = head[r].version /\ head'[r].state = head[r].state
              /\ head'[r].wake = head[r].wake
              /\ log'[r] = log[r] /\ action'[r] = action[r]
          BY <1>0, <3>2, <4>2, ReleasedFields DEF Kept
        <5>2. claim[w].version <= head[r].version
          BY <3>1, <3>2 DEF WorkerClaimInv
        <5>3. ASSUME claim[w].version = head[r].version PROVE Pictures(w, r)'
          <6>1. Pictures(w, r)
            BY <3>1, <3>2, <5>3 DEF WorkerClaimInv
          <6>2. \/ claim[w].expires <= now'
                \/ head'[r].owner = w /\ head'[r].expires = claim[w].expires
            <7>1. \/ claim[w].expires <= now
                  \/ head[r].owner = w /\ head[r].expires = claim[w].expires
              BY <6>1 DEF Pictures
            <7>2. claim[w].expires \in Int /\ now \in Int /\ now' \in Int /\ now' >= now
              BY <1>0, <3>1
            <7> QED BY <4>2, <7>1, <7>2 DEF LeaseKept
          <6> QED BY <3>1, <5>1, <6>1, <6>2 DEF Pictures
        <5> QED BY <5>1, <5>2, <5>3
      <4> QED BY <3>2, <4>1, <4>2
    <3> QED BY <3>1, <3>2 DEF WorkerClaimInv
  <2> QED BY <2>1, <2>2
<1>2. LeaseExcludes'
  <2> SUFFICES ASSUME NEW v \in Workers, NEW w \in Workers, v # w,
                      claim'[v].run = claim'[w].run, claim'[v].run # NoRun,
                      claim'[v].version = claim'[w].version
               PROVE  claim'[v].expires <= now' \/ claim'[w].expires <= now'
    BY DEF LeaseExcludes
  <2>1. claim'[v] = claim[v] /\ claim'[w] = claim[w] /\ now' >= now
    BY <1>0 DEF Carries
  <2>2. claim[v].expires <= now \/ claim[w].expires <= now
    BY <2>1 DEF ClaimInv, LeaseExcludes
  <2> QED BY <1>0, <2>1, <2>2
<1> QED BY <1>1, <1>2 DEF ClaimInv

\* The claim that is made is the only one of its version with a live lease.
LEMMA NewClaim ==
    ASSUME LedgerAssumption, ServiceAssumption, TypeInv, TypeInv', ClaimInv,
           NEW w \in Workers, NEW r \in Runs, ClaimDue(w, r)
    PROVE  ClaimInv'
<1> DEFINE c == HeadClaim(r, at[w])
<1>0. /\ now \in Nat /\ at[w] \in Nat /\ at[w] <= now
      /\ NoClaim.run = NoRun /\ NoRun \notin Runs
      /\ head \in [Runs -> Heads]
      /\ \A s \in Runs : head[s].version \in Nat /\ head[s].expires \in OptionalTimes
      /\ \A v \in Workers : claim[v].version \in Nat /\ claim[v].expires \in OptionalTimes
      /\ at[w] + LeaseDuration \in Nat
  <2>1. TypeInv /\ LedgerType /\ WorkerType /\ WorkerClaimInv(w)
    BY DEF TypeInv, ClaimInv
  <2>2. \A s \in Runs : head[s].version \in Nat /\ head[s].expires \in OptionalTimes
    BY <2>1 DEF LedgerType, Heads
  <2>3. \A v \in Workers : claim[v].version \in Nat /\ claim[v].expires \in OptionalTimes
    BY <2>1 DEF WorkerType, Claims
  <2>4. now \in Nat /\ at[w] \in Nat /\ at[w] <= now
    BY <2>1 DEF WorkerType, WorkerClaimInv
  <2>5. NoClaim.run = NoRun /\ NoRun \notin Runs /\ at[w] + LeaseDuration \in Nat
    BY <2>4 DEF NoClaim, ServiceAssumption, LedgerAssumption
  <2> QED BY <2>1, <2>2, <2>3, <2>4, <2>5 DEF LedgerType
<1>1. /\ pc[w] = "claim" /\ pc' = [pc EXCEPT ![w] = "read"]
      /\ claim' = [claim EXCEPT ![w] = c]
      /\ head' = [head EXCEPT ![r].owner = w, ![r].expires = at[w] + LeaseDuration]
      /\ LeaseFree(r, at[w])
      /\ UNCHANGED <<log, action, at, now>>
  BY DEF ClaimDue, Goto, ClaimNextDueRun, NextDue, Claimable
<1>2. /\ c.run = r /\ c.version = head[r].version /\ c.state = head[r].state
      /\ c.wake = head[r].wake /\ c.expires = at[w] + LeaseDuration
  BY DEF HeadClaim, NoClaim
<1>3. /\ head'[r].version = head[r].version /\ head'[r].state = head[r].state
      /\ head'[r].wake = head[r].wake
      /\ head'[r].owner = w /\ head'[r].expires = at[w] + LeaseDuration
      /\ \A s \in Runs \ {r} : head'[s] = head[s]
  BY <1>0, <1>1 DEF Heads
<1>4. claim'[w] = c /\ pc'[w] = "read" /\ at'[w] <= now'
      /\ \A v \in Workers \ {w} : claim'[v] = claim[v] /\ pc'[v] = pc[v] /\ at'[v] = at[v]
  BY <1>0, <1>1 DEF TypeInv, WorkerType
<1>5. ASSUME NEW v \in Workers \ {w}, claim[v].run = r, claim[v].version = head[r].version
      PROVE  claim[v].expires <= now
  <2>1. Pictures(v, r)
    BY <1>5 DEF ClaimInv, WorkerClaimInv
  <2>2. claim[v].expires <= now \/ head[r].expires = claim[v].expires
    BY <2>1 DEF Pictures
  <2>3. head[r].expires <= now
    BY <1>0, <1>1 DEF LeaseFree, OptionalTimes, None
  <2> QED BY <2>2, <2>3
<1>6. WorkerClaimInv(w)'
  <2>1. Pictures(w, r)'
    BY <1>1, <1>2, <1>3, <1>4 DEF Pictures, Informed
  <2> QED BY <1>0, <1>2, <1>3, <1>4, <2>1 DEF WorkerClaimInv
<1>7. ASSUME NEW v \in Workers \ {w} PROVE WorkerClaimInv(v)'
  <2>1. WorkerClaimInv(v)
    BY DEF ClaimInv
  <2>2. ASSUME claim[v].run = r, claim[v].version = head[r].version PROVE Pictures(v, r)'
    <3>1. Pictures(v, r)
      BY <2>1, <2>2 DEF WorkerClaimInv
    <3> QED BY <1>1, <1>3, <1>4, <1>5, <2>2, <3>1 DEF Pictures
  <2>3. ASSUME NEW s \in Runs \ {r}, Pictures(v, s) PROVE Pictures(v, s)'
    <3>1. head'[s] = head[s] /\ claim'[v] = claim[v] /\ pc'[v] = pc[v]
      BY <1>3, <1>4
    <3> QED BY <1>1, <2>3, <3>1 DEF Pictures
  <2>4. claim'[v] = claim[v] /\ pc'[v] = pc[v] /\ at'[v] = at[v] /\ now' = now
    BY <1>1, <1>4
  <2>5. ASSUME NEW s \in Runs, claim[v].run = s
        PROVE  /\ claim[v].version <= head'[s].version
               /\ claim[v].version = head'[s].version => Pictures(v, s)'
    <3>1. /\ claim[v].version <= head[s].version
          /\ claim[v].version = head[s].version => Pictures(v, s)
      BY <2>1, <2>5 DEF WorkerClaimInv
    <3>2. head'[s].version = head[s].version
      BY <1>3
    <3> QED BY <2>2, <2>3, <2>5, <3>1, <3>2
  <2> QED BY <2>1, <2>4, <2>5 DEF WorkerClaimInv
<1>8. LeaseExcludes'
  <2> SUFFICES ASSUME NEW u \in Workers, NEW v \in Workers, u # v,
                      claim'[u].run = claim'[v].run, claim'[u].run # NoRun,
                      claim'[u].version = claim'[v].version
               PROVE  claim'[u].expires <= now' \/ claim'[v].expires <= now'
    BY DEF LeaseExcludes
  <2>1. CASE u = w
    BY <1>1, <1>2, <1>4, <1>5, <2>1
  <2>2. CASE v = w
    BY <1>1, <1>2, <1>4, <1>5, <2>2
  <2>3. CASE u # w /\ v # w
    BY <1>1, <1>4, <2>3 DEF ClaimInv, LeaseExcludes
  <2> QED BY <2>1, <2>2, <2>3
<1> QED BY <1>6, <1>7, <1>8 DEF ClaimInv

\* Reading the history completes the picture, or a later version has made the
\* claim stale.
LEMMA ReadPicture ==
    ASSUME ServiceAssumption, TypeInv, ClaimInv, NEW w \in Workers, ReadClaim(w),
           Branch(FullClaim(claim[w])) # "throw"
    PROVE  ClaimInv'
<1> DEFINE r == claim[w].run  c == FullClaim(claim[w])
<1>0. /\ claim[w] \in Claims /\ r \in Runs /\ claim \in [Workers -> Claims]
      /\ pc \in [Workers -> PCs]
  BY DEF ReadClaim, TypeInv, WorkerType
<1>1. /\ claim' = [claim EXCEPT ![w] = c] /\ pc' = [pc EXCEPT ![w] = Branch(c)]
      /\ UNCHANGED <<head, log, action, at, now>>
  BY DEF ReadClaim, Goto, ledgerVars
<1>2. /\ c.run = r /\ c.version = claim[w].version /\ c.state = claim[w].state
      /\ c.wake = claim[w].wake /\ c.expires = claim[w].expires
      /\ c.observations = CountEvents(log[r], "observation-recorded")
      /\ c.waits = CountEvents(log[r], "wait-scheduled")
      /\ c.prompts = CountEvents(log[r], "decision-requested")
      /\ c.choice = DecisionChoice(log[r])
      /\ c.status = action[r].status
  BY <1>0 DEF FullClaim, Claims
<1>3. Branch(c) \notin {"idle", "recover", "claim"}
  BY DEF Branch
<1>4. /\ claim'[w] = c /\ pc'[w] = Branch(c)
      /\ \A v \in Workers \ {w} : claim'[v] = claim[v] /\ pc'[v] = pc[v]
  BY <1>0, <1>1
<1>5. WorkerClaimInv(w)'
  <2>1. WorkerClaimInv(w)
    BY DEF ClaimInv
  <2>2. ASSUME claim[w].version = head[r].version PROVE Pictures(w, r)'
    <3>1. Pictures(w, r)
      BY <1>0, <2>1, <2>2 DEF WorkerClaimInv
    <3> QED BY <1>1, <1>2, <1>4, <3>1 DEF Pictures
  <2> QED BY <1>0, <1>1, <1>2, <1>3, <1>4, <2>1, <2>2 DEF WorkerClaimInv
<1>6. ASSUME NEW v \in Workers \ {w} PROVE WorkerClaimInv(v)'
  BY <1>1, <1>4 DEF ClaimInv, WorkerClaimInv, Pictures
<1>7. LeaseExcludes'
  <2>1. \A v \in Workers : /\ claim'[v].run = claim[v].run
                           /\ claim'[v].version = claim[v].version
                           /\ claim'[v].expires = claim[v].expires
    BY <1>2, <1>4
  <2> QED BY <1>1, <2>1 DEF ClaimInv, LeaseExcludes
<1> QED BY <1>5, <1>6, <1>7 DEF ClaimInv

\* Every other step carries the claims along.
LEMMA ClaimsCarried ==
    ASSUME TypeInv, ClaimInv, [Next]_vars,
           \A w \in Workers : /\ \A r \in Runs : ~ ClaimDue(w, r)
                              /\ ReadClaim(w) => Branch(FullClaim(claim[w])) = "throw"
    PROVE  \A w \in Workers : Carries(w)
<1>0. /\ now \in Nat /\ pc \in [Workers -> PCs] /\ at \in [Workers -> Nat]
      /\ claim \in [Workers -> Claims]
      /\ \A w \in Workers : at[w] <= now
      /\ \A w \in Workers : pc[w] \in {"idle", "recover", "claim"} => claim[w] = NoClaim
  BY DEF TypeInv, WorkerType, ClaimInv, WorkerClaimInv
<1>1. ASSUME UNCHANGED <<pc, at, claim>>, now' \in {now, now + 1}
      PROVE  \A w \in Workers : Carries(w)
  BY <1>0, <1>1 DEF Carries
<1>2. ASSUME NEW w \in Workers, EndTick(w), now' = now
      PROVE  \A v \in Workers : Carries(v)
  <2>1. claim'[w] = NoClaim /\ at'[w] = 0
        /\ \A v \in Workers \ {w} : claim'[v] = claim[v] /\ pc'[v] = pc[v] /\ at'[v] = at[v]
    BY <1>0, <1>2 DEF EndTick, Goto
  <2> QED BY <1>0, <1>2, <2>1 DEF Carries
<1>3. ASSUME NEW w \in Workers, NEW label, Goto(w, label), UNCHANGED <<claim, now>>,
             \/ label \notin {"idle", "recover", "claim"} /\ (label \in Informed => pc[w] \in Informed)
             \/ pc[w] \in {"idle", "recover", "claim"},
             at' = at \/ at' = [at EXCEPT ![w] = now]
      PROVE  \A v \in Workers : Carries(v)
  <2>1. /\ pc'[w] = label /\ at'[w] \in {at[w], now}
        /\ \A v \in Workers \ {w} : pc'[v] = pc[v] /\ at'[v] = at[v]
    BY <1>0, <1>3 DEF Goto
  <2> QED BY <1>0, <1>3, <2>1 DEF Carries
<1>4. ASSUME NEW w \in Workers, WorkerStep(w) PROVE \A v \in Workers : Carries(v)
  <2>1. CASE StartTick(w)
    BY <1>3, <2>1 DEF StartTick, Goto
  <2>10. ASSUME Recover(w), CanRecover(at[w]) PROVE \A v \in Workers : Carries(v)
    BY <1>3, <2>10 DEF Recover, Goto
  <2>2. CASE Begin(w)
    <3>1. pc[w] = "begin" /\ Goto(w, "calling") /\ UNCHANGED <<at, claim, now>>
      BY <2>2 DEF Begin
    <3>2. "calling" \notin {"idle", "recover", "claim"} /\ "calling" \notin Informed
      BY DEF Informed
    <3> QED BY <1>3, <3>1, <3>2
  <2>3. CASE SendPost(w)
    <3>1. Goto(w, "posted") /\ UNCHANGED <<at, claim, now>>
      BY <2>3 DEF SendPost
    <3>2. "posted" \notin {"idle", "recover", "claim"} /\ "posted" \notin Informed
      BY DEF Informed
    <3> QED BY <1>3, <3>1, <3>2
  <2>4. ASSUME NEW result, IncidentReturns(w, result) PROVE \A v \in Workers : Carries(v)
    <3>1. Goto(w, "finish") /\ at' = [at EXCEPT ![w] = now] /\ UNCHANGED <<claim, now>>
      BY <2>4 DEF IncidentReturns, Await
    <3>2. "finish" \notin {"idle", "recover", "claim"} /\ "finish" \notin Informed
      BY DEF Informed
    <3> QED BY <1>3, <3>1, <3>2
  <2>5. ASSUME NEW signal, Observed(w, signal) \/ ObservationFailed(w, signal)
        PROVE  \A v \in Workers : Carries(v)
    <3>1. PICK label \in {"commit", "stop"} :
             /\ pc[w] = "observing" /\ Goto(w, label)
             /\ at' = [at EXCEPT ![w] = now] /\ UNCHANGED <<claim, now>>
      BY <2>5 DEF Observed, ObservationFailed, Await
    <3>2. label \notin {"idle", "recover", "claim"} /\ "observing" \in Informed
      BY DEF Informed
    <3> QED BY <1>3, <3>1, <3>2
  <2>6. CASE ReadClaim(w)
    BY <1>2, <2>6 DEF ReadClaim
  <2>7. ASSUME EndTick(w) /\ now' = now PROVE \A v \in Workers : Carries(v)
    BY <1>2, <2>7
  <2>8. CASE NothingDue(w) \/ Wake(w) \/ Expire(w) \/ Finish(w) \/ Commit(w) \/ StopRun(w)
    BY <2>7, <2>8 DEF NothingDue, Wake, Expire, Finish, Commit, StopRun
  <2>9. CASE Refused(w)
    BY <2>7, <2>9 DEF Refused
  <2> QED
    BY <1>4, <2>1, <2>2, <2>3, <2>4, <2>5, <2>6, <2>8, <2>9, <2>10
       DEF WorkerStep, Recover, WakeRefused, ExpireRefused, BeginRefused, FinishRefused,
           ObservationDropped, CommitRefused, StopRunRefused
<1>5. ASSUME Environment PROVE \A w \in Workers : Carries(w)
  BY <1>1, <1>5
     DEF Environment, Tick, Trigger, ProviderAccepts, ProviderRefuses, Submit, workerVars
<1>6. ASSUME NEW w \in Workers, Locked(w) \/ Restart(w)
      PROVE  \A v \in Workers : Carries(v)
  BY <1>2, <1>6 DEF Locked, Refused, Restart
<1>7. ASSUME NEW w \in Workers, Stop(w) PROVE \A v \in Workers : Carries(v)
  BY <1>1, <1>7 DEF Stop
<1>8. CASE UNCHANGED vars
  BY <1>1, <1>8 DEF vars, workerVars
<1> QED BY <1>4, <1>5, <1>6, <1>7, <1>8 DEF Next

LEMMA ClaimInit == Init => ClaimInv
<1> SUFFICES ASSUME Init PROVE ClaimInv
  OBVIOUS
<1>1. \A w \in Workers : claim[w] = NoClaim /\ at[w] = 0 /\ now = 0
  BY DEF Init
<1>2. NoClaim.run = NoRun /\ NoRun \notin Runs
  BY ServiceAssumption DEF NoClaim, ServiceAssumption
<1> QED BY <1>1, <1>2 DEF ClaimInv, WorkerClaimInv, LeaseExcludes

LEMMA ClaimStep ==
    ASSUME LedgerAssumption, ServiceAssumption, TypeInv, ClaimInv, [Next]_vars
    PROVE  ClaimInv'
<1>1. TypeInv'
  BY TypeStep
<1>2. CASE \E w \in Workers, r \in Runs : ClaimDue(w, r)
  BY <1>1, <1>2, NewClaim
<1>3. CASE \E w \in Workers : ReadClaim(w) /\ Branch(FullClaim(claim[w])) # "throw"
  BY <1>3, ReadPicture
<1>4. CASE \A w \in Workers : /\ \A r \in Runs : ~ ClaimDue(w, r)
                              /\ ReadClaim(w) => Branch(FullClaim(claim[w])) = "throw"
  <2>1. \A w \in Workers : Carries(w)
    BY <1>4, ClaimsCarried
  <2>2. \A r \in Runs : (Kept(r) /\ LeaseKept(r)) \/ Rises(r)
    BY <1>4, VersionRises
  <2> QED BY <1>1, <2>1, <2>2, CarriedClaims
<1> QED BY <1>2, <1>3, <1>4

LEMMA ClaimCorrect == Spec => [](TypeInv /\ ClaimInv)
BY TypeInit, TypeStep, ClaimInit, ClaimStep, LedgerAssumption, ServiceAssumption, PTL
   DEF Spec

\* Two workers never hold the same version of a run under leases that are both
\* unexpired.
THEOREM LeasesExclude == Spec => []LeaseExcludes
<1>1. ClaimInv => LeaseExcludes
  BY DEF ClaimInv
<1> QED BY <1>1, ClaimCorrect, PTL

\* A claim whose version is still the head's is a true picture of the run.
THEOREM TrueClaim == Spec => []CurrentClaimIsTrue
<1>1. TypeInv /\ ClaimInv => CurrentClaimIsTrue
  <2> SUFFICES ASSUME TypeInv, ClaimInv, NEW w \in Workers, pc[w] \in Informed,
                      claim[w].version = head[claim[w].run].version
               PROVE  LET c == claim[w] IN
                      /\ c.state = head[c.run].state /\ c.wake = head[c.run].wake
                      /\ c.observations = CountEvents(log[c.run], "observation-recorded")
                      /\ c.prompts = CountEvents(log[c.run], "decision-requested")
                      /\ c.status = action[c.run].status
    BY DEF CurrentClaimIsTrue, Informed
  <2>1. claim[w].run \in Runs
    BY DEF TypeInv, WorkerType, Informed
  <2>2. Pictures(w, claim[w].run)
    BY <2>1 DEF ClaimInv, WorkerClaimInv
  <2> QED BY <2>2 DEF Pictures
<1> QED BY <1>1, ClaimCorrect, PTL

-----------------------------------------------------------------------------
(* The events a step may append, and what the history promises.            *)

\* The kernel, row by row, for the signals a run can be sent.
LEMMA KernelSources ==
    /\ SourceStates("TRIGGER_ACCEPTED") = {NoState}
    /\ SourceStates("WAIT_DUE") = {"WAITING"}
    /\ \A signal \in MonitoringSignals : SourceStates(signal) = {"MONITORING"}
    /\ \A signal \in DecisionSignals : SourceStates(signal) = {"AWAITING_DECISION"}
    /\ \A signal \in ActionSignals : SourceStates(signal) = {"RESUMING"}
<1>1. ASSUME NEW signal \in MonitoringSignals PROVE SourceStates(signal) = {"MONITORING"}
  <2>1. signal \notin {"TRIGGER_ACCEPTED", "WAIT_DUE", "SUPERSEDED"}
        /\ signal \notin DecisionSignals /\ signal \notin ActionSignals
    BY DEF MonitoringSignals, ObservationStops, DecisionSignals, ActionSignals
  <2> QED BY <2>1 DEF SourceStates
<1>2. ASSUME NEW signal \in DecisionSignals PROVE SourceStates(signal) = {"AWAITING_DECISION"}
  <2>1. signal \notin {"TRIGGER_ACCEPTED", "WAIT_DUE", "SUPERSEDED"}
        /\ signal \notin MonitoringSignals /\ signal \notin ActionSignals
    BY DEF MonitoringSignals, ObservationStops, DecisionSignals, ActionSignals
  <2> QED BY <2>1 DEF SourceStates
<1>3. ASSUME NEW signal \in ActionSignals PROVE SourceStates(signal) = {"RESUMING"}
  <2>1. signal \notin {"TRIGGER_ACCEPTED", "WAIT_DUE", "SUPERSEDED"}
        /\ signal \notin MonitoringSignals /\ signal \notin DecisionSignals
    BY DEF MonitoringSignals, ObservationStops, DecisionSignals, ActionSignals
  <2> QED BY <2>1 DEF SourceStates
<1>4. /\ {"TRIGGER_ACCEPTED", "WAIT_DUE"} \cap MonitoringSignals = {}
      /\ {"TRIGGER_ACCEPTED", "WAIT_DUE"} \cap DecisionSignals = {}
      /\ {"TRIGGER_ACCEPTED", "WAIT_DUE"} \cap ActionSignals = {}
  BY DEF MonitoringSignals, ObservationStops, DecisionSignals, ActionSignals
<1>5. SourceStates("TRIGGER_ACCEPTED") = {NoState}
  BY <1>4 DEF SourceStates
<1>6. SourceStates("WAIT_DUE") = {"WAITING"}
  BY <1>4 DEF SourceStates
<1> QED BY <1>1, <1>2, <1>3, <1>5, <1>6

LEMMA KernelTargets ==
    /\ Target("TRIGGER_ACCEPTED") = "MONITORING" /\ Target("WAIT_DUE") = "MONITORING"
    /\ Target("NORMAL_WAIT_REQUIRED") = "WAITING"
    /\ Target("WAIT_AND_RECHECK_AUTHORIZED") = "WAITING"
    /\ Target("OBSERVATION_BUDGET_EXHAUSTED") = "AWAITING_DECISION"
    /\ Target("ESCALATE_INCIDENT_AUTHORIZED") = "RESUMING"
    /\ Target("CANDIDATE_READY") = "COMPLETED" /\ Target("EXTENSION_READY") = "COMPLETED"
    /\ Target("ACTION_CONFIRMED") = "ESCALATED"
    /\ \A signal \in ObservationStops \cup {"EXTENSION_EXHAUSTED", "DECISION_EXPIRED",
                                            "ACTION_REJECTED", "ACTION_UNCERTAIN"} :
          Target(signal) = "STOPPED"
BY DEF Target, ObservationStops

\* An event the service appends to the history l of a run with the head h: the
\* kernel accepts it, and it comes in time.
Permitted(h, l, e) ==
    /\ Accepts(h, l, e)
    /\ e.type = "observation-recorded" => h.state = "MONITORING"
    /\ e.type \in {"action-reserved", "action-attempted"} => h.state = "RESUMING"
    /\ e.signal \in {"WAIT_DUE", "DECISION_EXPIRED"} => e.at >= h.wake
    /\ e.type = "decision-recorded" => e.at < h.wake
    /\ e.type # "run-superseded"

\* The rows of the event table: an event of a type with a signal takes a run
\* from a state to a state.
Row(type, signal, from, to) ==
    \/ type = "release-triggered" /\ signal = "TRIGGER_ACCEPTED"
         /\ from = NoState /\ to = "MONITORING"
    \/ type = "observation-recorded" /\ signal = NoSignal
         /\ from = "MONITORING" /\ to = "MONITORING"
    \/ type = "wait-scheduled" /\ signal = "NORMAL_WAIT_REQUIRED"
         /\ from = "MONITORING" /\ to = "WAITING"
    \/ type = "run-woke" /\ signal = "WAIT_DUE"
         /\ from = "WAITING" /\ to = "MONITORING"
    \/ type = "decision-requested" /\ signal = "OBSERVATION_BUDGET_EXHAUSTED"
         /\ from = "MONITORING" /\ to = "AWAITING_DECISION"
    \/ type = "decision-recorded" /\ signal = "WAIT_AND_RECHECK_AUTHORIZED"
         /\ from = "AWAITING_DECISION" /\ to = "WAITING"
    \/ type = "decision-recorded" /\ signal = "ESCALATE_INCIDENT_AUTHORIZED"
         /\ from = "AWAITING_DECISION" /\ to = "RESUMING"
    \/ type \in {"action-reserved", "action-attempted"} /\ signal = NoSignal
         /\ from = "RESUMING" /\ to = "RESUMING"
    \/ type \in {"action-confirmed", "action-rejected", "action-uncertain"}
         /\ signal \in ActionSignals /\ from = "RESUMING" /\ to \in {"ESCALATED", "STOPPED"}
    \/ type = "run-completed" /\ signal \in {"CANDIDATE_READY", "EXTENSION_READY"}
         /\ from = "MONITORING" /\ to = "COMPLETED"
    \/ type = "run-stopped" /\ signal \in ObservationStops \cup {"EXTENSION_EXHAUSTED"}
         /\ from = "MONITORING" /\ to = "STOPPED"
    \/ type = "run-stopped" /\ signal = "DECISION_EXPIRED"
         /\ from = "AWAITING_DECISION" /\ to = "STOPPED"

LEMMA PermittedRow ==
    ASSUME NEW h \in Heads, NEW l \in Seq(Events), NEW e \in Events, Permitted(h, l, e)
    PROVE  Row(e.type, e.signal, h.state, Advance(h, e).state)
<1>0. /\ e.type \in EventTypes /\ Accepts(h, l, e)
      /\ e.signal = NoSignal => Advance(h, e).state = h.state
      /\ e.signal # NoSignal => Advance(h, e).state = Target(e.signal)
  BY AdvanceFields DEF Events, Permitted
<1>1. ASSUME EventSignals(e.type) # {}
      PROVE  e.signal \in EventSignals(e.type) /\ h.state \in SourceStates(e.signal)
  BY <1>0, <1>1 DEF Accepts
<1>2. CASE e.type = "release-triggered"
  <2>1. EventSignals(e.type) = {"TRIGGER_ACCEPTED"}
    BY <1>2 DEF EventSignals
  <2> QED BY <1>0, <1>1, <1>2, <2>1, KernelSources, KernelTargets DEF Row, NoSignal
<1>3. CASE e.type \in {"observation-recorded", "action-reserved", "action-attempted"}
  <2>1. EventSignals(e.type) = {}
    BY <1>3 DEF EventSignals
  <2>2. e.signal = NoSignal
    BY <1>0, <2>1 DEF Accepts
  <2> QED BY <1>0, <1>3, <2>2 DEF Row, Permitted
<1>4. CASE e.type = "wait-scheduled"
  <2>1. EventSignals(e.type) = {"NORMAL_WAIT_REQUIRED"}
    BY <1>4 DEF EventSignals
  <2>2. "NORMAL_WAIT_REQUIRED" \in MonitoringSignals
    BY DEF MonitoringSignals
  <2> QED BY <1>0, <1>1, <1>4, <2>1, <2>2, KernelSources, KernelTargets DEF Row, NoSignal
<1>5. CASE e.type = "run-woke"
  <2>1. EventSignals(e.type) = {"WAIT_DUE"}
    BY <1>5 DEF EventSignals
  <2> QED BY <1>0, <1>1, <1>5, <2>1, KernelSources, KernelTargets DEF Row, NoSignal
<1>6. CASE e.type = "decision-requested"
  <2>1. EventSignals(e.type) = {"OBSERVATION_BUDGET_EXHAUSTED"}
    BY <1>6 DEF EventSignals
  <2>2. "OBSERVATION_BUDGET_EXHAUSTED" \in MonitoringSignals
    BY DEF MonitoringSignals
  <2> QED BY <1>0, <1>1, <1>6, <2>1, <2>2, KernelSources, KernelTargets DEF Row, NoSignal
<1>7. CASE e.type = "decision-recorded"
  <2>1. EventSignals(e.type) =
          {"WAIT_AND_RECHECK_AUTHORIZED", "ESCALATE_INCIDENT_AUTHORIZED"}
    BY <1>7 DEF EventSignals
  <2>2. e.signal \in DecisionSignals
    BY <1>1, <2>1 DEF DecisionSignals
  <2>3. h.state = "AWAITING_DECISION"
    BY <1>1, <2>1, <2>2, KernelSources
  <2> QED BY <1>0, <1>1, <1>7, <2>1, <2>3, KernelTargets DEF Row, NoSignal
<1>8. CASE e.type \in {"action-confirmed", "action-rejected", "action-uncertain"}
  <2>1. EventSignals(e.type) # {} /\ EventSignals(e.type) \subseteq ActionSignals
    BY <1>8 DEF EventSignals, ActionSignals
  <2>2. e.signal \in ActionSignals
    BY <1>1, <2>1
  <2>3. h.state = "RESUMING"
    BY <1>1, <2>1, <2>2, KernelSources
  <2>4. Advance(h, e).state \in {"ESCALATED", "STOPPED"}
    BY <1>0, <2>2, KernelTargets DEF ActionSignals, NoSignal
  <2> QED BY <1>8, <2>2, <2>3, <2>4 DEF Row
<1>9. CASE e.type = "run-completed"
  <2>1. EventSignals(e.type) = {"CANDIDATE_READY", "EXTENSION_READY"}
    BY <1>9 DEF EventSignals
  <2>2. e.signal \in {"CANDIDATE_READY", "EXTENSION_READY"} /\ e.signal \in MonitoringSignals
    BY <1>1, <2>1 DEF MonitoringSignals
  <2>3. h.state = "MONITORING"
    BY <1>1, <2>1, <2>2, KernelSources
  <2>4. Advance(h, e).state = "COMPLETED"
    BY <1>0, <2>2, KernelTargets DEF NoSignal
  <2> QED BY <1>9, <2>2, <2>3, <2>4 DEF Row
<1>10. CASE e.type = "run-stopped"
  <2>1. EventSignals(e.type) = ObservationStops \cup {"DECISION_EXPIRED", "EXTENSION_EXHAUSTED"}
    BY <1>10 DEF EventSignals
  <2>2. e.signal \in ObservationStops \cup {"DECISION_EXPIRED", "EXTENSION_EXHAUSTED"}
    BY <1>1, <2>1
  <2>3. Advance(h, e).state = "STOPPED"
    BY <1>0, <2>2, KernelTargets DEF NoSignal, ObservationStops
  <2>4. CASE e.signal = "DECISION_EXPIRED"
    <3>1. h.state = "AWAITING_DECISION"
      BY <1>1, <2>1, <2>4, KernelSources DEF DecisionSignals
    <3> QED BY <1>10, <2>3, <2>4, <3>1 DEF Row
  <2>5. CASE e.signal \in ObservationStops \cup {"EXTENSION_EXHAUSTED"}
    <3>1. h.state = "MONITORING"
      BY <1>1, <2>1, <2>5, KernelSources DEF MonitoringSignals
    <3> QED BY <1>10, <2>3, <2>5, <3>1 DEF Row
  <2> QED BY <2>2, <2>4, <2>5
<1> QED
  BY <1>0, <1>2, <1>3, <1>4, <1>5, <1>6, <1>7, <1>8, <1>9, <1>10 DEF EventTypes, Permitted

\* An event that leaves its run waiting or asking carries the time to wake.
LEMMA PermittedWake ==
    ASSUME NEW h \in Heads, NEW l \in Seq(Events), NEW e \in Events, Permitted(h, l, e),
           Advance(h, e).state \in {"WAITING", "AWAITING_DECISION"}
    PROVE  e.wake \in Nat /\ Advance(h, e).wake = e.wake
<1>1. e.signal # NoSignal /\ EventSignals(e.type) # {}
  <2>1. e.signal \in {"NORMAL_WAIT_REQUIRED", "OBSERVATION_BUDGET_EXHAUSTED",
                      "WAIT_AND_RECHECK_AUTHORIZED"}
        /\ e.type \in {"wait-scheduled", "decision-requested", "decision-recorded"}
    BY PermittedRow DEF Row
  <2> QED BY <2>1 DEF EventSignals, NoSignal
<1>2. Advance(h, e).state = Target(e.signal) /\ Advance(h, e).wake = e.wake
  BY <1>1, AdvanceFields
<1>3. e.wake # None /\ e.wake \in OptionalTimes
  BY <1>1, <1>2 DEF Permitted, Accepts, Events
<1> QED BY <1>2, <1>3 DEF OptionalTimes

-----------------------------------------------------------------------------
(* One more event.                                                         *)

LEMMA AppendOne ==
    ASSUME NEW l \in Seq(Events), NEW e \in Events
    PROVE  /\ Append(l, e) \in Seq(Events) /\ Len(Append(l, e)) = Len(l) + 1
           /\ Len(l) \in Nat /\ DOMAIN l = 1..Len(l)
           /\ DOMAIN Append(l, e) = 1..(Len(l) + 1)
           /\ Append(l, e)[Len(l) + 1] = e
           /\ \A i \in 1..Len(l) : Append(l, e)[i] = l[i]
           /\ Append(l, e) # <<>>
OBVIOUS

LEMMA EventsOfAppend ==
    ASSUME NEW l \in Seq(Events), NEW e \in Events, NEW type
    PROVE  EventsOf(Append(l, e), type) =
             IF e.type = type THEN EventsOf(l, type) \cup {Len(l) + 1} ELSE EventsOf(l, type)
<1>1. 1..(Len(l) + 1) = 1..Len(l) \cup {Len(l) + 1}
  BY AppendOne
<1> QED BY <1>1, AppendOne DEF EventsOf

LEMMA EventsOfDomain ==
    ASSUME NEW l \in Seq(Events), NEW type
    PROVE  /\ EventsOf(l, type) \subseteq 1..Len(l) /\ IsFiniteSet(EventsOf(l, type))
           /\ Len(l) + 1 \notin EventsOf(l, type)
<1>1. EventsOf(l, type) \subseteq 1..Len(l) /\ Len(l) \in Nat
  BY DEF EventsOf
<1>2. Len(l) + 1 \notin 1..Len(l)
  BY <1>1
<1>3. IsFiniteSet(1..Len(l))
  BY <1>1, FS_Interval
<1>4. IsFiniteSet(EventsOf(l, type))
  BY <1>1, <1>3, FS_Subset
<1> QED BY <1>1, <1>2, <1>4

LEMMA CountAppend ==
    ASSUME NEW l \in Seq(Events), NEW e \in Events, NEW type
    PROVE  CountEvents(Append(l, e), type) =
             CountEvents(l, type) + (IF e.type = type THEN 1 ELSE 0)
<1>1. CountEvents(l, type) \in Nat
  BY CountType
<1>2. CASE e.type = type
  BY <1>2, EventsOfAppend, EventsOfDomain, FS_AddElement DEF CountEvents
<1>3. CASE e.type # type
  BY <1>1, <1>3, EventsOfAppend DEF CountEvents
<1> QED BY <1>2, <1>3

LEMMA PromptedAppend ==
    ASSUME NEW l \in Seq(Events), NEW e \in Events
    PROVE  /\ Prompted(Append(l, e)) <=> Prompted(l) \/ e.type = "decision-requested"
           /\ Authorized(Append(l, e)) <=> Authorized(l) \/ e.type = "decision-recorded"
BY EventsOfAppend DEF Prompted, Authorized

\* The choice of a history with no decision is the one its next event records;
\* no other event changes it.
LEMMA ChoiceAppend ==
    ASSUME NEW l \in Seq(Events), NEW e \in Events
    PROVE  /\ e.type # "decision-recorded" => DecisionChoice(Append(l, e)) = DecisionChoice(l)
           /\ e.type = "decision-recorded" /\ ~ Authorized(l) =>
                DecisionChoice(Append(l, e)) = IF e.signal = "WAIT_AND_RECHECK_AUTHORIZED"
                                                 THEN "WAIT_AND_RECHECK"
                                                 ELSE "ESCALATE_INCIDENT"
           /\ DecisionChoice(l) = "NONE" <=> ~ Authorized(l)
<1> DEFINE R == EventsOf(l, "decision-recorded")  S == EventsOf(Append(l, e), "decision-recorded")
<1>1. CASE e.type # "decision-recorded"
  <2>1. S = R /\ \A i \in R : Append(l, e)[i] = l[i]
    BY <1>1, EventsOfAppend, EventsOfDomain, AppendOne
  <2> QED BY <1>1, <2>1 DEF DecisionChoice, Authorized
<1>2. CASE e.type = "decision-recorded" /\ ~ Authorized(l)
  <2>1. S = {Len(l) + 1} /\ Append(l, e)[Len(l) + 1] = e
    BY <1>2, EventsOfAppend, AppendOne DEF Authorized
  <2> QED BY <1>2, <2>1 DEF DecisionChoice, Authorized
<1>3. DecisionChoice(l) = "NONE" <=> ~ Authorized(l)
  BY DEF DecisionChoice, Authorized
<1> QED BY <1>1, <1>2, <1>3

-----------------------------------------------------------------------------
(* What the history of a run promises, head by head.                       *)

\* The version counts the events, and none is later than the head.
Numbered(l, h) ==
    /\ h.version = Len(l)
    /\ h.state = NoState <=> l = <<>>
    /\ h.state = NoState => h.updatedAt = 0
    /\ \A i \in DOMAIN l : l[i].at <= h.updatedAt

\* A run that waits or asks does so by its last event, whose time to wake the
\* head carries.
Scheduled(l, h) ==
    /\ h.state = "WAITING" => IsWaitStart(l[Len(l)])
    /\ h.state = "AWAITING_DECISION" => l[Len(l)].type = "decision-requested"
    /\ h.state \in {"WAITING", "AWAITING_DECISION"} =>
          h.wake = l[Len(l)].wake /\ h.wake \in Nat

\* Every deadline was kept.
Timely(l) ==
    \A i \in DOMAIN l :
        /\ l[i].signal \in {"WAIT_DUE", "DECISION_EXPIRED"} =>
              i > 1 /\ l[i].at >= l[i - 1].wake
        /\ l[i].type = "run-woke" => i > 1 /\ IsWaitStart(l[i - 1])
        /\ l[i].type = "decision-recorded" =>
              /\ i > 1 /\ l[i].at < l[i - 1].wake
              /\ l[i - 1].type = "decision-requested"

\* One checkpoint, answered once, and the state says how far it got.
Consulted(l, h) ==
    /\ \A i, j \in DOMAIN l :
         l[i].type = l[j].type /\ l[i].type \in {"decision-requested", "decision-recorded"}
            => i = j
    /\ Authorized(l) => Prompted(l)
    /\ h.state = "AWAITING_DECISION" => ~ Authorized(l)
    /\ Prompted(l) /\ ~ Authorized(l) => h.state \in {"AWAITING_DECISION", "STOPPED"}
    /\ ~ Prompted(l) => h.state \notin {"AWAITING_DECISION", "RESUMING", "ESCALATED"}
    /\ DecisionChoice(l) = "ESCALATE_INCIDENT" => h.state \in {"RESUMING", "ESCALATED", "STOPPED"}
    /\ h.state \in {"RESUMING", "ESCALATED"} => DecisionChoice(l) = "ESCALATE_INCIDENT"

History(l, h) == Numbered(l, h) /\ Scheduled(l, h) /\ Timely(l) /\ Consulted(l, h)

LEMMA NumberedAppend ==
    ASSUME NEW h \in Heads, NEW l \in Seq(Events), NEW e \in Events, Permitted(h, l, e),
           Numbered(l, h)
    PROVE  Numbered(Append(l, e), Advance(h, e))
<1>1. /\ Advance(h, e).version = h.version + 1 /\ Advance(h, e).updatedAt = e.at
      /\ e.at \in Nat /\ h.updatedAt \in Nat /\ e.at >= h.updatedAt
  BY AdvanceFields DEF Permitted, Accepts, Events, Heads, Times
<1>2. Advance(h, e).state # NoState
  BY PermittedRow DEF Row, NoState
<1>3. \A i \in 1..Len(l) : l[i].at <= h.updatedAt /\ l[i].at \in Nat
  <2>1. ASSUME NEW i \in 1..Len(l) PROVE l[i] \in Events
    BY ElementOfSeq
  <2> QED BY <2>1, AppendOne DEF Numbered, Events, Times
<1>4. ASSUME NEW i \in 1..(Len(l) + 1) PROVE Append(l, e)[i].at <= e.at
  <2>1. CASE i \in 1..Len(l)
    BY <1>1, <1>3, <2>1, AppendOne
  <2>2. CASE i = Len(l) + 1
    BY <1>1, <2>2, AppendOne
  <2> QED BY <2>1, <2>2, AppendOne
<1> QED BY <1>1, <1>2, <1>4, AppendOne DEF Numbered

LEMMA ScheduledAppend ==
    ASSUME NEW h \in Heads, NEW l \in Seq(Events), NEW e \in Events, Permitted(h, l, e)
    PROVE  Scheduled(Append(l, e), Advance(h, e))
<1>1. Append(l, e)[Len(Append(l, e))] = e
  BY AppendOne
<1>2. Advance(h, e).state = "WAITING" => IsWaitStart(e)
  BY PermittedRow DEF Row, IsWaitStart
<1>3. Advance(h, e).state = "AWAITING_DECISION" => e.type = "decision-requested"
  BY PermittedRow DEF Row
<1> QED BY <1>1, <1>2, <1>3, PermittedWake DEF Scheduled

LEMMA TimelyAppend ==
    ASSUME NEW h \in Heads, NEW l \in Seq(Events), NEW e \in Events, Permitted(h, l, e),
           History(l, h)
    PROVE  Timely(Append(l, e))
<1>1. ASSUME NEW i \in 1..Len(l)
      PROVE  /\ Append(l, e)[i] = l[i]
             /\ i > 1 => Append(l, e)[i - 1] = l[i - 1]
  <2>1. i > 1 => i - 1 \in 1..Len(l)
    BY AppendOne
  <2> QED BY <2>1, AppendOne
<1>2. CASE e.signal \in {"WAIT_DUE", "DECISION_EXPIRED"} \/ e.type = "decision-recorded"
  <2>1. h.state \in {"WAITING", "AWAITING_DECISION"}
        /\ (e.type = "decision-recorded" => h.state = "AWAITING_DECISION"
              /\ e.signal \notin {"WAIT_DUE", "DECISION_EXPIRED"})
        /\ (e.type = "run-woke" => h.state = "WAITING")
    BY <1>2, PermittedRow DEF Row, ActionSignals, NoSignal, ObservationStops
  <2>2. /\ Len(l) # 0 /\ h.wake = l[Len(l)].wake
        /\ e.type = "decision-recorded" => l[Len(l)].type = "decision-requested"
        /\ e.type = "run-woke" => IsWaitStart(l[Len(l)])
    BY <2>1, AppendOne DEF History, Numbered, Scheduled, NoState
  <2>3. /\ Len(l) + 1 > 1 /\ (Len(l) + 1) - 1 = Len(l) /\ Len(l) \in 1..Len(l)
        /\ Append(l, e)[Len(l)] = l[Len(l)]
    BY <2>2, AppendOne
  <2>4. ASSUME NEW i \in 1..(Len(l) + 1)
        PROVE  /\ Append(l, e)[i].signal \in {"WAIT_DUE", "DECISION_EXPIRED"} =>
                    i > 1 /\ Append(l, e)[i].at >= Append(l, e)[i - 1].wake
               /\ Append(l, e)[i].type = "run-woke" =>
                    i > 1 /\ IsWaitStart(Append(l, e)[i - 1])
               /\ Append(l, e)[i].type = "decision-recorded" =>
                    /\ i > 1 /\ Append(l, e)[i].at < Append(l, e)[i - 1].wake
                    /\ Append(l, e)[i - 1].type = "decision-requested"
    <3>1. CASE i \in 1..Len(l)
      BY <1>1, <3>1, AppendOne DEF History, Timely
    <3>2. CASE i = Len(l) + 1
      BY <2>1, <2>2, <2>3, <3>2, AppendOne DEF Permitted
    <3> QED BY <3>1, <3>2, AppendOne
  <2> QED BY <2>4, AppendOne DEF Timely
<1>3. CASE e.signal \notin {"WAIT_DUE", "DECISION_EXPIRED"} /\ e.type # "decision-recorded"
  <2>0. e.type # "run-woke"
    BY <1>3, PermittedRow DEF Row
  <2>4. ASSUME NEW i \in 1..(Len(l) + 1)
        PROVE  /\ Append(l, e)[i].signal \in {"WAIT_DUE", "DECISION_EXPIRED"} =>
                    i > 1 /\ Append(l, e)[i].at >= Append(l, e)[i - 1].wake
               /\ Append(l, e)[i].type = "run-woke" =>
                    i > 1 /\ IsWaitStart(Append(l, e)[i - 1])
               /\ Append(l, e)[i].type = "decision-recorded" =>
                    /\ i > 1 /\ Append(l, e)[i].at < Append(l, e)[i - 1].wake
                    /\ Append(l, e)[i - 1].type = "decision-requested"
    <3>1. CASE i \in 1..Len(l)
      BY <1>1, <3>1, AppendOne DEF History, Timely
    <3>2. CASE i = Len(l) + 1
      BY <1>3, <2>0, <3>2, AppendOne
    <3> QED BY <3>1, <3>2, AppendOne
  <2> QED BY <2>4, AppendOne DEF Timely
<1> QED BY <1>2, <1>3

LEMMA ConsultedAppend ==
    ASSUME NEW h \in Heads, NEW l \in Seq(Events), NEW e \in Events, Permitted(h, l, e),
           Consulted(l, h)
    PROVE  Consulted(Append(l, e), Advance(h, e))
<1> DEFINE m == Append(l, e)  g == Advance(h, e)
<1>1. \A i, j \in DOMAIN m :
         m[i].type = m[j].type /\ m[i].type \in {"decision-requested", "decision-recorded"}
            => i = j
  <2>1. e.type \in {"decision-requested", "decision-recorded"} =>
           \A i \in 1..Len(l) : l[i].type # e.type
    BY AppendOne DEF Permitted, Accepts
  <2>2. ASSUME NEW i \in 1..(Len(l) + 1), NEW j \in 1..(Len(l) + 1), m[i].type = m[j].type,
               m[i].type \in {"decision-requested", "decision-recorded"}
        PROVE  i = j
    <3>1. CASE i \in 1..Len(l) /\ j \in 1..Len(l)
      BY <2>2, <3>1, AppendOne DEF Consulted
    <3>2. CASE i = Len(l) + 1 /\ j \in 1..Len(l)
      BY <2>1, <2>2, <3>2, AppendOne
    <3>3. CASE j = Len(l) + 1 /\ i \in 1..Len(l)
      BY <2>1, <2>2, <3>3, AppendOne
    <3> QED BY <3>1, <3>2, <3>3, AppendOne
  <2> QED BY <2>2, AppendOne
<1>2. /\ Prompted(m) <=> Prompted(l) \/ e.type = "decision-requested"
      /\ Authorized(m) <=> Authorized(l) \/ e.type = "decision-recorded"
  BY PromptedAppend
<1>3. /\ e.type = "decision-requested" => ~ Prompted(l)
      /\ e.type = "decision-recorded" => ~ Authorized(l)
  BY DEF Permitted, Accepts, Prompted, Authorized, EventsOf
<1>4. /\ e.type # "decision-recorded" => DecisionChoice(m) = DecisionChoice(l)
      /\ e.type = "decision-recorded" =>
           DecisionChoice(m) = IF e.signal = "WAIT_AND_RECHECK_AUTHORIZED"
                                 THEN "WAIT_AND_RECHECK" ELSE "ESCALATE_INCIDENT"
      /\ DecisionChoice(l) = "NONE" <=> ~ Authorized(l)
  BY <1>3, ChoiceAppend
<1>5. Row(e.type, e.signal, h.state, g.state)
  BY PermittedRow
<1>6. Authorized(m) => Prompted(m)
  BY <1>2, <1>5 DEF Consulted, Row
<1>7. g.state = "AWAITING_DECISION" => ~ Authorized(m)
  BY <1>2, <1>3, <1>5 DEF Consulted, Row
<1>8. Prompted(m) /\ ~ Authorized(m) => g.state \in {"AWAITING_DECISION", "STOPPED"}
  BY <1>2, <1>5 DEF Consulted, Row, NoState
<1>9. ~ Prompted(m) => g.state \notin {"AWAITING_DECISION", "RESUMING", "ESCALATED"}
  BY <1>2, <1>5 DEF Consulted, Row
<1>10. DecisionChoice(m) = "ESCALATE_INCIDENT" => g.state \in {"RESUMING", "ESCALATED", "STOPPED"}
  BY <1>4, <1>5 DEF Consulted, Row, NoState
<1>11. g.state \in {"RESUMING", "ESCALATED"} => DecisionChoice(m) = "ESCALATE_INCIDENT"
  BY <1>4, <1>5 DEF Consulted, Row
<1> QED BY <1>1, <1>6, <1>7, <1>8, <1>9, <1>10, <1>11 DEF Consulted

LEMMA HistoryAppend ==
    ASSUME NEW h \in Heads, NEW l \in Seq(Events), NEW e \in Events, Permitted(h, l, e),
           History(l, h)
    PROVE  History(Append(l, e), Advance(h, e))
BY NumberedAppend, ScheduledAppend, TimelyAppend, ConsultedAppend DEF History

\* The lease is no part of it.
LEMMA HistoryReleased ==
    ASSUME NEW l, NEW h \in Heads, NEW g \in Heads, Released(g) = Released(h), History(l, h)
    PROVE  History(l, g)
<1>1. /\ g.state = h.state /\ g.version = h.version /\ g.wake = h.wake
      /\ g.updatedAt = h.updatedAt
  BY ReleasedFields
<1> QED BY <1>1 DEF History, Numbered, Scheduled, Consulted

-----------------------------------------------------------------------------
(* What a step appends to the history of one run.                          *)

\* The step appends the event e, or e and then f, to the history of r.
Extends(r, e) ==
    /\ e \in Events /\ Permitted(head[r], log[r], e)
    /\ log'[r] = Append(log[r], e)
    /\ Released(head'[r]) = Released(Advance(head[r], e))

ExtendsTwice(r, e, f) ==
    /\ e \in Events /\ Permitted(head[r], log[r], e)
    /\ f \in Events /\ Permitted(Advance(head[r], e), Append(log[r], e), f)
    /\ log'[r] = Append(Append(log[r], e), f)
    /\ Released(head'[r]) = Released(Advance(Advance(head[r], e), f))

LedgerBeside(r) ==
    action'[r] = action[r] /\ reserved'[r] = reserved[r] /\ decisions'[r] = decisions[r]

ObservationsOf(r) == CountEvents(log[r], "observation-recorded")

Seen(t) == Event("observation-recorded", NoSignal, t, None)

\* The run is created.
Triggers(r) ==
    /\ ~ Exists(r) /\ LedgerBeside(r)
    /\ Extends(r, Event("release-triggered", "TRIGGER_ACCEPTED", now, None))

\* An observation that waits for the next, that asks a person, that ends the run.
WaitsAgain(r, t) ==
    /\ LedgerBeside(r) /\ ~ Prompted(log[r])
    /\ ObservationsOf(r) + 1 < NormalObservations
    /\ ExtendsTwice(r, Seen(t), Event("wait-scheduled", "NORMAL_WAIT_REQUIRED", t, t + Delay))

Asks(r, t) ==
    /\ LedgerBeside(r) /\ ~ Prompted(log[r])
    /\ ObservationsOf(r) + 1 >= NormalObservations
    /\ ExtendsTwice(r, Seen(t), Event("decision-requested", "OBSERVATION_BUDGET_EXHAUSTED",
                                      t, t + DecisionTTL))

Verdicts(r) ==
    IF Prompted(log[r]) THEN {"EXTENSION_READY", "EXTENSION_EXHAUSTED"}
    ELSE {"CANDIDATE_READY"} \cup
         (IF ObservationsOf(r) = 0 THEN {"EVIDENCE_INVALID", "REQUIRED_CI_FAILED"} ELSE {})

Concludes(r, signal, t) ==
    /\ LedgerBeside(r) /\ signal \in Verdicts(r)
    /\ \E type \in {"run-completed", "run-stopped"} :
         ExtendsTwice(r, Seen(t), Event(type, signal, t, None))

\* The wait is over; the observation failed or the prompt expired.
Wakes(r, t) ==
    LedgerBeside(r) /\ Extends(r, Event("run-woke", "WAIT_DUE", t, None))

Stops(r, signal, t) ==
    /\ LedgerBeside(r) /\ signal \in ObservationFailures \cup {"DECISION_EXPIRED"}
    /\ Extends(r, Event("run-stopped", signal, t, None))

\* A person decides.
Notes(r, key, choice, expected, fingerprint) ==
    \E version : decisions'[r] = decisions[r] \cup
        {[key |-> key, choice |-> choice, expected |-> expected,
          fingerprint |-> fingerprint, version |-> version]}

DecidesToWait(r, key, expected) ==
    /\ action'[r] = action[r] /\ reserved'[r] = reserved[r]
    /\ Notes(r, key, "WAIT_AND_RECHECK", expected, NoFingerprint)
    /\ Extends(r, Event("decision-recorded", "WAIT_AND_RECHECK_AUTHORIZED", now, now + Extension))

DecidesToEscalate(r, key, expected) ==
    /\ ActionEnabled
    /\ action'[r] = [action[r] EXCEPT !.status = "RESERVED"]
    /\ reserved'[r] = Fingerprint(log[r], now)
    /\ Notes(r, key, "ESCALATE_INCIDENT", expected, Fingerprint(log[r], now))
    /\ ExtendsTwice(r, Event("decision-recorded", "ESCALATE_INCIDENT_AUTHORIZED", now, None),
                       Event("action-reserved", NoSignal, now, None))

\* The action is attempted, and settled.
Attempts(r, t) ==
    /\ action[r].status = "RESERVED"
    /\ action'[r] = [action[r] EXCEPT !.status = "IN_FLIGHT", !.attempts = 1]
    /\ reserved'[r] = reserved[r] /\ decisions'[r] = decisions[r]
    /\ Extends(r, ActionAttempted(t))

Settles(r, result, t) ==
    /\ action[r].status = "IN_FLIGHT"
    /\ action'[r].status = result /\ action'[r].attempts = action[r].attempts
    /\ reserved'[r] = reserved[r] /\ decisions'[r] = decisions[r]
    /\ Extends(r, ActionEvent(result, t))

\* No event is dated later than the step that appends it.
Grows(r) ==
    \/ Triggers(r)
    \/ \E t \in 0..now : WaitsAgain(r, t) \/ Asks(r, t) \/ Wakes(r, t) \/ Attempts(r, t)
    \/ \E t \in 0..now, signal \in Signals : Concludes(r, signal, t) \/ Stops(r, signal, t)
    \/ \E key \in Keys, expected \in Nat : DecidesToWait(r, key, expected)
                                           \/ DecidesToEscalate(r, key, expected)
    \/ \E t \in 0..now, result \in ActionResults : Settles(r, result, t)

\* A worker about to stop its run has seen an observation fail.
FailureInv == \A w \in Workers : pc[w] = "stop" => outcome[w] \in ObservationFailures

LEMMA FailureInit == Init => FailureInv
BY DEF Init, FailureInv

LEMMA FailureStep ==
    ASSUME TypeInv, FailureInv, [Next]_vars
    PROVE  FailureInv'
<1>0. /\ pc \in [Workers -> PCs]
      /\ outcome \in [Workers -> Signals \cup ActionResults \cup {"NONE"}]
  BY DEF TypeInv, WorkerType
<1>1. ASSUME UNCHANGED <<pc, outcome>> PROVE FailureInv'
  BY <1>1 DEF FailureInv
<1>2. ASSUME NEW w \in Workers, NEW label \in {"idle", "recover", "claim", "read", "wake",
                "expire", "begin", "calling", "posted", "finish", "observing", "commit"}, Goto(w, label),
             \A v \in Workers \ {w} : outcome'[v] = outcome[v]
      PROVE  FailureInv'
  BY <1>0, <1>2 DEF FailureInv, Goto
<1>3. ASSUME NEW w \in Workers, EndTick(w) PROVE FailureInv'
  BY <1>0, <1>2, <1>3 DEF EndTick
<1>4. ASSUME NEW w \in Workers, WorkerStep(w) PROVE FailureInv'
  <2>1. ASSUME NEW label \in {"recover", "claim", "read", "calling", "posted"}, Goto(w, label),
               UNCHANGED outcome
        PROVE  FailureInv'
    BY <1>2, <2>1
  <2>2. CASE StartTick(w)
    BY <2>1, <2>2 DEF StartTick
  <2>12. ASSUME Recover(w), CanRecover(at[w]) PROVE FailureInv'
    BY <2>1, <2>12 DEF Recover
  <2>3. ASSUME NEW r \in Runs, ClaimDue(w, r) PROVE FailureInv'
    BY <2>1, <2>3 DEF ClaimDue
  <2>4. CASE Begin(w)
    BY <2>1, <2>4 DEF Begin
  <2>5. CASE SendPost(w)
    BY <2>1, <2>5 DEF SendPost
  <2>6. CASE ReadClaim(w)
    <3>1. CASE Branch(FullClaim(claim[w])) = "throw"
      BY <1>3, <2>6, <3>1 DEF ReadClaim
    <3>2. CASE Branch(FullClaim(claim[w])) # "throw"
      <4>1. Goto(w, Branch(FullClaim(claim[w]))) /\ UNCHANGED outcome
        BY <2>6, <3>2 DEF ReadClaim
      <4>2. Branch(FullClaim(claim[w])) \in {"wake", "expire", "begin", "observing"}
        BY <3>2 DEF Branch
      <4> QED BY <1>2, <4>1, <4>2
    <3> QED BY <3>1, <3>2
  <2>7. ASSUME NEW result, NEW label \in {"finish", "commit"}, Await(w, label, result)
        PROVE  FailureInv'
    <3>1. \A v \in Workers \ {w} : outcome'[v] = outcome[v]
      BY <1>0, <2>7 DEF Await
    <3> QED BY <1>2, <2>7, <3>1 DEF Await
  <2>8. ASSUME NEW result, IncidentReturns(w, result) PROVE FailureInv'
    BY <2>7, <2>8 DEF IncidentReturns
  <2>9. ASSUME NEW signal, Observed(w, signal) PROVE FailureInv'
    BY <2>7, <2>9 DEF Observed
  <2>10. ASSUME NEW signal \in ObservationFailures, ObservationFailed(w, signal)
         PROVE  FailureInv'
    <3>1. outcome' = [outcome EXCEPT ![w] = signal] /\ pc' = [pc EXCEPT ![w] = "stop"]
      BY <2>10 DEF ObservationFailed, Await, Goto
    <3> QED BY <1>0, <3>1 DEF FailureInv
  <2>11. CASE NothingDue(w) \/ Wake(w) \/ Expire(w) \/ Finish(w) \/ Commit(w) \/ StopRun(w)
              \/ Refused(w)
    BY <1>3, <2>11 DEF NothingDue, Wake, Expire, Finish, Commit, StopRun, Refused
  <2> QED
    BY <1>4, <2>2, <2>3, <2>4, <2>5, <2>6, <2>8, <2>9, <2>10, <2>11, <2>12
       DEF WorkerStep, Recover, WakeRefused, ExpireRefused, BeginRefused, FinishRefused,
           ObservationDropped, CommitRefused, StopRunRefused
<1>5. ASSUME Environment PROVE FailureInv'
  BY <1>1, <1>5
     DEF Environment, Tick, Trigger, ProviderAccepts, ProviderRefuses, Submit, workerVars
<1>6. ASSUME NEW w \in Workers, Locked(w) \/ Restart(w) \/ Stop(w) PROVE FailureInv'
  BY <1>1, <1>3, <1>6 DEF Locked, Refused, Restart, Stop
<1>7. CASE UNCHANGED vars
  BY <1>1, <1>7 DEF vars, workerVars
<1> QED BY <1>4, <1>5, <1>6, <1>7 DEF Next

-----------------------------------------------------------------------------
(* Every step keeps a run, or extends its history in one of these ways.    *)

LEMMA RecordOne ==
    ASSUME LedgerType, NEW r \in Runs, NEW e \in Events, Record(r, <<e>>),
           Permitted(head[r], log[r], e)
    PROVE  Extends(r, e)
<1>1. head[r] \in Heads /\ log[r] \in Seq(Events) /\ <<e>> \in Batches
  BY BatchOne DEF LedgerType
<1>2. log'[r] = log[r] \o <<e>> /\ head'[r] = Released(AdvanceAll(head[r], <<e>>))
  BY DEF Record, LedgerType
<1>3. log[r] \o <<e>> = Append(log[r], e)
  BY <1>1, AppendIsConcat
<1>4. AdvanceAll(head[r], <<e>>) = Advance(head[r], e)
  BY DEF AdvanceAll
<1>5. Advance(head[r], e) \in Heads
  BY <1>1, AdvanceType
<1>6. Released(Released(Advance(head[r], e))) = Released(Advance(head[r], e))
  BY <1>5 DEF Released, Heads
<1> QED BY <1>2, <1>3, <1>4, <1>6 DEF Extends

LEMMA RecordTwo ==
    ASSUME LedgerType, NEW r \in Runs, NEW e \in Events, NEW f \in Events,
           Record(r, <<e, f>>), Permitted(head[r], log[r], e),
           Permitted(Advance(head[r], e), Append(log[r], e), f)
    PROVE  ExtendsTwice(r, e, f)
<1>1. head[r] \in Heads /\ log[r] \in Seq(Events)
  BY DEF LedgerType
<1>2. log'[r] = log[r] \o <<e, f>> /\ head'[r] = Released(AdvanceAll(head[r], <<e, f>>))
  BY DEF Record, LedgerType
<1>3. log[r] \o <<e, f>> = Append(Append(log[r], e), f)
  <2>1. <<e, f>> = Append(<<e>>, f) /\ <<e>> \in Seq(Events)
    OBVIOUS
  <2>2. Append(<<e>>, f) = <<e>> \o <<f>> /\ <<f>> \in Seq(Events)
    BY <2>1, AppendIsConcat
  <2>3. log[r] \o (<<e>> \o <<f>>) = (log[r] \o <<e>>) \o <<f>>
    BY <1>1, <2>1, <2>2, ConcatAssociative
  <2>4. log[r] \o <<e>> = Append(log[r], e) /\ Append(log[r], e) \in Seq(Events)
    BY <1>1, AppendIsConcat, AppendOne
  <2>5. Append(log[r], e) \o <<f>> = Append(Append(log[r], e), f)
    BY <2>4, AppendIsConcat
  <2> QED BY <2>1, <2>2, <2>3, <2>4, <2>5
<1>4. AdvanceAll(head[r], <<e, f>>) = Advance(Advance(head[r], e), f)
  BY DEF AdvanceAll
<1>5. Advance(Advance(head[r], e), f) \in Heads
  BY <1>1, AdvanceType
<1>6. Released(Released(Advance(Advance(head[r], e), f)))
        = Released(Advance(Advance(head[r], e), f))
  BY <1>5 DEF Released, Heads
<1> QED BY <1>2, <1>3, <1>4, <1>6 DEF ExtendsTwice

\* A count of zero is the absence of the event.
LEMMA NoPrompt ==
    ASSUME NEW l \in Seq(Events), NEW type
    PROVE  CountEvents(l, type) = 0 <=> EventsOf(l, type) = {}
<1>1. IsFiniteSet(EventsOf(l, type))
  BY EventsOfDomain
<1> QED BY <1>1, FS_EmptySet DEF CountEvents

\* A claim that passes the version check pictures its run.
LEMMA ClaimPictures ==
    ASSUME ClaimInv, NEW w \in Workers, claim[w].run \in Runs,
           claim[w].version = head[claim[w].run].version
    PROVE  Pictures(w, claim[w].run)
BY DEF ClaimInv, WorkerClaimInv

LEMMA CommitGrowth ==
    ASSUME ServiceAssumption, TypeInv, ClaimInv, NEW w \in Workers, Commit(w)
    PROVE  Grows(claim[w].run)
<1> DEFINE r == claim[w].run  c == claim[w]  signal == outcome[w]  t == at[w]
           h == head[r]  l == log[r]
<1>a. t \in Nat /\ t \in 0..now
  BY DEF TypeInv, WorkerType
<1>0. /\ LedgerType /\ r \in Runs /\ t \in Nat /\ c \in Claims
      /\ h \in Heads /\ l \in Seq(Events) /\ pc[w] \in Informed
  BY <1>a DEF TypeInv, WorkerType, LedgerType, Commit, Informed
<1>1. /\ ObservationAdmitted(c, signal)
      /\ c.version = h.version /\ AcceptsAll(h, l, ObservationEvents(c, signal, t))
      /\ Record(r, ObservationEvents(c, signal, t))
      /\ LedgerBeside(r)
  BY DEF Commit, CommitObservation, CanCommitObservation, AppendTransition, CanAppend,
         LedgerBeside
<1>2. /\ c.state = h.state /\ c.observations = ObservationsOf(r)
      /\ c.prompts = CountEvents(l, "decision-requested")
      /\ c.observations \in Nat /\ c.prompts \in Nat
      /\ c.prompts = 0 <=> ~ Prompted(l)
  BY <1>0, <1>1, ClaimPictures, NoPrompt DEF Pictures, ObservationsOf, Prompted, Claims
<1>3. h.state = "MONITORING" /\ signal \in ObservationSignals(Phase(c))
  BY <1>1, <1>2 DEF ObservationAdmitted
<1>4. /\ Seen(t) \in Events /\ Seen(t).type = "observation-recorded"
      /\ Seen(t).signal = NoSignal
  BY <1>0, EventType DEF Seen, EventTypes, Times, OptionalTimes, Event
<1>5. ASSUME NEW f \in Events, ObservationEvents(c, signal, t) = <<Seen(t), f>>,
             f.type \in {"wait-scheduled", "decision-requested", "run-completed", "run-stopped"},
             f.signal \notin {"WAIT_DUE", "DECISION_EXPIRED"}
      PROVE  ExtendsTwice(r, Seen(t), f)
  <2>1. Accepts(h, l, Seen(t)) /\ Accepts(Advance(h, Seen(t)), Append(l, Seen(t)), f)
    BY <1>1, <1>5 DEF AcceptsAll
  <2>2. Permitted(h, l, Seen(t))
    BY <1>3, <1>4, <2>1 DEF Permitted, NoSignal
  <2>3. Permitted(Advance(h, Seen(t)), Append(l, Seen(t)), f)
    BY <1>5, <2>1 DEF Permitted
  <2> QED BY <1>0, <1>1, <1>4, <1>5, <2>2, <2>3, RecordTwo
<1>6. /\ Target("NORMAL_WAIT_REQUIRED") # "COMPLETED"
      /\ Seen(t) = Event("observation-recorded", NoSignal, t, None)
  BY KernelTargets DEF Seen
<1>7. CASE signal = "NORMAL_WAIT_REQUIRED" /\ c.observations + 1 < NormalObservations
  <2> DEFINE f == Event("wait-scheduled", "NORMAL_WAIT_REQUIRED", t, t + Delay)
  <2>0. ~ LastNormalObservation(c)
    BY <1>2, <1>7 DEF LastNormalObservation, ServiceAssumption
  <2>1. ObservationEvents(c, signal, t) = <<Seen(t), f>>
    BY <1>6, <1>7, <2>0 DEF ObservationEvents
  <2>2. f \in Events /\ f.type = "wait-scheduled" /\ f.signal = "NORMAL_WAIT_REQUIRED"
    <3>1. t + Delay \in OptionalTimes
      BY <1>0 DEF ServiceAssumption, OptionalTimes
    <3> QED BY <1>0, <3>1, EventType DEF EventTypes, Signals, MonitoringSignals, Times, Event
  <2>3. ~ Prompted(l)
    BY <1>1, <1>2, <1>7 DEF ObservationAdmitted
  <2>4. WaitsAgain(r, t)
    BY <1>1, <1>2, <1>5, <1>7, <2>1, <2>2, <2>3 DEF WaitsAgain
  <2> QED BY <1>a, <2>4 DEF Grows
<1>8. CASE signal = "NORMAL_WAIT_REQUIRED" /\ c.observations + 1 >= NormalObservations
  <2> DEFINE f == Event("decision-requested", "OBSERVATION_BUDGET_EXHAUSTED", t, t + DecisionTTL)
  <2>0. LastNormalObservation(c)
    BY <1>8 DEF LastNormalObservation
  <2>1. ObservationEvents(c, signal, t) = <<Seen(t), f>>
    BY <1>6, <1>8, <2>0 DEF ObservationEvents
  <2>2. f \in Events /\ f.type = "decision-requested"
        /\ f.signal = "OBSERVATION_BUDGET_EXHAUSTED"
    <3>1. t + DecisionTTL \in OptionalTimes
      BY <1>0 DEF ServiceAssumption, OptionalTimes
    <3> QED BY <1>0, <3>1, EventType DEF EventTypes, Signals, MonitoringSignals, Times, Event
  <2>3. ~ Prompted(l)
    BY <1>1, <1>2, <1>8 DEF ObservationAdmitted
  <2>4. Asks(r, t)
    BY <1>1, <1>2, <1>5, <1>8, <2>1, <2>2, <2>3 DEF Asks
  <2> QED BY <1>a, <2>4 DEF Grows
<1>9. CASE signal # "NORMAL_WAIT_REQUIRED"
  <2> DEFINE type == IF Target(signal) = "COMPLETED" THEN "run-completed" ELSE "run-stopped"
             f == Event(type, signal, t, None)
  <2>1. ObservationEvents(c, signal, t) = <<Seen(t), f>>
    <3>1. CASE Target(signal) = "COMPLETED"
      BY <1>6, <1>9, <3>1 DEF ObservationEvents
    <3>2. CASE Target(signal) # "COMPLETED"
      BY <1>6, <1>9, <3>2 DEF ObservationEvents
    <3> QED BY <3>1, <3>2
  <2>2. signal \in Verdicts(r)
    <3>1. CASE Phase(c) = "FIRST_OBSERVATION"
      <4>1. c.prompts = 0 /\ c.observations = 0
        BY <1>2, <3>1 DEF Phase
      <4>2. signal \in {"EVIDENCE_INVALID", "REQUIRED_CI_FAILED", "CANDIDATE_READY"}
        BY <1>3, <1>9, <3>1 DEF ObservationSignals
      <4> QED BY <1>2, <4>1, <4>2 DEF Verdicts
    <3>2. CASE Phase(c) = "LATER_OBSERVATION"
      <4>1. c.prompts = 0
        BY <1>2, <3>2 DEF Phase
      <4>2. signal = "CANDIDATE_READY"
        BY <1>3, <1>9, <3>2 DEF ObservationSignals
      <4> QED BY <1>2, <4>1, <4>2 DEF Verdicts
    <3>3. CASE Phase(c) = "EXTENSION_OBSERVATION"
      <4>1. c.prompts # 0
        BY <1>2, <3>3 DEF Phase
      <4>2. signal \in {"EXTENSION_READY", "EXTENSION_EXHAUSTED"}
        BY <1>3, <3>3 DEF ObservationSignals
      <4> QED BY <1>2, <4>1, <4>2 DEF Verdicts
    <3>4. CASE Phase(c) \notin {"FIRST_OBSERVATION", "LATER_OBSERVATION", "EXTENSION_OBSERVATION"}
      BY <1>3, <3>4 DEF ObservationSignals
    <3> QED BY <3>1, <3>2, <3>3, <3>4
  <2>3. signal \in Signals /\ signal \notin {"WAIT_DUE", "DECISION_EXPIRED"}
    BY <2>2 DEF Verdicts, Signals, MonitoringSignals, ObservationStops
  <2>4. f \in Events /\ f.type = type /\ type \in {"run-completed", "run-stopped"}
        /\ f.signal = signal
    BY <1>0, <2>3, EventType DEF EventTypes, Times, OptionalTimes, Event
  <2>5. ExtendsTwice(r, Seen(t), f)
    BY <1>5, <2>1, <2>3, <2>4
  <2>6. Concludes(r, signal, t)
    BY <1>1, <2>2, <2>4, <2>5 DEF Concludes
  <2> QED BY <1>a, <2>3, <2>6 DEF Grows
<1>10. c.observations + 1 < NormalObservations \/ c.observations + 1 >= NormalObservations
  BY <1>2 DEF ServiceAssumption
<1> QED BY <1>7, <1>8, <1>9, <1>10

LEMMA TriggerGrowth ==
    ASSUME TypeInv, NEW r \in Runs, Numbered(log[r], head[r]), Trigger(r)
    PROVE  Triggers(r)
<1> DEFINE e == Event("release-triggered", "TRIGGER_ACCEPTED", now, None)
<1>0. LedgerType /\ now \in Nat /\ head[r] \in Heads
  BY DEF TypeInv, WorkerType, LedgerType
<1>1. /\ ~ Exists(r) /\ Record(r, <<e>>) /\ LedgerBeside(r)
  BY DEF Trigger, CreateRunFromWebhook, LedgerBeside
<1>2. e \in Events /\ e.type = "release-triggered" /\ e.signal = "TRIGGER_ACCEPTED"
      /\ e.at = now /\ e.wake = None
  BY <1>0, EventType DEF EventTypes, Signals, Times, OptionalTimes, Event
<1>3. EventSignals(e.type) = {"TRIGGER_ACCEPTED"}
  BY <1>2 DEF EventSignals
<1>4. head[r].state = NoState /\ head[r].updatedAt = 0
  BY <1>1 DEF Exists, Numbered
<1>5. Accepts(head[r], log[r], e)
  BY <1>0, <1>2, <1>3, <1>4, KernelSources, KernelTargets DEF Accepts
<1>6. Permitted(head[r], log[r], e)
  BY <1>2, <1>5 DEF Permitted
<1> QED BY <1>0, <1>1, <1>2, <1>6, RecordOne DEF Triggers

LEMMA WakeGrowth ==
    ASSUME TypeInv, ClaimInv, NEW w \in Workers, Wake(w)
    PROVE  Wakes(claim[w].run, at[w])
<1> DEFINE e == Event("run-woke", "WAIT_DUE", at[w], None)
<1> SUFFICES ASSUME NEW r \in Runs, claim[w].run = r PROVE Wakes(r, at[w])
  BY DEF TypeInv, WorkerType, Wake
<1>0. LedgerType /\ at[w] \in Nat /\ pc[w] \in Informed
  BY DEF TypeInv, WorkerType, Wake, Informed
<1>1. /\ claim[w].wake <= at[w] /\ claim[w].version = head[r].version
      /\ AcceptsAll(head[r], log[r], <<e>>) /\ Record(r, <<e>>) /\ LedgerBeside(r)
  BY DEF Wake, WakeDueRun, CanWake, WakeEvents, AppendTransition, CanAppend, LedgerBeside
<1>2. head[r].wake = claim[w].wake
  BY <1>1, ClaimPictures DEF Pictures
<1>3. e \in Events /\ e.type = "run-woke" /\ e.signal = "WAIT_DUE" /\ e.at = at[w]
  BY <1>0, EventType DEF EventTypes, Signals, Times, OptionalTimes, Event
<1>4. Accepts(head[r], log[r], e)
  BY <1>1 DEF AcceptsAll
<1>5. e.at >= head[r].wake
  BY <1>0, <1>1, <1>2, <1>3 DEF TypeInv, LedgerType, Heads, OptionalTimes, None
<1>6. Permitted(head[r], log[r], e)
  BY <1>3, <1>4, <1>5 DEF Permitted
<1> QED BY <1>0, <1>1, <1>3, <1>6, RecordOne DEF Wakes

LEMMA StopGrowth ==
    ASSUME TypeInv, NEW w \in Workers, NEW r \in Runs, claim[w].run = r,
           NEW signal \in ObservationFailures \cup {"DECISION_EXPIRED"},
           StopClaim(claim[w], signal, at[w]),
           signal = "DECISION_EXPIRED" => at[w] >= head[r].wake
    PROVE  Stops(r, signal, at[w])
<1> DEFINE e == Event("run-stopped", signal, at[w], None)
<1>0. LedgerType /\ at[w] \in Nat
  BY DEF TypeInv, WorkerType
<1>1. /\ AcceptsAll(head[r], log[r], <<e>>) /\ Record(r, <<e>>) /\ LedgerBeside(r)
  BY DEF StopClaim, CanStop, StopEvents, AppendTransition, CanAppend, LedgerBeside
<1>2. signal \in Signals /\ signal # "WAIT_DUE"
  BY DEF ObservationFailures, Signals, MonitoringSignals, ObservationStops, DecisionSignals
<1>3. e \in Events /\ e.type = "run-stopped" /\ e.signal = signal /\ e.at = at[w]
  BY <1>0, <1>2, EventType DEF EventTypes, Times, OptionalTimes, Event
<1>4. Accepts(head[r], log[r], e)
  BY <1>1 DEF AcceptsAll
<1>5. Permitted(head[r], log[r], e)
  BY <1>2, <1>3, <1>4 DEF Permitted
<1> QED BY <1>0, <1>1, <1>3, <1>5, RecordOne DEF Stops

LEMMA ActionEventRow ==
    ASSUME NEW result \in ActionResults, NEW t \in Nat
    PROVE  /\ ActionEvent(result, t) \in Events /\ ActionEvent(result, t).at = t
           /\ ActionEvent(result, t).wake = None
           /\ ActionEvent(result, t).type
                \in {"action-confirmed", "action-rejected", "action-uncertain"}
           /\ ActionEvent(result, t).signal \in ActionSignals
<1>1. ActionEvent(result, t) \in Events
  BY ActionEventType
<1>2. CASE result = "CONFIRMED"
  BY <1>1, <1>2 DEF ActionEvent, Event, ActionSignals
<1>3. CASE result = "REJECTED"
  BY <1>1, <1>3 DEF ActionEvent, Event, ActionSignals
<1>4. CASE result = "UNCERTAIN"
  BY <1>1, <1>4 DEF ActionEvent, Event, ActionSignals
<1> QED BY <1>2, <1>3, <1>4 DEF ActionResults

LEMMA SettlePermitted ==
    ASSUME NEW r \in Runs, NEW result \in ActionResults, NEW t \in Nat,
           Accepts(head[r], log[r], ActionEvent(result, t))
    PROVE  Permitted(head[r], log[r], ActionEvent(result, t))
BY ActionEventRow DEF Permitted, ActionSignals

LEMMA FinishGrowth ==
    ASSUME TypeInv, NEW w \in Workers, Finish(w)
    PROVE  Settles(claim[w].run, outcome[w], at[w]) /\ outcome[w] \in ActionResults
<1> SUFFICES ASSUME NEW r \in Runs, claim[w].run = r,
                    NEW result \in ActionResults, outcome[w] = result
             PROVE  Settles(r, result, at[w])
  BY DEF TypeInv, WorkerType, Finish
<1>0. LedgerType /\ at[w] \in Nat /\ action \in [Runs -> Actions]
  BY DEF TypeInv, WorkerType, LedgerType
<1>1. /\ CanFinish(r, result, at[w]) /\ Record(r, <<ActionEvent(result, at[w])>>)
      /\ action' = [action EXCEPT ![r].status = result, ![r].receipt = result]
      /\ UNCHANGED <<reserved, decisions>>
  BY DEF Finish, FinishExternalAction
<1>2. Extends(r, ActionEvent(result, at[w]))
  BY <1>0, <1>1, SettlePermitted, ActionEventRow, RecordOne DEF CanFinish
<1>3. action'[r].status = result /\ action'[r].attempts = action[r].attempts
  BY <1>0, <1>1 DEF Actions
<1> QED BY <1>1, <1>2, <1>3 DEF Settles, CanFinish

LEMMA RecoverGrowth ==
    ASSUME TypeInv, NEW r \in Runs, NEW t \in Nat, RecoverAbandonedWork(t)
    PROVE  Kept(r) \/ Settles(r, "UNCERTAIN", t)
<1>0. LedgerType /\ head[r] \in Heads /\ action[r] \in Actions
  BY DEF TypeInv, WorkerType, LedgerType
<1>1. CASE r \notin Abandoned(t)
  <2>1. /\ log'[r] = log[r] /\ action'[r] = action[r]
        /\ reserved'[r] = reserved[r] /\ decisions'[r] = decisions[r]
        /\ head'[r] = IF LeaseFree(r, t) THEN Released(head[r]) ELSE head[r]
    BY <1>1 DEF RecoverAbandonedWork
  <2>2. Released(Released(head[r])) = Released(head[r])
    BY <1>0 DEF Released, Heads
  <2> QED BY <2>1, <2>2 DEF Kept
<1>2. CASE r \in Abandoned(t)
  <2> DEFINE e == ActionEvent("UNCERTAIN", t)
  <2>1. /\ log'[r] = Append(log[r], e)
        /\ action'[r] = [action[r] EXCEPT !.status = "UNCERTAIN"]
        /\ reserved'[r] = reserved[r] /\ decisions'[r] = decisions[r]
        /\ head'[r] = Released(Advance(head[r], e))
        /\ Accepts(head[r], log[r], e) /\ action[r].status = "IN_FLIGHT"
    BY <1>2 DEF RecoverAbandonedWork, CanRecover, RecoveryEvent, Abandoned
  <2>2. e \in Events /\ Permitted(head[r], log[r], e)
    BY <1>0, <2>1, SettlePermitted, ActionEventRow DEF ActionResults
  <2>3. Released(Released(Advance(head[r], e))) = Released(Advance(head[r], e))
    BY <1>0, <2>2, AdvanceType DEF Released, Heads
  <2>4. action'[r].status = "UNCERTAIN" /\ action'[r].attempts = action[r].attempts
    BY <1>0, <2>1 DEF Actions
  <2> QED BY <2>1, <2>2, <2>3, <2>4 DEF Settles, Extends
<1> QED BY <1>1, <1>2

LEMMA BeginGrowth ==
    ASSUME TypeInv, NEW w \in Workers, Begin(w)
    PROVE  Attempts(claim[w].run, at[w])
<1> DEFINE e == ActionAttempted(at[w])
<1> SUFFICES ASSUME NEW r \in Runs, claim[w].run = r PROVE Attempts(r, at[w])
  BY DEF TypeInv, WorkerType, Begin
<1>0. LedgerType /\ at[w] \in Nat
  BY DEF TypeInv, WorkerType
<1>1. /\ action[r].status = "RESERVED" /\ head[r].state = "RESUMING"
      /\ Accepts(head[r], log[r], e)
      /\ log' = [log EXCEPT ![r] = Append(@, e)]
      /\ head' = [head EXCEPT ![r] = Advance(@, e)]
      /\ action' = [action EXCEPT ![r].status = "IN_FLIGHT", ![r].attempts = 1]
      /\ UNCHANGED <<reserved, decisions>>
  BY DEF Begin, BeginIncidentAction, BeginExternalAction, CanBegin
<1>2. e \in Events /\ e.type = "action-attempted" /\ e.signal = NoSignal
  BY <1>0, EventType DEF ActionAttempted, EventTypes, Times, OptionalTimes, Event
<1>3. Permitted(head[r], log[r], e)
  BY <1>1, <1>2 DEF Permitted, NoSignal
<1>4. log'[r] = Append(log[r], e) /\ head'[r] = Advance(head[r], e)
      /\ action'[r] = [action[r] EXCEPT !.status = "IN_FLIGHT", !.attempts = 1]
  BY <1>0, <1>1 DEF LedgerType
<1> QED BY <1>1, <1>2, <1>3, <1>4 DEF Attempts, Extends

\* A recorded decision is dated by its arrival, since none was recorded before,
\* and comes strictly before the expiry.
LEMMA SubmitGrowth ==
    ASSUME ServiceAssumption, TypeInv, NEW r \in Runs, NEW key, NEW choice \in DecisionChoices,
           NEW expected, Submit(r, key, choice, expected)
    PROVE  DecidesToWait(r, key, expected) \/ DecidesToEscalate(r, key, expected)
<1> DEFINE l == log[r]  h == head[r]
           t == SubmittedAt(l, now)  wake == SubmittedWake(l, choice, now)
           print == SubmittedFingerprint(l, choice, now)  es == DecisionEvents(choice, t, wake)
<1>0. LedgerType /\ now \in Nat /\ h \in Heads /\ l \in Seq(Events) /\ action[r] \in Actions
      /\ now + Extension \in Nat
  BY DEF TypeInv, WorkerType, LedgerType, ServiceAssumption
<1>1. RecordDecision(r, key, choice, expected, print, t, wake)
  BY DEF Submit, SubmitDecision
<1>2. DecisionReply(r, key, choice, expected, print, t, wake) = "recorded"
  BY <1>1 DEF RecordDecision
<1>3. h.state = "AWAITING_DECISION" /\ ~ (h.wake <= t) /\ AcceptsAll(h, l, es)
  BY <1>2 DEF DecisionReply
<1>4. choice = "ESCALATE_INCIDENT" => ActionEnabled
  BY DEF Submit, SubmitDecision, SubmitReply
<1>5. Record(r, es)
  BY <1>1 DEF RecordDecision
<1>13. decisions' = [decisions EXCEPT ![r] = @ \cup
           {[key |-> key, choice |-> choice, expected |-> expected, fingerprint |-> print,
             version |-> AdvanceAll(h, es).version]}]
  BY <1>1 DEF RecordDecision
<1>14. ASSUME choice = "ESCALATE_INCIDENT"
       PROVE  /\ action' = [action EXCEPT ![r].status = "RESERVED"]
              /\ reserved' = [reserved EXCEPT ![r] = print]
  BY <1>1, <1>14 DEF RecordDecision
<1>15. ASSUME choice # "ESCALATE_INCIDENT" PROVE UNCHANGED <<action, reserved>>
  BY <1>1, <1>15 DEF RecordDecision
<1>6. Notes(r, key, choice, expected, print)
  <2>1. decisions'[r] = decisions[r] \cup
           {[key |-> key, choice |-> choice, expected |-> expected, fingerprint |-> print,
             version |-> AdvanceAll(h, es).version]}
    BY <1>0, <1>13 DEF LedgerType
  <2> QED BY <2>1 DEF Notes
<1>7. es[1].type = "decision-recorded" /\ Accepts(h, l, es[1])
  BY <1>3 DEF DecisionEvents, Event, AcceptsAll
<1>8. ~ Authorized(l)
  BY <1>7 DEF Accepts, Authorized, EventsOf
<1>9. t = now
  BY <1>8 DEF SubmittedAt
<1>10. now < h.wake
  BY <1>0, <1>3, <1>9 DEF Heads, OptionalTimes, None
<1>11. CASE choice = "WAIT_AND_RECHECK"
  <2> DEFINE e == Event("decision-recorded", "WAIT_AND_RECHECK_AUTHORIZED", now, now + Extension)
  <2>1. es = <<e>> /\ print = NoFingerprint
    BY <1>9, <1>11 DEF DecisionEvents, SubmittedWake, SubmittedFingerprint
  <2>2. e \in Events /\ e.type = "decision-recorded" /\ e.at = now
        /\ e.signal = "WAIT_AND_RECHECK_AUTHORIZED"
    BY <1>0, EventType DEF EventTypes, Signals, DecisionSignals, Times, OptionalTimes, Event
  <2>3. Accepts(h, l, e)
    BY <1>7, <2>1
  <2>4. Permitted(h, l, e)
    BY <1>10, <2>2, <2>3 DEF Permitted
  <2>5. Extends(r, e)
    BY <1>0, <1>5, <2>1, <2>2, <2>4, RecordOne
  <2>6. action'[r] = action[r] /\ reserved'[r] = reserved[r]
    BY <1>11, <1>15
  <2> QED BY <1>6, <1>11, <2>1, <2>5, <2>6 DEF DecidesToWait
<1>12. CASE choice = "ESCALATE_INCIDENT"
  <2> DEFINE e == Event("decision-recorded", "ESCALATE_INCIDENT_AUTHORIZED", now, None)
             f == Event("action-reserved", NoSignal, now, None)
  <2>1. es = <<e, f>> /\ print = Fingerprint(l, now)
    BY <1>9, <1>12 DEF DecisionEvents, SubmittedFingerprint
  <2>2. /\ e \in Events /\ e.type = "decision-recorded" /\ e.at = now
        /\ e.signal = "ESCALATE_INCIDENT_AUTHORIZED"
        /\ f \in Events /\ f.type = "action-reserved" /\ f.signal = NoSignal
    BY <1>0, EventType DEF EventTypes, Signals, DecisionSignals, Times, OptionalTimes, Event
  <2>3. Accepts(h, l, e) /\ Accepts(Advance(h, e), Append(l, e), f)
    BY <1>3, <1>7, <2>1 DEF AcceptsAll
  <2>4. Permitted(h, l, e)
    BY <1>10, <2>2, <2>3 DEF Permitted
  <2>5. Advance(h, e).state = "RESUMING"
    BY <1>0, <2>2, AdvanceFields, KernelTargets DEF NoSignal
  <2>6. Permitted(Advance(h, e), Append(l, e), f)
    BY <2>2, <2>3, <2>5 DEF Permitted, NoSignal
  <2>7. ExtendsTwice(r, e, f)
    BY <1>0, <1>5, <2>1, <2>2, <2>4, <2>6, RecordTwo
  <2>8. action'[r] = [action[r] EXCEPT !.status = "RESERVED"]
        /\ reserved'[r] = Fingerprint(l, now)
    BY <1>0, <1>12, <1>14, <2>1 DEF LedgerType
  <2> QED BY <1>4, <1>6, <1>12, <2>1, <2>7, <2>8 DEF DecidesToEscalate
<1> QED BY <1>11, <1>12 DEF DecisionChoices

\* Every step leaves a run alone, its lease aside, or grows its history.
LEMMA RunGrowth ==
    ASSUME ServiceAssumption, TypeInv, ClaimInv, FailureInv, [Next]_vars,
           NEW r \in Runs, Numbered(log[r], head[r])
    PROVE  Kept(r) \/ Grows(r)
<1>0. now \in Nat /\ \A w \in Workers : at[w] \in Nat /\ at[w] \in 0..now
  BY DEF TypeInv, WorkerType
<1>1. CASE Same(r)
  BY <1>1 DEF Same, Kept
<1>2. ASSUME NEW w \in Workers, ClaimDue(w, r) PROVE Kept(r)
  <2>1. UNCHANGED <<log, action, reserved, decisions>>
        /\ head' = [head EXCEPT ![r].owner = w, ![r].expires = at[w] + LeaseDuration]
    BY <1>2 DEF ClaimDue, ClaimNextDueRun
  <2>2. Released(head'[r]) = Released(head[r])
    BY <2>1 DEF Released, TypeInv, LedgerType, Heads
  <2> QED BY <2>1, <2>2 DEF Kept
<1>3. ASSUME NEW w \in Workers, RecoverAbandonedWork(at[w]) PROVE Kept(r) \/ Grows(r)
  BY <1>0, <1>3, RecoverGrowth DEF Grows, ActionResults
<1>4. CASE Trigger(r)
  BY <1>4, TriggerGrowth DEF Grows
<1>5. ASSUME NEW key \in Keys, NEW choice \in DecisionChoices, NEW expected \in 1..Len(log[r]),
             Submit(r, key, choice, expected)
      PROVE  Grows(r)
  BY <1>5, SubmitGrowth DEF Grows
<1>6. ASSUME NEW w \in Workers, WorkerCommits(w), claim[w].run = r PROVE Grows(r)
  <2>1. CASE Wake(w)
    BY <1>0, <1>6, <2>1, WakeGrowth DEF Grows
  <2>2. CASE Expire(w)
    <3>1. /\ claim[w].wake <= at[w] /\ StopClaim(claim[w], "DECISION_EXPIRED", at[w])
          /\ claim[w].version = head[r].version /\ pc[w] = "expire"
      BY <1>6, <2>2 DEF Expire, ExpireDecision, CanExpire, StopClaim, CanStop, CanAppend
    <3>2. head[r].wake = claim[w].wake
      BY <1>6, <3>1, ClaimPictures DEF Pictures
    <3>3. at[w] >= head[r].wake
      BY <1>0, <3>1, <3>2 DEF TypeInv, LedgerType, Heads, OptionalTimes, None
    <3>4. Stops(r, "DECISION_EXPIRED", at[w])
      BY <1>6, <3>1, <3>3, StopGrowth
    <3> QED BY <1>0, <3>4 DEF Grows, Signals, DecisionSignals
  <2>3. CASE StopRun(w)
    <3>1. outcome[w] \in ObservationFailures /\ StopClaim(claim[w], outcome[w], at[w])
      BY <2>3 DEF StopRun, FailureInv
    <3>2. Stops(r, outcome[w], at[w])
      BY <1>6, <3>1, StopGrowth DEF ObservationFailures
    <3> QED BY <1>0, <3>1, <3>2
            DEF Grows, ObservationFailures, Signals, MonitoringSignals, ObservationStops
  <2>4. CASE Begin(w)
    BY <1>0, <1>6, <2>4, BeginGrowth DEF Grows
  <2>5. CASE Finish(w)
    BY <1>0, <1>6, <2>5, FinishGrowth DEF Grows
  <2>6. CASE Commit(w)
    BY <1>6, <2>6, CommitGrowth
  <2> QED BY <1>6, <2>1, <2>2, <2>3, <2>4, <2>5, <2>6 DEF WorkerCommits
<1> QED BY <1>1, <1>2, <1>3, <1>4, <1>5, <1>6, RunCases

-----------------------------------------------------------------------------
(* What the histories promise of observations, plans and decisions.        *)

Observations(l) == EventsOf(l, "observation-recorded")

\* How far apart observations are, whatever the decision was.
Spacing(l) ==
    IF DecisionChoice(l) = "WAIT_AND_RECHECK" /\ Delay > Extension THEN Extension ELSE Delay

\* The budget: one observation is left in a run that can still observe, and a
\* prompt comes with the last normal one.
Budgeted(l, h) ==
    LET n == CountEvents(l, "observation-recorded") IN
    /\ ~ Prompted(l) => n <= NormalObservations
    /\ Prompted(l) => /\ EnvelopeObservations(l) = NormalObservations
                      /\ n <= NormalObservations + 1
                      /\ DecisionChoice(l) # "WAIT_AND_RECHECK" => n = NormalObservations
    /\ h.state \in {NoState, "MONITORING", "WAITING"} =>
          IF Prompted(l) THEN n = NormalObservations ELSE n < NormalObservations

\* Two observations are apart, and a run about to observe has rested.
Apart(l) ==
    \A i, j \in Observations(l) : i < j => l[j].at >= l[i].at + Spacing(l)

Rested(l, h) ==
    \A i \in Observations(l) :
        /\ h.state = "MONITORING" => h.updatedAt >= l[i].at + Spacing(l)
        /\ h.state = "WAITING" => h.wake >= l[i].at + Spacing(l)

\* The plan of the action, and of every recorded escalation, is the one the
\* history still yields.
Planned(l, a, plan, made) ==
    /\ a.status # "NONE" =>
         /\ DecisionChoice(l) = "ESCALATE_INCIDENT"
         /\ plan = Fingerprint(l, AuthorizedAt(l))
    /\ a.attempts > 0 => EventsOf(l, "action-attempted") # {}
    /\ \A d \in made :
         /\ Authorized(l) /\ d.choice \in DecisionChoices
         /\ d.choice = "WAIT_AND_RECHECK" => d.fingerprint = NoFingerprint
         /\ d.choice = "ESCALATE_INCIDENT" =>
              /\ ActionEnabled /\ DecisionChoice(l) = "ESCALATE_INCIDENT"
              /\ d.fingerprint = Fingerprint(l, AuthorizedAt(l))


\* What one more event changes in the readings of the service.
LEMMA PromptIs ==
    ASSUME NEW l, NEW p, EventsOf(l, "decision-requested") = {p}
    PROVE  PromptAt(l) = p
BY DEF PromptAt

LEMMA AuthorizedIs ==
    ASSUME NEW l, NEW p, EventsOf(l, "decision-recorded") = {p}
    PROVE  AuthorizedAt(l) = l[p].at
<1>1. (CHOOSE i \in EventsOf(l, "decision-recorded") : TRUE) = p
  OBVIOUS
<1> QED BY <1>1 DEF AuthorizedAt

\* One prompt and one decision, each at a place of its own.
LEMMA PlacesAreUnique ==
    ASSUME NEW l \in Seq(Events), NEW h, Consulted(l, h)
    PROVE  /\ Prompted(l) => \E p \in 1..Len(l) : EventsOf(l, "decision-requested") = {p}
           /\ Authorized(l) => \E p \in 1..Len(l) : EventsOf(l, "decision-recorded") = {p}
<1>1. ASSUME NEW type \in {"decision-requested", "decision-recorded"}, EventsOf(l, type) # {}
      PROVE  \E p \in 1..Len(l) : EventsOf(l, type) = {p}
  <2>1. PICK p \in EventsOf(l, type) : TRUE
    BY <1>1
  <2>2. p \in 1..Len(l)
    BY EventsOfDomain
  <2>3. \A i \in EventsOf(l, type) : i = p
    BY DEF EventsOf, Consulted
  <2> QED BY <2>1, <2>2, <2>3
<1> QED BY <1>1 DEF Prompted, Authorized

LEMMA PromptAppend ==
    ASSUME NEW l \in Seq(Events), NEW h, Consulted(l, h), NEW e \in Events, Prompted(l),
           e.type # "decision-requested"
    PROVE  EnvelopeObservations(Append(l, e)) = EnvelopeObservations(l)
<1>1. PICK p \in 1..Len(l) : EventsOf(l, "decision-requested") = {p}
  BY PlacesAreUnique
<1>2. PromptAt(l) = p /\ PromptAt(Append(l, e)) = p
  <2>1. EventsOf(Append(l, e), "decision-requested") = {p}
    BY <1>1, EventsOfAppend
  <2> QED BY <1>1, <2>1, PromptIs
<1>3. {i \in EventsOf(Append(l, e), "observation-recorded") : i < p}
        = {i \in EventsOf(l, "observation-recorded") : i < p}
  <2>1. ~ (Len(l) + 1 < p)
    BY AppendOne
  <2> QED BY <2>1, EventsOfAppend
<1> QED BY <1>2, <1>3 DEF EnvelopeObservations

\* The envelope of a prompt counts every observation made so far.
LEMMA PromptCounts ==
    ASSUME NEW l \in Seq(Events), NEW e \in Events, ~ Prompted(l), e.type = "decision-requested"
    PROVE  EnvelopeObservations(Append(l, e)) = CountEvents(l, "observation-recorded")
<1>1. EventsOf(Append(l, e), "decision-requested") = {Len(l) + 1}
  BY EventsOfAppend DEF Prompted
<1>2. PromptAt(Append(l, e)) = Len(l) + 1
  BY <1>1, PromptIs
<1>3. {i \in EventsOf(Append(l, e), "observation-recorded") : i < Len(l) + 1}
        = EventsOf(l, "observation-recorded")
  <2>1. \A i \in EventsOf(l, "observation-recorded") : i < Len(l) + 1
    BY EventsOfDomain, AppendOne
  <2>2. EventsOf(Append(l, e), "observation-recorded") = EventsOf(l, "observation-recorded")
    BY EventsOfAppend
  <2> QED BY <2>1, <2>2
<1> QED BY <1>2, <1>3 DEF EnvelopeObservations, CountEvents

\* A wait starts with the event before its end.
LEMMA WaitStartIs ==
    ASSUME NEW l, NEW i \in Nat, i > 1, IsWaitStart(l[i - 1])
    PROVE  WaitStart(l, i) = i - 1
<1> DEFINE S == {j \in 1..(i - 1) : IsWaitStart(l[j])}
<1>1. i - 1 \in S /\ \A j \in S : j \in Nat /\ i - 1 >= j
  OBVIOUS
<1>2. \A x \in S : (\A y \in S : x >= y) => x = i - 1
  BY <1>1
<1>3. Max(S) = i - 1
  BY <1>1, <1>2 DEF Max
<1> QED BY <1>3 DEF WaitStart

\* A wait is measured when it ends.
LEMMA WaitsAppend ==
    ASSUME NEW l \in Seq(Events), Timely(l), NEW e \in Events, e.type # "run-woke"
    PROVE  MeasuredWait(Append(l, e)) = MeasuredWait(l)
<1> DEFINE m == Append(l, e)  W == EventsOf(l, "run-woke")
<1>1. EventsOf(m, "run-woke") = W /\ W \subseteq 1..Len(l)
  BY EventsOfAppend, EventsOfDomain
<1>3. ASSUME NEW i \in W
      PROVE  m[i].at - m[WaitStart(m, i)].at = l[i].at - l[WaitStart(l, i)].at
  <2>1. i \in 1..Len(l) /\ i > 1 /\ IsWaitStart(l[i - 1])
    BY <1>1 DEF Timely, EventsOf
  <2>2. i - 1 \in 1..Len(l) /\ i \in Nat
    BY <2>1
  <2>3. m[i] = l[i] /\ m[i - 1] = l[i - 1]
    BY <2>1, <2>2, AppendOne
  <2>4. WaitStart(l, i) = i - 1 /\ WaitStart(m, i) = i - 1
    BY <2>1, <2>2, <2>3, WaitStartIs
  <2> QED BY <2>3, <2>4
<1>4. Waits(m) = Waits(l)
  BY <1>1, <1>3 DEF Waits
<1> QED BY <1>4 DEF MeasuredWait

LEMMA SpacingAppend ==
    ASSUME ServiceAssumption, NEW h \in Heads, NEW l \in Seq(Events), NEW e \in Events,
           Permitted(h, l, e)
    PROVE  /\ Spacing(l) \in Nat /\ Spacing(Append(l, e)) \in Nat
           /\ Spacing(Append(l, e)) <= Spacing(l) /\ Spacing(l) <= Delay
           /\ e.signal = "WAIT_AND_RECHECK_AUTHORIZED" => Spacing(Append(l, e)) <= Extension
<1>1. Delay \in Nat /\ Extension \in Nat
  BY DEF ServiceAssumption
<1>2. CASE e.type # "decision-recorded"
  <2>1. DecisionChoice(Append(l, e)) = DecisionChoice(l)
    BY <1>2, ChoiceAppend
  <2>2. e.signal # "WAIT_AND_RECHECK_AUTHORIZED"
    BY <1>2, PermittedRow DEF Row, ActionSignals, NoSignal, ObservationStops
  <2> QED BY <1>1, <2>1, <2>2 DEF Spacing
<1>3. CASE e.type = "decision-recorded"
  <2>1. ~ Authorized(l)
    BY <1>3 DEF Permitted, Accepts, Authorized, EventsOf
  <2>2. DecisionChoice(l) = "NONE"
    BY <2>1, ChoiceAppend
  <2>3. e.signal = "WAIT_AND_RECHECK_AUTHORIZED" =>
           DecisionChoice(Append(l, e)) = "WAIT_AND_RECHECK"
    BY <1>3, <2>1, ChoiceAppend
  <2> QED BY <1>1, <2>2, <2>3 DEF Spacing
<1> QED BY <1>2, <1>3

LEMMA ApartAppend ==
    ASSUME ServiceAssumption, NEW h \in Heads, NEW l \in Seq(Events), NEW e \in Events,
           Permitted(h, l, e), Apart(l), Rested(l, h) \/ e.type # "observation-recorded"
    PROVE  Apart(Append(l, e))
<1> DEFINE m == Append(l, e)
<1>1. \A i \in 1..Len(l) : m[i] = l[i] /\ l[i].at \in Nat
  <2>1. ASSUME NEW i \in 1..Len(l) PROVE l[i] \in Events
    BY ElementOfSeq
  <2> QED BY <2>1, AppendOne DEF Events, Times
<1>2. /\ Spacing(m) \in Nat /\ Spacing(l) \in Nat /\ Spacing(m) <= Spacing(l)
  BY SpacingAppend
<1>3. Observations(l) \subseteq 1..Len(l) /\ Len(l) \in Nat
  BY EventsOfDomain DEF Observations
<1>4. ASSUME NEW i \in Observations(l), NEW j \in Observations(l), i < j
      PROVE  m[j].at >= m[i].at + Spacing(m)
  <2>1. l[j].at >= l[i].at + Spacing(l)
    BY <1>4 DEF Apart
  <2> QED BY <1>1, <1>2, <1>3, <2>1
<1>5. CASE e.type # "observation-recorded"
  <2>1. Observations(m) = Observations(l)
    BY <1>5, EventsOfAppend DEF Observations
  <2> QED BY <1>4, <2>1 DEF Apart
<1>6. CASE e.type = "observation-recorded"
  <2>1. Observations(m) = Observations(l) \cup {Len(l) + 1}
    BY <1>6, EventsOfAppend DEF Observations
  <2>2. h.state = "MONITORING" /\ e.at >= h.updatedAt /\ h.updatedAt \in Nat /\ e.at \in Nat
    BY <1>6 DEF Permitted, Accepts, Heads, Events, Times
  <2>3. m[Len(l) + 1] = e
    BY AppendOne
  <2>4. ASSUME NEW i \in Observations(l) PROVE e.at >= m[i].at + Spacing(m)
    <3>1. h.updatedAt >= l[i].at + Spacing(l)
      BY <1>6, <2>2 DEF Rested
    <3> QED BY <1>1, <1>2, <1>3, <2>2, <3>1
  <2>5. ASSUME NEW i \in Observations(m), NEW j \in Observations(m), i < j
        PROVE  m[j].at >= m[i].at + Spacing(m)
    <3>1. CASE j \in Observations(l)
      <4>1. i \in Observations(l)
        BY <1>3, <2>1, <2>5, <3>1
      <4> QED BY <1>4, <2>5, <3>1, <4>1
    <3>2. CASE j = Len(l) + 1
      <4>1. i \in Observations(l)
        BY <1>3, <2>1, <2>5, <3>2
      <4> QED BY <2>3, <2>4, <3>2, <4>1
    <3> QED BY <2>1, <3>1, <3>2
  <2> QED BY <2>5 DEF Apart
<1> QED BY <1>5, <1>6

\* A wait ends late enough, and starts with a wake far enough.
LEMMA RestedAppend ==
    ASSUME ServiceAssumption, NEW h \in Heads, NEW l \in Seq(Events), NEW e \in Events,
           Permitted(h, l, e), Numbered(l, h), e.type # "observation-recorded",
           h.state = "WAITING" => Rested(l, h),
           e.type = "wait-scheduled" => e.wake = e.at + Delay,
           e.signal = "WAIT_AND_RECHECK_AUTHORIZED" => e.wake = e.at + Extension
    PROVE  Rested(Append(l, e), Advance(h, e))
<1> DEFINE m == Append(l, e)  g == Advance(h, e)
<1>1. ASSUME NEW i \in 1..Len(l)
      PROVE  m[i] = l[i] /\ l[i].at \in Nat /\ l[i].at <= h.updatedAt
  <2>1. l[i] \in Events
    BY ElementOfSeq
  <2>2. l[i].at <= h.updatedAt
    BY DEF Numbered
  <2> QED BY <2>1, <2>2, AppendOne DEF Events, Times
<1>2. /\ Spacing(m) \in Nat /\ Spacing(l) \in Nat /\ Spacing(m) <= Spacing(l)
      /\ Spacing(l) <= Delay /\ Delay \in Nat /\ Extension \in Nat
      /\ e.signal = "WAIT_AND_RECHECK_AUTHORIZED" => Spacing(m) <= Extension
  BY SpacingAppend DEF ServiceAssumption
<1>3. Observations(m) = Observations(l) /\ Observations(l) \subseteq 1..Len(l)
  BY EventsOfAppend, EventsOfDomain DEF Observations
<1>4. e.at \in Nat /\ h.updatedAt \in Nat /\ e.at >= h.updatedAt /\ g.updatedAt = e.at
  BY AdvanceFields DEF Permitted, Accepts, Heads, Events, Times
<1>5. Row(e.type, e.signal, h.state, g.state)
  BY PermittedRow
<1>6. ASSUME NEW i \in Observations(l), g.state = "MONITORING"
      PROVE  g.updatedAt >= m[i].at + Spacing(m)
  <2>1. \/ h.state = NoState
        \/ h.state = "WAITING" /\ e.signal = "WAIT_DUE"
    BY <1>5, <1>6 DEF Row
  <2>2. h.state # NoState
    <3>1. 1..Len(l) # {}
      BY <1>3, <1>6
    <3>2. l # <<>>
      BY <3>1
    <3> QED BY <3>2 DEF Numbered
  <2>3. h.state = "WAITING" /\ e.at >= h.wake
    BY <2>1, <2>2 DEF Permitted
  <2>4. h.wake >= l[i].at + Spacing(l)
    BY <1>6, <2>3 DEF Rested
  <2>5. h.wake \in Int
    BY DEF Heads, OptionalTimes, None
  <2> QED BY <1>1, <1>2, <1>3, <1>4, <2>3, <2>4, <2>5
<1>7. ASSUME NEW i \in Observations(l), g.state = "WAITING"
      PROVE  g.wake >= m[i].at + Spacing(m)
  <2>1. \/ e.type = "wait-scheduled" /\ e.signal # NoSignal
        \/ e.signal = "WAIT_AND_RECHECK_AUTHORIZED" /\ e.signal # NoSignal
    BY <1>5, <1>7 DEF Row, NoSignal
  <2>2. g.wake = e.wake
    BY <2>1, AdvanceFields
  <2>3. CASE e.type = "wait-scheduled"
    BY <1>1, <1>2, <1>3, <1>4, <2>2, <2>3
  <2>4. CASE e.signal = "WAIT_AND_RECHECK_AUTHORIZED"
    BY <1>1, <1>2, <1>3, <1>4, <2>2, <2>4
  <2> QED BY <2>1, <2>3, <2>4
<1> QED BY <1>3, <1>6, <1>7 DEF Rested

\* Any event but an observation and a prompt keeps to the budget.
LEMMA BudgetAppend ==
    ASSUME ServiceAssumption, NEW h \in Heads, NEW l \in Seq(Events), NEW e \in Events,
           Permitted(h, l, e), History(l, h), Budgeted(l, h),
           e.type \notin {"observation-recorded", "decision-requested"}
    PROVE  Budgeted(Append(l, e), Advance(h, e))
<1> DEFINE m == Append(l, e)  g == Advance(h, e)
           n == CountEvents(l, "observation-recorded")
<1>0. n \in Nat /\ NormalObservations \in Nat
  BY CountType DEF ServiceAssumption
<1>1. CountEvents(m, "observation-recorded") = n
  BY <1>0, CountAppend
<1>2. Prompted(m) <=> Prompted(l)
  BY PromptedAppend
<1>3. Prompted(l) => EnvelopeObservations(m) = EnvelopeObservations(l)
  BY PromptAppend DEF History
<1>4. Row(e.type, e.signal, h.state, g.state)
  BY PermittedRow
<1>5. DecisionChoice(l) # "WAIT_AND_RECHECK" \/ DecisionChoice(m) = DecisionChoice(l)
  <2>1. e.type = "decision-recorded" => ~ Authorized(l)
    BY DEF Permitted, Accepts, Authorized, EventsOf
  <2> QED BY <2>1, ChoiceAppend
<1>6. DecisionChoice(m) # "WAIT_AND_RECHECK" => DecisionChoice(l) # "WAIT_AND_RECHECK"
  BY <1>5
<1>7. Prompted(l) /\ DecisionChoice(l) # "WAIT_AND_RECHECK" => n = NormalObservations
  BY DEF Budgeted
<1>8. ASSUME g.state \in {NoState, "MONITORING", "WAITING"}
      PROVE  IF Prompted(l) THEN n = NormalObservations ELSE n < NormalObservations
  <2>1. \/ h.state \in {NoState, "MONITORING", "WAITING"}
        \/ e.type = "decision-recorded" /\ h.state = "AWAITING_DECISION"
    BY <1>4, <1>8 DEF Row, NoState
  <2>2. CASE h.state \in {NoState, "MONITORING", "WAITING"}
    BY <2>2 DEF Budgeted
  <2>3. CASE e.type = "decision-recorded" /\ h.state = "AWAITING_DECISION"
    <3>1. Prompted(l) /\ ~ Authorized(l)
      BY <2>3 DEF History, Consulted
    <3>2. DecisionChoice(l) = "NONE"
      BY <3>1, ChoiceAppend
    <3> QED BY <1>7, <3>1, <3>2
  <2> QED BY <2>1, <2>2, <2>3
<1> QED BY <1>1, <1>2, <1>3, <1>6, <1>8 DEF Budgeted

\* An observation with the event that follows it keeps to the budget.
LEMMA BudgetObserved ==
    ASSUME ServiceAssumption, NEW h \in Heads, NEW l \in Seq(Events),
           NEW e \in Events, NEW f \in Events, Permitted(h, l, e),
           Permitted(Advance(h, e), Append(l, e), f),
           History(l, h), Budgeted(l, h), e.type = "observation-recorded",
           f.type \in {"wait-scheduled", "decision-requested", "run-completed", "run-stopped"},
           f.type = "wait-scheduled" =>
               ~ Prompted(l) /\ CountEvents(l, "observation-recorded") + 1 < NormalObservations,
           f.type = "decision-requested" =>
               ~ Prompted(l) /\ CountEvents(l, "observation-recorded") + 1 >= NormalObservations
    PROVE  Budgeted(Append(Append(l, e), f), Advance(Advance(h, e), f))
<1> DEFINE m1 == Append(l, e)  m == Append(m1, f)  g1 == Advance(h, e)  g == Advance(g1, f)
           n == CountEvents(l, "observation-recorded")
<1>0. /\ n \in Nat /\ NormalObservations \in Nat /\ m1 \in Seq(Events) /\ g1 \in Heads
  BY CountType, AppendOne, AdvanceType DEF ServiceAssumption
<1>1. h.state = "MONITORING" /\ CountEvents(m1, "observation-recorded") = n + 1
      /\ CountEvents(m, "observation-recorded") = n + 1
  <2>1. CountEvents(m1, "observation-recorded") = n + 1
    BY CountAppend
  <2>2. CountEvents(m, "observation-recorded") = CountEvents(m1, "observation-recorded") + 0
    <3>1. f.type # "observation-recorded"
      OBVIOUS
    <3> HIDE DEF m1, m
    <3>2. CountEvents(Append(m1, f), "observation-recorded")
            = CountEvents(m1, "observation-recorded") + 0
      BY <1>0, <3>1, CountAppend
    <3> QED BY <3>2 DEF m
  <2> QED BY <1>0, <2>1, <2>2 DEF Permitted
<1>2. /\ Prompted(m1) <=> Prompted(l)
      /\ Prompted(m) <=> Prompted(l) \/ f.type = "decision-requested"
      /\ DecisionChoice(m) = DecisionChoice(l)
  <2>1. /\ Prompted(m1) <=> Prompted(l)
        /\ DecisionChoice(m1) = DecisionChoice(l)
    <3>1. e.type \notin {"decision-requested", "decision-recorded"}
      OBVIOUS
    <3> QED BY <3>1, PromptedAppend, ChoiceAppend
  <2>2. /\ Prompted(m) <=> Prompted(m1) \/ f.type = "decision-requested"
        /\ DecisionChoice(m) = DecisionChoice(m1)
    <3>1. f.type # "decision-recorded"
      OBVIOUS
    <3> HIDE DEF m1
    <3> QED BY <1>0, <3>1, PromptedAppend, ChoiceAppend
  <2> QED BY <2>1, <2>2
<1>3. g.state \in {"WAITING", "AWAITING_DECISION", "COMPLETED", "STOPPED"}
      /\ (g.state = "WAITING" => f.type = "wait-scheduled")
  BY <1>0, PermittedRow DEF Row
<1>4. IF Prompted(l) THEN n = NormalObservations ELSE n < NormalObservations
  BY <1>1 DEF Budgeted
<1>5. Prompted(l) => EnvelopeObservations(m) = EnvelopeObservations(l)
  <2> SUFFICES ASSUME Prompted(l) PROVE EnvelopeObservations(m) = EnvelopeObservations(l)
    OBVIOUS
  <2>1. Consulted(l, h) /\ Consulted(m1, g1) /\ f.type # "decision-requested"
    BY ConsultedAppend DEF History
  <2> QED BY <1>0, <1>2, <2>1, PromptAppend
<1>6. Prompted(l) => DecisionChoice(l) = "WAIT_AND_RECHECK"
  <2>1. Prompted(l) => Authorized(l) /\ DecisionChoice(l) # "ESCALATE_INCIDENT"
    BY <1>1 DEF History, Consulted
  <2> QED BY <2>1 DEF DecisionChoice, Authorized
<1>7. CASE f.type = "decision-requested"
  <2>1. EnvelopeObservations(m) = n + 1
    BY <1>0, <1>1, <1>2, <1>7, PromptCounts
  <2>2. n + 1 = NormalObservations
    BY <1>0, <1>4, <1>7
  <2>3. g.state \notin {NoState, "MONITORING", "WAITING"}
    BY <1>3, <1>7 DEF NoState
  <2> QED BY <1>0, <1>1, <1>2, <1>7, <2>1, <2>2, <2>3 DEF Budgeted
<1>8. CASE f.type = "wait-scheduled"
  <2>1. ~ Prompted(m)
    BY <1>2, <1>8
  <2>2. n + 1 < NormalObservations /\ n + 1 <= NormalObservations
    BY <1>0, <1>8
  <2> QED BY <1>1, <2>1, <2>2 DEF Budgeted
<1>9. CASE f.type \in {"run-completed", "run-stopped"}
  <2>1. g.state \notin {NoState, "MONITORING", "WAITING"}
    BY <1>3, <1>9 DEF NoState
  <2>2. Prompted(m) <=> Prompted(l)
    BY <1>2, <1>9
  <2>3. ~ Prompted(l) => n + 1 <= NormalObservations
    BY <1>0, <1>4
  <2>4. Prompted(l) => /\ EnvelopeObservations(m) = NormalObservations
                       /\ n + 1 <= NormalObservations + 1
    BY <1>0, <1>4, <1>5 DEF Budgeted
  <2> QED BY <1>1, <1>2, <1>6, <2>1, <2>2, <2>3, <2>4 DEF Budgeted
<1> QED BY <1>7, <1>8, <1>9


\* Once a decision is recorded, only the end of a wait changes the plan.
LEMMA FingerprintAppend ==
    ASSUME NEW h, NEW l \in Seq(Events), NEW e \in Events, History(l, h), Authorized(l),
           e.type \notin {"run-woke", "decision-requested", "decision-recorded"}
    PROVE  Fingerprint(Append(l, e), AuthorizedAt(Append(l, e))) = Fingerprint(l, AuthorizedAt(l))
<1>1. Timely(l) /\ Consulted(l, h) /\ Prompted(l)
  BY DEF History, Consulted
<1>2. PICK p \in 1..Len(l) : EventsOf(l, "decision-recorded") = {p}
  BY <1>1, PlacesAreUnique
<1>3. EventsOf(Append(l, e), "decision-recorded") = {p} /\ Append(l, e)[p] = l[p]
  BY <1>2, EventsOfAppend, AppendOne
<1>4. AuthorizedAt(Append(l, e)) = AuthorizedAt(l)
  BY <1>2, <1>3, AuthorizedIs
<1>5. EnvelopeObservations(Append(l, e)) = EnvelopeObservations(l)
  BY <1>1, PromptAppend
<1>6. MeasuredWait(Append(l, e)) = MeasuredWait(l)
  BY <1>1, WaitsAppend
<1> QED BY <1>4, <1>5, <1>6 DEF Fingerprint

\* The plan that is reserved with a decision is the one the history then yields.
LEMMA FingerprintRecorded ==
    ASSUME NEW h, NEW l \in Seq(Events), NEW e \in Events, History(l, h),
           Prompted(l), ~ Authorized(l), e.type = "decision-recorded"
    PROVE  Fingerprint(Append(l, e), AuthorizedAt(Append(l, e))) = Fingerprint(l, e.at)
<1>1. Timely(l) /\ Consulted(l, h)
  BY DEF History
<1>2. EventsOf(Append(l, e), "decision-recorded") = {Len(l) + 1}
  BY EventsOfAppend DEF Authorized
<1>3. AuthorizedAt(Append(l, e)) = e.at
  <2>1. AuthorizedAt(Append(l, e)) = Append(l, e)[Len(l) + 1].at
    BY <1>2, AuthorizedIs, Zenon
  <2> QED BY <2>1, AppendOne
<1>4. EnvelopeObservations(Append(l, e)) = EnvelopeObservations(l)
  BY <1>1, PromptAppend
<1>5. MeasuredWait(Append(l, e)) = MeasuredWait(l)
  BY <1>1, WaitsAppend
<1> QED BY <1>3, <1>4, <1>5 DEF Fingerprint

LEMMA PlannedAppend ==
    ASSUME NEW h \in Heads, NEW l \in Seq(Events), NEW e \in Events, Permitted(h, l, e),
           History(l, h), NEW a, NEW plan, NEW made, Planned(l, a, plan, made)
    PROVE  Planned(Append(l, e), a, plan, made)
<1>1. EventsOf(l, "action-attempted") # {} => EventsOf(Append(l, e), "action-attempted") # {}
  BY EventsOfAppend
<1>2. Authorized(l) => Authorized(Append(l, e))
  BY PromptedAppend
<1>3. CASE DecisionChoice(l) = "ESCALATE_INCIDENT"
  <2>1. Authorized(l) /\ h.state \in {"RESUMING", "ESCALATED", "STOPPED"}
    BY <1>3, ChoiceAppend DEF History, Consulted
  <2>2. e.type \notin {"run-woke", "decision-requested", "decision-recorded"}
    BY <2>1, PermittedRow DEF Row, NoState
  <2>3. Fingerprint(Append(l, e), AuthorizedAt(Append(l, e))) = Fingerprint(l, AuthorizedAt(l))
    BY <2>1, <2>2, FingerprintAppend
  <2>4. DecisionChoice(Append(l, e)) = DecisionChoice(l)
    BY <2>2, ChoiceAppend
  <2> QED BY <1>1, <1>2, <2>3, <2>4 DEF Planned
<1>4. CASE DecisionChoice(l) # "ESCALATE_INCIDENT"
  BY <1>1, <1>2, <1>4 DEF Planned
<1> QED BY <1>3, <1>4

\* What holds of the history and the head of a run.
Story(l, h) == History(l, h) /\ Budgeted(l, h) /\ Apart(l) /\ Rested(l, h)

LEMMA StoryReleased ==
    ASSUME NEW l, NEW h \in Heads, NEW g \in Heads, Released(g) = Released(h), Story(l, h)
    PROVE  Story(l, g)
<1>1. /\ g.state = h.state /\ g.version = h.version /\ g.wake = h.wake
      /\ g.updatedAt = h.updatedAt
  BY ReleasedFields
<1> QED BY <1>1, HistoryReleased DEF Story, Budgeted, Rested

LEMMA StoryAppend ==
    ASSUME ServiceAssumption, NEW h \in Heads, NEW l \in Seq(Events), NEW e \in Events,
           Permitted(h, l, e), Story(l, h),
           e.type \notin {"observation-recorded", "decision-requested", "wait-scheduled"},
           e.signal = "WAIT_AND_RECHECK_AUTHORIZED" => e.wake = e.at + Extension
    PROVE  Story(Append(l, e), Advance(h, e))
BY HistoryAppend, BudgetAppend, ApartAppend, RestedAppend DEF Story, History

LEMMA StoryObserved ==
    ASSUME ServiceAssumption, NEW h \in Heads, NEW l \in Seq(Events),
           NEW e \in Events, NEW f \in Events, Permitted(h, l, e),
           Permitted(Advance(h, e), Append(l, e), f),
           Story(l, h), e.type = "observation-recorded",
           f.type \in {"wait-scheduled", "decision-requested", "run-completed", "run-stopped"},
           f.type = "wait-scheduled" =>
               /\ ~ Prompted(l) /\ CountEvents(l, "observation-recorded") + 1 < NormalObservations
               /\ f.wake = f.at + Delay,
           f.type = "decision-requested" =>
               ~ Prompted(l) /\ CountEvents(l, "observation-recorded") + 1 >= NormalObservations
    PROVE  Story(Append(Append(l, e), f), Advance(Advance(h, e), f))
<1> DEFINE m == Append(l, e)  g == Advance(h, e)
<1>1. m \in Seq(Events) /\ g \in Heads
  BY AppendOne, AdvanceType
<1>2. History(m, g) /\ Apart(m)
  BY HistoryAppend, ApartAppend DEF Story
<1>3. g.state = "MONITORING"
  <2>1. Row(e.type, e.signal, h.state, g.state)
    BY PermittedRow
  <2> QED BY <2>1 DEF Row
<1>4. f.signal # "WAIT_AND_RECHECK_AUTHORIZED"
  <2>1. Row(f.type, f.signal, g.state, Advance(g, f).state)
    BY <1>1, PermittedRow
  <2> QED BY <2>1 DEF Row, ObservationStops
<1>5. Budgeted(Append(m, f), Advance(g, f))
  BY BudgetObserved DEF Story
<1>6. f.type # "observation-recorded"
  OBVIOUS
<1>7. History(Append(m, f), Advance(g, f)) /\ Apart(Append(m, f))
  BY <1>1, <1>2, <1>6, HistoryAppend, ApartAppend
<1>8. Rested(Append(m, f), Advance(g, f))
  <2>1. Numbered(m, g) /\ g.state # "WAITING"
    BY <1>2, <1>3 DEF History
  <2> QED BY <1>1, <1>4, <1>6, <2>1, RestedAppend
<1> QED BY <1>5, <1>7, <1>8 DEF Story

RunHistory(r) ==
    Story(log[r], head[r]) /\ Planned(log[r], action[r], reserved[r], decisions[r])

HistoryInv == \A r \in Runs : RunHistory(r)

LEMMA ExtendsStory ==
    ASSUME ServiceAssumption, LedgerType, LedgerType', NEW r \in Runs, NEW e, Extends(r, e),
           Story(log[r], head[r]),
           e.type \notin {"observation-recorded", "decision-requested", "wait-scheduled"},
           e.signal = "WAIT_AND_RECHECK_AUTHORIZED" => e.wake = e.at + Extension
    PROVE  Story(log'[r], head'[r])
<1>1. /\ head[r] \in Heads /\ head'[r] \in Heads /\ log[r] \in Seq(Events) /\ e \in Events
      /\ log'[r] = Append(log[r], e) /\ Advance(head[r], e) \in Heads
      /\ Permitted(head[r], log[r], e) /\ Released(head'[r]) = Released(Advance(head[r], e))
  BY AdvanceType DEF LedgerType, Extends
<1>2. Story(Append(log[r], e), Advance(head[r], e))
  BY <1>1, StoryAppend
<1> QED BY <1>1, <1>2, StoryReleased

LEMMA ExtendsTwiceStory ==
    ASSUME LedgerType, LedgerType', NEW r \in Runs, NEW e, NEW f, ExtendsTwice(r, e, f),
           Story(Append(Append(log[r], e), f), Advance(Advance(head[r], e), f))
    PROVE  Story(log'[r], head'[r])
<1>1. /\ head[r] \in Heads /\ head'[r] \in Heads /\ e \in Events /\ f \in Events
      /\ log'[r] = Append(Append(log[r], e), f)
      /\ Released(head'[r]) = Released(Advance(Advance(head[r], e), f))
  BY DEF LedgerType, ExtendsTwice
<1>2. Advance(Advance(head[r], e), f) \in Heads
  BY <1>1, AdvanceType
<1> QED BY <1>1, <1>2, StoryReleased


\* A step that leaves the other tables alone extends what was planned.
LEMMA ExtendsPlanned ==
    ASSUME LedgerType, NEW r \in Runs, NEW e, Extends(r, e), RunHistory(r)
    PROVE  Planned(log'[r], action[r], reserved[r], decisions[r])
BY PlannedAppend DEF Extends, LedgerType, RunHistory, Story

LEMMA ExtendsTwicePlanned ==
    ASSUME LedgerType, NEW r \in Runs, NEW e, NEW f, ExtendsTwice(r, e, f), RunHistory(r)
    PROVE  Planned(log'[r], action[r], reserved[r], decisions[r])
<1> DEFINE m == Append(log[r], e)  g == Advance(head[r], e)
<1>1. /\ head[r] \in Heads /\ log[r] \in Seq(Events) /\ e \in Events /\ f \in Events
      /\ Permitted(head[r], log[r], e) /\ Permitted(g, m, f) /\ log'[r] = Append(m, f)
      /\ History(log[r], head[r]) /\ Planned(log[r], action[r], reserved[r], decisions[r])
  BY DEF ExtendsTwice, LedgerType, RunHistory, Story
<1>2. m \in Seq(Events) /\ g \in Heads
  BY <1>1, AppendOne, AdvanceType
<1>3. History(m, g) /\ Planned(m, action[r], reserved[r], decisions[r])
  BY <1>1, HistoryAppend, PlannedAppend
<1>4. Planned(Append(m, f), action[r], reserved[r], decisions[r])
  BY <1>1, <1>2, <1>3, PlannedAppend
<1> QED BY <1>1, <1>4

LEMMA GrowthStory ==
    ASSUME ServiceAssumption, LedgerType, LedgerType', now \in Nat, NEW r \in Runs,
           Story(log[r], head[r]), Grows(r)
    PROVE  Story(log'[r], head'[r])
<1>0. head[r] \in Heads /\ log[r] \in Seq(Events)
  BY DEF LedgerType
<1>1. CASE Triggers(r)
  <2> DEFINE e == Event("release-triggered", "TRIGGER_ACCEPTED", now, None)
  <2>1. Extends(r, e) /\ e.type = "release-triggered" /\ e.signal = "TRIGGER_ACCEPTED"
    BY <1>1 DEF Triggers, Event
  <2> QED BY <2>1, ExtendsStory
<1>2. ASSUME NEW t \in Nat, Wakes(r, t) PROVE Story(log'[r], head'[r])
  <2> DEFINE e == Event("run-woke", "WAIT_DUE", t, None)
  <2>1. Extends(r, e) /\ e.type = "run-woke" /\ e.signal = "WAIT_DUE"
    BY <1>2 DEF Wakes, Event
  <2> QED BY <2>1, ExtendsStory
<1>3. ASSUME NEW t \in Nat, Attempts(r, t) PROVE Story(log'[r], head'[r])
  <2>1. Extends(r, ActionAttempted(t)) /\ ActionAttempted(t).type = "action-attempted"
        /\ ActionAttempted(t).signal = NoSignal
    BY <1>3 DEF Attempts, ActionAttempted, Event
  <2> QED BY <2>1, ExtendsStory DEF NoSignal
<1>4. ASSUME NEW t \in Nat, NEW result \in ActionResults, Settles(r, result, t)
      PROVE  Story(log'[r], head'[r])
  <2>1. Extends(r, ActionEvent(result, t))
    BY <1>4 DEF Settles
  <2> QED BY <2>1, ActionEventRow, ExtendsStory DEF ActionSignals
<1>5. ASSUME NEW t \in Nat, NEW signal \in Signals, Stops(r, signal, t)
      PROVE  Story(log'[r], head'[r])
  <2> DEFINE e == Event("run-stopped", signal, t, None)
  <2>1. /\ Extends(r, e) /\ e.type = "run-stopped" /\ e.signal = signal
        /\ signal # "WAIT_AND_RECHECK_AUTHORIZED"
    BY <1>5 DEF Stops, Event, ObservationFailures
  <2> QED BY <2>1, ExtendsStory
<1>6. ASSUME NEW key, NEW expected, DecidesToWait(r, key, expected)
      PROVE  Story(log'[r], head'[r])
  <2> DEFINE e == Event("decision-recorded", "WAIT_AND_RECHECK_AUTHORIZED", now, now + Extension)
  <2>1. Extends(r, e) /\ e.type = "decision-recorded" /\ e.wake = e.at + Extension
    BY <1>6 DEF DecidesToWait, Event
  <2> QED BY <2>1, ExtendsStory
<1>7. ASSUME NEW key, NEW expected, DecidesToEscalate(r, key, expected)
      PROVE  Story(log'[r], head'[r])
  <2> DEFINE e == Event("decision-recorded", "ESCALATE_INCIDENT_AUTHORIZED", now, None)
             f == Event("action-reserved", NoSignal, now, None)
             m == Append(log[r], e)  g == Advance(head[r], e)
  <2>1. /\ ExtendsTwice(r, e, f)
        /\ e.type = "decision-recorded" /\ e.signal = "ESCALATE_INCIDENT_AUTHORIZED"
        /\ f.type = "action-reserved" /\ f.signal = NoSignal
    BY <1>7 DEF DecidesToEscalate, Event
  <2>2. /\ e \in Events /\ f \in Events
        /\ Permitted(head[r], log[r], e) /\ Permitted(g, m, f)
    BY <2>1 DEF ExtendsTwice
  <2>3. m \in Seq(Events) /\ g \in Heads
    BY <1>0, <2>2, AppendOne, AdvanceType
  <2>4. Story(m, g)
    BY <1>0, <2>1, <2>2, StoryAppend
  <2>5. Story(Append(m, f), Advance(g, f))
    <3> HIDE DEF e, m, g
    <3> QED BY <2>1, <2>2, <2>3, <2>4, StoryAppend DEF NoSignal
  <2> QED BY <2>1, <2>5, ExtendsTwiceStory
<1>8. ASSUME NEW t, NEW f, ExtendsTwice(r, Seen(t), f),
             f.type \in {"wait-scheduled", "decision-requested", "run-completed", "run-stopped"},
             f.type = "wait-scheduled" =>
               /\ ~ Prompted(log[r]) /\ ObservationsOf(r) + 1 < NormalObservations
               /\ f.wake = f.at + Delay,
             f.type = "decision-requested" =>
               ~ Prompted(log[r]) /\ ObservationsOf(r) + 1 >= NormalObservations
      PROVE  Story(log'[r], head'[r])
  <2>1. Seen(t).type = "observation-recorded"
    BY DEF Seen, Event
  <2>2. /\ Seen(t) \in Events /\ f \in Events /\ Permitted(head[r], log[r], Seen(t))
        /\ Permitted(Advance(head[r], Seen(t)), Append(log[r], Seen(t)), f)
    BY <1>8 DEF ExtendsTwice
  <2>3. Story(Append(Append(log[r], Seen(t)), f), Advance(Advance(head[r], Seen(t)), f))
    BY <1>0, <1>8, <2>1, <2>2, StoryObserved DEF ObservationsOf
  <2> QED BY <1>8, <2>3, ExtendsTwiceStory
<1>9. ASSUME NEW t \in Nat, WaitsAgain(r, t) PROVE Story(log'[r], head'[r])
  <2> DEFINE f == Event("wait-scheduled", "NORMAL_WAIT_REQUIRED", t, t + Delay)
  <2>1. f.type = "wait-scheduled" /\ f.wake = f.at + Delay
    BY DEF Event
  <2> QED BY <1>8, <1>9, <2>1 DEF WaitsAgain
<1>10. ASSUME NEW t \in Nat, Asks(r, t) PROVE Story(log'[r], head'[r])
  <2> DEFINE f == Event("decision-requested", "OBSERVATION_BUDGET_EXHAUSTED", t, t + DecisionTTL)
  <2>1. f.type = "decision-requested"
    BY DEF Event
  <2> QED BY <1>8, <1>10, <2>1 DEF Asks
<1>11. ASSUME NEW t \in Nat, NEW signal, Concludes(r, signal, t) PROVE Story(log'[r], head'[r])
  <2>1. PICK type \in {"run-completed", "run-stopped"} :
           ExtendsTwice(r, Seen(t), Event(type, signal, t, None))
    BY <1>11 DEF Concludes
  <2>2. Event(type, signal, t, None).type = type
    BY DEF Event
  <2> QED BY <1>8, <2>1, <2>2
<1> QED
  BY <1>1, <1>2, <1>3, <1>4, <1>5, <1>6, <1>7, <1>9, <1>10, <1>11 DEF Grows

LEMMA GrowthPlanned ==
    ASSUME LedgerType, NEW r \in Runs, RunHistory(r), Grows(r)
    PROVE  Planned(log'[r], action'[r], reserved'[r], decisions'[r])
<1>0. head[r] \in Heads /\ log[r] \in Seq(Events) /\ action[r] \in Actions
      /\ History(log[r], head[r]) /\ Planned(log[r], action[r], reserved[r], decisions[r])
  BY DEF LedgerType, RunHistory, Story
<1>1. ASSUME LedgerBeside(r), \/ \E e : Extends(r, e)
                              \/ \E e, f : ExtendsTwice(r, e, f)
      PROVE  Planned(log'[r], action'[r], reserved'[r], decisions'[r])
  BY <1>1, ExtendsPlanned, ExtendsTwicePlanned DEF LedgerBeside
<1>2. ASSUME NEW t, NEW signal,
             \/ Triggers(r) \/ WaitsAgain(r, t) \/ Asks(r, t) \/ Wakes(r, t)
             \/ Concludes(r, signal, t) \/ Stops(r, signal, t)
      PROVE  Planned(log'[r], action'[r], reserved'[r], decisions'[r])
  BY <1>1, <1>2 DEF Triggers, WaitsAgain, Asks, Wakes, Concludes, Stops
<1>3. ASSUME NEW t, Attempts(r, t)
      PROVE  Planned(log'[r], action'[r], reserved'[r], decisions'[r])
  <2>1. Planned(log'[r], action[r], reserved[r], decisions[r])
    BY <1>3, ExtendsPlanned DEF Attempts
  <2>2. log'[r] = Append(log[r], ActionAttempted(t)) /\ ActionAttempted(t) \in Events
        /\ ActionAttempted(t).type = "action-attempted"
    BY <1>3 DEF Attempts, Extends, ActionAttempted, Event
  <2>3. EventsOf(log'[r], "action-attempted") # {}
    BY <1>0, <2>2, EventsOfAppend
  <2>4. action[r].status # "NONE" /\ reserved'[r] = reserved[r] /\ decisions'[r] = decisions[r]
    BY <1>3 DEF Attempts
  <2> QED BY <2>1, <2>3, <2>4 DEF Planned
<1>4. ASSUME NEW t, NEW result \in ActionResults, Settles(r, result, t)
      PROVE  Planned(log'[r], action'[r], reserved'[r], decisions'[r])
  <2>1. Planned(log'[r], action[r], reserved[r], decisions[r])
    BY <1>4, ExtendsPlanned DEF Settles
  <2>2. /\ action[r].status # "NONE" /\ action'[r].attempts = action[r].attempts
        /\ reserved'[r] = reserved[r] /\ decisions'[r] = decisions[r]
    BY <1>4 DEF Settles
  <2> QED BY <2>1, <2>2 DEF Planned
<1>5. ASSUME NEW key, NEW expected, DecidesToWait(r, key, expected)
      PROVE  Planned(log'[r], action'[r], reserved'[r], decisions'[r])
  <2> DEFINE e == Event("decision-recorded", "WAIT_AND_RECHECK_AUTHORIZED", now, now + Extension)
  <2>1. Planned(log'[r], action[r], reserved[r], decisions[r])
    BY <1>5, ExtendsPlanned DEF DecidesToWait
  <2>2. PICK version : decisions'[r] = decisions[r] \cup
           {[key |-> key, choice |-> "WAIT_AND_RECHECK", expected |-> expected,
             fingerprint |-> NoFingerprint, version |-> version]}
    BY <1>5 DEF DecidesToWait, Notes
  <2>3. e \in Events /\ log'[r] = Append(log[r], e) /\ e.type = "decision-recorded"
    BY <1>5 DEF DecidesToWait, Extends, Event
  <2>4. Authorized(log'[r])
    BY <1>0, <2>3, PromptedAppend
  <2>5. action'[r] = action[r] /\ reserved'[r] = reserved[r]
    BY <1>5 DEF DecidesToWait
  <2> QED BY <2>1, <2>2, <2>4, <2>5 DEF Planned, DecisionChoices
<1>6. ASSUME NEW key, NEW expected, DecidesToEscalate(r, key, expected)
      PROVE  Planned(log'[r], action'[r], reserved'[r], decisions'[r])
  <2> DEFINE e == Event("decision-recorded", "ESCALATE_INCIDENT_AUTHORIZED", now, None)
             f == Event("action-reserved", NoSignal, now, None)
             m == Append(log[r], e)  g == Advance(head[r], e)
  <2>1. /\ ExtendsTwice(r, e, f)
        /\ e.type = "decision-recorded" /\ e.signal = "ESCALATE_INCIDENT_AUTHORIZED"
        /\ e.at = now /\ f.type = "action-reserved"
    BY <1>6 DEF DecidesToEscalate, Event
  <2>2. /\ e \in Events /\ f \in Events /\ log'[r] = Append(m, f)
        /\ Permitted(head[r], log[r], e)
    BY <2>1 DEF ExtendsTwice
  <2>3. ~ Authorized(log[r]) /\ Prompted(log[r])
    <3>1. ~ Authorized(log[r])
      BY <2>1, <2>2 DEF Permitted, Accepts, Authorized, EventsOf
    <3>2. head[r].state = "AWAITING_DECISION"
      BY <1>0, <2>1, <2>2, PermittedRow DEF Row
    <3> QED BY <1>0, <3>1, <3>2 DEF History, Consulted
  <2>4. m \in Seq(Events) /\ History(m, g)
    BY <1>0, <2>2, AppendOne, HistoryAppend
  <2>5. Fingerprint(m, AuthorizedAt(m)) = Fingerprint(log[r], now)
    BY <1>0, <2>1, <2>2, <2>3, FingerprintRecorded
  <2>6. DecisionChoice(m) = "ESCALATE_INCIDENT" /\ Authorized(m)
    BY <1>0, <2>1, <2>2, <2>3, ChoiceAppend, PromptedAppend
  <2>7. /\ Fingerprint(log'[r], AuthorizedAt(log'[r])) = Fingerprint(log[r], now)
        /\ DecisionChoice(log'[r]) = "ESCALATE_INCIDENT" /\ Authorized(log'[r])
    <3> HIDE DEF m, g
    <3>1. f.type \notin {"run-woke", "decision-requested", "decision-recorded"}
      BY <2>1
    <3>2. Fingerprint(Append(m, f), AuthorizedAt(Append(m, f))) = Fingerprint(m, AuthorizedAt(m))
      BY <2>2, <2>4, <2>6, <3>1, FingerprintAppend
    <3>3. DecisionChoice(Append(m, f)) = DecisionChoice(m) /\ Authorized(Append(m, f))
      BY <2>2, <2>4, <2>6, <3>1, ChoiceAppend, PromptedAppend
    <3> QED BY <2>2, <2>5, <2>6, <3>2, <3>3
  <2>8. Planned(log'[r], action[r], reserved[r], decisions[r])
    BY <2>1, ExtendsTwicePlanned
  <2>9. PICK version : decisions'[r] = decisions[r] \cup
           {[key |-> key, choice |-> "ESCALATE_INCIDENT", expected |-> expected,
             fingerprint |-> Fingerprint(log[r], now), version |-> version]}
    BY <1>6 DEF DecidesToEscalate, Notes
  <2>10. /\ ActionEnabled /\ reserved'[r] = Fingerprint(log[r], now)
         /\ action'[r].attempts = action[r].attempts
    BY <1>0, <1>6 DEF DecidesToEscalate, Actions
  <2> QED BY <2>7, <2>8, <2>9, <2>10 DEF Planned, DecisionChoices
<1> QED BY <1>2, <1>3, <1>4, <1>5, <1>6 DEF Grows


LEMMA HistoryInit == Init => HistoryInv
<1> SUFFICES ASSUME Init, NEW r \in Runs PROVE RunHistory(r)
  BY DEF HistoryInv
<1>1. log[r] = <<>> /\ head[r] = Unborn /\ action[r] = NoAction /\ decisions[r] = {}
  BY DEF Init, LedgerInit
<1>2. /\ \A type : EventsOf(<<>>, type) = {}
      /\ \A type : CountEvents(<<>>, type) = 0
  <2>1. \A type : EventsOf(<<>>, type) = {}
    BY DEF EventsOf
  <2> QED BY <2>1, FS_EmptySet DEF CountEvents
<1>3. ~ Prompted(<<>>) /\ ~ Authorized(<<>>) /\ DecisionChoice(<<>>) = "NONE"
  BY <1>2 DEF Prompted, Authorized, DecisionChoice
<1>4. /\ Unborn.state = NoState /\ Unborn.version = 0 /\ Unborn.updatedAt = 0
      /\ NoState \notin States /\ NoAction.status = "NONE" /\ NoAction.attempts = 0
  BY DEF Unborn, NoAction, NoState, States, ActiveStates, TerminalStates
<1>5. Numbered(<<>>, Unborn) /\ Timely(<<>>)
  BY <1>4 DEF Numbered, Timely
<1>6. Scheduled(<<>>, Unborn)
  BY <1>4 DEF Scheduled, NoState
<1>7. Consulted(<<>>, Unborn)
  BY <1>3, <1>4 DEF Consulted, NoState
<1>8. Budgeted(<<>>, Unborn)
  <2>1. 0 < NormalObservations /\ 0 <= NormalObservations
    BY ServiceAssumption DEF ServiceAssumption
  <2> QED BY <1>2, <1>3, <2>1 DEF Budgeted
<1>9. Apart(<<>>) /\ Rested(<<>>, Unborn)
  BY <1>2 DEF Apart, Rested, Observations
<1>10. Planned(<<>>, NoAction, reserved[r], {})
  BY <1>4 DEF Planned
<1> QED BY <1>1, <1>5, <1>6, <1>7, <1>8, <1>9, <1>10 DEF RunHistory, Story, History

LEMMA HistoryStep ==
    ASSUME LedgerAssumption, ServiceAssumption, TypeInv, ClaimInv, FailureInv, HistoryInv,
           [Next]_vars
    PROVE  HistoryInv'
<1>0. TypeInv' /\ LedgerType /\ now \in Nat
  BY TypeStep DEF TypeInv, WorkerType
<1>1. SUFFICES ASSUME NEW r \in Runs
               PROVE  /\ Story(log'[r], head'[r])
                      /\ Planned(log'[r], action'[r], reserved'[r], decisions'[r])
  BY DEF HistoryInv, RunHistory
<1>2. RunHistory(r) /\ Story(log[r], head[r]) /\ Numbered(log[r], head[r])
  BY DEF HistoryInv, RunHistory, Story, History
<1>3. CASE Kept(r)
  <2>1. head[r] \in Heads /\ head'[r] \in Heads
    BY <1>0 DEF TypeInv, LedgerType
  <2> QED BY <1>2, <1>3, <2>1, StoryReleased DEF Kept, RunHistory
<1>4. CASE Grows(r)
  <2>1. LedgerType'
    BY <1>0 DEF TypeInv
  <2> QED BY <1>0, <1>2, <1>4, <2>1, GrowthStory, GrowthPlanned
<1> QED BY <1>2, <1>3, <1>4, RunGrowth

\* The invariant the theorems below follow from.
THEOREM HistoryCorrect == Spec => [](TypeInv /\ ClaimInv /\ FailureInv /\ HistoryInv)
BY TypeInit, TypeStep, ClaimInit, ClaimStep, FailureInit, FailureStep, HistoryInit,
   HistoryStep, LedgerAssumption, ServiceAssumption, PTL DEF Spec

-----------------------------------------------------------------------------
(* What follows from it.                                                   *)

\* A wait is waited out, a decision recorded strictly before its expiry and a
\* prompt expires at or after it, whatever time a committing process read.
THEOREM DeadlinesHold == Spec => []DeadlinesAreKept
<1>1. HistoryInv => DeadlinesAreKept
  BY DEF HistoryInv, RunHistory, Story, History, Timely, DeadlinesAreKept
<1> QED BY <1>1, HistoryCorrect, PTL

\* A person is asked at most once, after the whole normal budget, and answers
\* at most once.
THEOREM OneCheckpoint == Spec => []OneHumanCheckpoint
<1>1. TypeInv /\ HistoryInv => OneHumanCheckpoint
  <2> SUFFICES ASSUME TypeInv, HistoryInv, NEW r \in Runs, Prompted(log[r])
               PROVE  /\ CountEvents(log[r], "decision-requested") = 1
                      /\ CountEvents(log[r], "decision-recorded") <= 1
                      /\ EnvelopeObservations(log[r]) = NormalObservations
    BY DEF OneHumanCheckpoint
  <2>1. log[r] \in Seq(Events) /\ Consulted(log[r], head[r]) /\ Budgeted(log[r], head[r])
    BY DEF TypeInv, LedgerType, HistoryInv, RunHistory, Story, History
  <2>2. CountEvents(log[r], "decision-requested") = 1
    BY <2>1, PlacesAreUnique, FS_Singleton DEF CountEvents
  <2>3. CountEvents(log[r], "decision-recorded") <= 1
    <3>1. CASE Authorized(log[r])
      <4>1. CountEvents(log[r], "decision-recorded") = 1
        BY <2>1, <3>1, PlacesAreUnique, FS_Singleton DEF CountEvents
      <4> QED BY <4>1
    <3>2. CASE ~ Authorized(log[r])
      <4>1. CountEvents(log[r], "decision-recorded") = 0
        BY <3>2, FS_EmptySet DEF CountEvents, Authorized
      <4> QED BY <4>1
    <3> QED BY <3>1, <3>2
  <2> QED BY <2>1, <2>2, <2>3 DEF Budgeted
<1> QED BY <1>1, HistoryCorrect, PTL

\* The normal budget bounds the observations, an authorized extension adds one,
\* and two are never closer than the wait between them.
THEOREM BudgetIsKept == Spec => []ObservationBudget
<1>1. TypeInv /\ HistoryInv => ObservationBudget
  <2> SUFFICES ASSUME TypeInv, HistoryInv, NEW r \in Runs
               PROVE  LET obs == EventsOf(log[r], "observation-recorded") IN
                      /\ Cardinality(obs) <= NormalObservations +
                           (IF DecisionChoice(log[r]) = "WAIT_AND_RECHECK" THEN 1 ELSE 0)
                      /\ \A i, j \in obs : i < j => log[r][j].at >= log[r][i].at +
                           (IF DecisionChoice(log[r]) = "WAIT_AND_RECHECK" /\ Delay > Extension
                              THEN Extension ELSE Delay)
    BY DEF ObservationBudget
  <2>1. Budgeted(log[r], head[r]) /\ Apart(log[r]) /\ log[r] \in Seq(Events)
    BY DEF HistoryInv, RunHistory, Story, TypeInv, LedgerType
  <2>2. CountEvents(log[r], "observation-recorded") \in Nat /\ NormalObservations \in Nat
    BY <2>1, CountType, ServiceAssumption DEF ServiceAssumption
  <2>3. CountEvents(log[r], "observation-recorded") <= NormalObservations +
           (IF DecisionChoice(log[r]) = "WAIT_AND_RECHECK" THEN 1 ELSE 0)
    BY <2>1, <2>2 DEF Budgeted
  <2> QED BY <2>1, <2>3 DEF Apart, Observations, Spacing, CountEvents
<1> QED BY <1>1, HistoryCorrect, PTL

\* A POST leaves only after an escalation authorized before the expiry of its
\* prompt, and a recorded attempt.
THEOREM PostsAreAuthorized == Spec => []PostIsAuthorized
<1>1. SafetyInv /\ HistoryInv => PostIsAuthorized
  <2> SUFFICES ASSUME SafetyInv, HistoryInv, NEW r \in Runs, posts[r] > 0
               PROVE  /\ DecisionChoice(log[r]) = "ESCALATE_INCIDENT"
                      /\ AuthorizedAt(log[r]) < ExpiresAt(log[r])
                      /\ EventsOf(log[r], "action-attempted") # {}
    BY DEF PostIsAuthorized
  <2> DEFINE l == log[r]
  <2>1. /\ l \in Seq(Events) /\ Timely(l) /\ Consulted(l, head[r])
        /\ Planned(l, action[r], reserved[r], decisions[r])
    BY DEF SafetyInv, TypeInv, LedgerType, HistoryInv, RunHistory, Story, History
  <2>2. action[r].attempts > 0 /\ action[r].status # "NONE"
    <3>1. /\ posts[r] <= action[r].attempts /\ posts[r] \in Nat
          /\ action[r].attempts = IF action[r].status \in {"NONE", "RESERVED"} THEN 0 ELSE 1
      BY DEF SafetyInv, EffectInv, TablesInv, RunInv, TypeInv, WorkerType
    <3> QED BY <3>1
  <2>3. /\ DecisionChoice(l) = "ESCALATE_INCIDENT" /\ EventsOf(l, "action-attempted") # {}
    BY <2>1, <2>2 DEF Planned
  <2>4. Authorized(l) /\ Prompted(l)
    BY <2>1, <2>3 DEF DecisionChoice, Authorized, Consulted
  <2>5. PICK p \in 1..Len(l) : EventsOf(l, "decision-requested") = {p}
    BY <2>1, <2>4, PlacesAreUnique
  <2>6. PICK q \in 1..Len(l) : EventsOf(l, "decision-recorded") = {q}
    BY <2>1, <2>4, PlacesAreUnique
  <2>7. l[q].type = "decision-recorded" /\ q \in DOMAIN l
    BY <2>6 DEF EventsOf
  <2>8. q > 1 /\ l[q].at < l[q - 1].wake /\ l[q - 1].type = "decision-requested"
    BY <2>1, <2>7 DEF Timely
  <2>9. q - 1 = p
    <3>1. q - 1 \in DOMAIN l
      BY <2>1, <2>7, <2>8
    <3>2. q - 1 \in EventsOf(l, "decision-requested")
      BY <2>8, <3>1 DEF EventsOf
    <3> QED BY <2>5, <3>2
  <2>10. AuthorizedAt(l) = l[q].at /\ ExpiresAt(l) = l[p].wake
    BY <2>5, <2>6, PromptIs, AuthorizedIs DEF ExpiresAt
  <2> QED BY <2>3, <2>8, <2>9, <2>10
<1> QED BY <1>1, SafetyCorrect, HistoryCorrect, PTL

\* The plan rebuilt from the history stays the reserved one for as long as the
\* action is to be begun.
THEOREM PlanIsStable == Spec => []ReservedPlanIsStable
<1>1. HistoryInv => ReservedPlanIsStable
  BY DEF HistoryInv, RunHistory, Planned, ReservedPlanIsStable
<1> QED BY <1>1, HistoryCorrect, PTL

\* An identical retry of a recorded decision is answered with its receipt in
\* every state the run reaches afterwards.
THEOREM RetriesAreReplayed == Spec => []RetryIsReplayed
<1>1. HistoryInv => RetryIsReplayed
  <2> SUFFICES ASSUME HistoryInv, NEW r \in Runs, NEW d \in decisions[r]
               PROVE  SubmitReply(r, d.key, d.choice, d.expected, now) = "replayed"
    BY DEF RetryIsReplayed
  <2>1. /\ Consulted(log[r], head[r]) /\ Planned(log[r], action[r], reserved[r], decisions[r])
    BY DEF HistoryInv, RunHistory, Story, History
  <2>2. Prompted(log[r]) /\ Authorized(log[r]) /\ d.choice \in DecisionChoices
        /\ (d.choice = "ESCALATE_INCIDENT" => ActionEnabled)
    BY <2>1 DEF Planned, Consulted
  <2>3. d.fingerprint = SubmittedFingerprint(log[r], d.choice, now)
    <3>1. SubmittedAt(log[r], now) = AuthorizedAt(log[r])
      BY <2>2 DEF SubmittedAt
    <3>2. CASE d.choice = "ESCALATE_INCIDENT"
      BY <2>1, <3>1, <3>2 DEF SubmittedFingerprint, Planned
    <3>3. CASE d.choice = "WAIT_AND_RECHECK"
      BY <2>1, <3>3 DEF SubmittedFingerprint, Planned
    <3> QED BY <2>2, <3>2, <3>3 DEF DecisionChoices
  <2>4. ASSUME NEW t, NEW wake
        PROVE  DecisionReply(r, d.key, d.choice, d.expected,
                 SubmittedFingerprint(log[r], d.choice, now), t, wake) = "replayed"
    <3>1. \E c \in {c \in decisions[r] : c.key = d.key} :
             /\ c.choice = d.choice /\ c.expected = d.expected
             /\ c.fingerprint = SubmittedFingerprint(log[r], d.choice, now)
      BY <2>3
    <3> QED BY <3>1 DEF DecisionReply
  <2> QED BY <2>2, <2>4 DEF SubmitReply
<1> QED BY <1>1, HistoryCorrect, PTL


-----------------------------------------------------------------------------
(* The head is the projection of the history.                              *)

\* The heads the projection carries along the history, the unborn one first.
CarriedAlong(c, l) ==
    c = [n \in 0..Len(l) |-> IF n = 0 THEN Unborn ELSE Advance(c[n - 1], l[n])]

LEMMA CarriedOnce ==
    ASSUME NEW l, Len(l) \in Nat, NEW c, NEW d, CarriedAlong(c, l), CarriedAlong(d, l),
           NEW n \in 0..Len(l)
    PROVE  c[n] = d[n]
<1> DEFINE T == {i \in Nat : i <= Len(l) /\ c[i] # d[i]}
<1>1. \A i \in 0..Len(l) : /\ c[i] = IF i = 0 THEN Unborn ELSE Advance(c[i - 1], l[i])
                           /\ d[i] = IF i = 0 THEN Unborn ELSE Advance(d[i - 1], l[i])
  BY Zenon DEF CarriedAlong
<1>2. SUFFICES ASSUME T # {} PROVE FALSE
  BY DEF T
<1>3. T \subseteq Nat
  OBVIOUS
<1>4. PICK i \in T : \A j \in T : ~ (<<j, i>> \in OpToRel(<, Nat))
  BY <1>2, <1>3, WFMin, NatLessThanWellFounded, Zenon
<1>5. i \in 0..Len(l) /\ c[i] # d[i]
  OBVIOUS
<1>6. i # 0
  BY <1>1, <1>5
<1>7. i - 1 \in 0..Len(l) /\ i - 1 \in Nat /\ i - 1 < i /\ i \in Nat
  BY <1>5, <1>6
<1>8. <<i - 1, i>> \in OpToRel(<, Nat)
  BY <1>7, Zenon DEF OpToRel
<1>9. i - 1 \notin T
  BY <1>4, <1>8
<1>10. c[i - 1] = d[i - 1]
  BY <1>7, <1>9
<1> QED BY <1>1, <1>5, <1>6, <1>10

LEMMA RebuildIs ==
    ASSUME NEW l, Len(l) \in Nat, NEW c, CarriedAlong(c, l)
    PROVE  Rebuild(l) = c[Len(l)]
<1> DEFINE R == CHOOSE h : h = [n \in 0..Len(l) |->
                                  IF n = 0 THEN Unborn ELSE Advance(h[n - 1], l[n])]
<1>1. Rebuild(l) = R[Len(l)]
  BY Zenon DEF Rebuild
<1>2. CarriedAlong(R, l)
  BY Zenon DEF CarriedAlong
<1>3. Len(l) \in 0..Len(l)
  OBVIOUS
<1> HIDE DEF R
<1>4. R[Len(l)] = c[Len(l)]
  BY <1>2, <1>3, CarriedOnce
<1> QED BY <1>1, <1>4

Projected(l, h) == \E c : CarriedAlong(c, l) /\ c[Len(l)] = Released(h)

LEMMA ProjectedAppend ==
    ASSUME NEW h \in Heads, NEW l \in Seq(Events), NEW e \in Events, Projected(l, h)
    PROVE  Projected(Append(l, e), Advance(h, e))
<1>1. PICK c : CarriedAlong(c, l) /\ c[Len(l)] = Released(h)
  BY DEF Projected
<1> DEFINE m == Append(l, e)  N == Len(l)
           d == [n \in 0..(N + 1) |-> IF n = N + 1 THEN Advance(c[N], e) ELSE c[n]]
<1>2. N \in Nat /\ Len(m) = N + 1 /\ m[N + 1] = e /\ \A n \in 1..N : m[n] = l[n]
  BY AppendOne
<1>3. \A n \in 0..N : c[n] = IF n = 0 THEN Unborn ELSE Advance(c[n - 1], l[n])
  BY <1>1, Zenon DEF CarriedAlong
<1>4. ASSUME NEW n \in 0..(N + 1)
      PROVE  d[n] = IF n = 0 THEN Unborn ELSE Advance(d[n - 1], m[n])
  <2>1. CASE n = N + 1
    <3>1. d[n] = Advance(c[N], e) /\ n # 0 /\ n - 1 = N /\ d[N] = c[N]
      BY <1>2, <2>1
    <3> QED BY <1>2, <2>1, <3>1
  <2>2. CASE n = 0
    BY <1>2, <1>3, <2>2
  <2>3. CASE n \in 1..N
    <3>1. d[n] = c[n] /\ n # 0 /\ d[n - 1] = c[n - 1] /\ n \in 0..N
      BY <1>2, <2>3
    <3> QED BY <1>2, <1>3, <2>3, <3>1
  <2> QED BY <1>2, <2>1, <2>2, <2>3
<1>5. CarriedAlong(d, m)
  <2>1. d = [n \in 0..(N + 1) |-> d[n]]
    OBVIOUS
  <2> HIDE DEF d, m
  <2>2. d = [n \in 0..(N + 1) |-> IF n = 0 THEN Unborn ELSE Advance(d[n - 1], m[n])]
    BY <1>4, <2>1
  <2> QED BY <1>2, <2>2 DEF CarriedAlong
<1>6. d[Len(m)] = Advance(Released(h), e)
  BY <1>1, <1>2
<1>7. Advance(Released(h), e) = Released(Advance(h, e))
  BY DEF Advance, Released, Heads
<1> QED BY <1>5, <1>6, <1>7, Zenon DEF Projected

LEMMA ProjectedReleased ==
    ASSUME NEW l, NEW h, NEW g, Released(g) = Released(h), Projected(l, h)
    PROVE  Projected(l, g)
BY DEF Projected

ProjectionInv == \A r \in Runs : Projected(log[r], head[r])

LEMMA ProjectionInit == Init => ProjectionInv
<1> SUFFICES ASSUME Init, NEW r \in Runs PROVE Projected(log[r], head[r])
  BY DEF ProjectionInv
<1>1. log[r] = <<>> /\ head[r] = Unborn
  BY DEF Init, LedgerInit
<1> DEFINE c == [n \in 0..0 |-> Unborn]
<1>2. CarriedAlong(c, <<>>)
  <2>1. c = [n \in 0..Len(<<>>) |-> IF n = 0 THEN Unborn ELSE Advance(c[n - 1], <<>>[n])]
    OBVIOUS
  <2> QED BY <2>1, Zenon DEF CarriedAlong
<1>3. c[Len(<<>>)] = Released(Unborn)
  <2>1. c[Len(<<>>)] = Unborn
    OBVIOUS
  <2>2. Released(Unborn) = Unborn
    <3>1. Unborn \in Heads
      BY DEF Unborn, Heads, OptionalTimes, Times
    <3>2. Unborn.owner = NoWorker /\ Unborn.expires = None
      BY DEF Unborn
    <3> QED BY <3>1, <3>2 DEF Released, Heads
  <2> QED BY <2>1, <2>2
<1> QED BY <1>1, <1>2, <1>3, Zenon DEF Projected

\* Every way a history grows is one event or two, none dated in the future.
LEMMA GrowsByEvents ==
    ASSUME now \in Nat, NEW r, Grows(r)
    PROVE  \/ \E e : Extends(r, e) /\ e.at <= now
           \/ \E e, f : ExtendsTwice(r, e, f) /\ f.at <= now
<1>1. ASSUME NEW type, NEW signal, NEW t, NEW wake
      PROVE  Event(type, signal, t, wake).at = t
  BY DEF Event
<1>2. CASE Triggers(r)
  BY <1>1, <1>2 DEF Triggers
<1>3. ASSUME NEW t \in 0..now, WaitsAgain(r, t) \/ Asks(r, t)
      PROVE  \E e, f : ExtendsTwice(r, e, f) /\ f.at <= now
  BY <1>1, <1>3 DEF WaitsAgain, Asks
<1>4. ASSUME NEW t \in 0..now, NEW signal, Concludes(r, signal, t)
      PROVE  \E e, f : ExtendsTwice(r, e, f) /\ f.at <= now
  BY <1>1, <1>4 DEF Concludes
<1>5. ASSUME NEW t \in 0..now, NEW signal, Wakes(r, t) \/ Attempts(r, t) \/ Stops(r, signal, t)
      PROVE  \E e : Extends(r, e) /\ e.at <= now
  BY <1>1, <1>5 DEF Wakes, Attempts, Stops, ActionAttempted
<1>6. ASSUME NEW t \in 0..now, NEW result \in ActionResults, Settles(r, result, t)
      PROVE  \E e : Extends(r, e) /\ e.at <= now
  BY <1>6, ActionEventRow DEF Settles
<1>7. ASSUME NEW key, NEW expected, DecidesToWait(r, key, expected)
      PROVE  \E e : Extends(r, e) /\ e.at <= now
  BY <1>1, <1>7 DEF DecidesToWait
<1>8. ASSUME NEW key, NEW expected, DecidesToEscalate(r, key, expected)
      PROVE  \E e, f : ExtendsTwice(r, e, f) /\ f.at <= now
  BY <1>1, <1>8 DEF DecidesToEscalate
<1> QED BY <1>2, <1>3, <1>4, <1>5, <1>6, <1>7, <1>8 DEF Grows

LEMMA ProjectionStep ==
    ASSUME LedgerAssumption, ServiceAssumption, TypeInv, ClaimInv, FailureInv, HistoryInv,
           ProjectionInv, [Next]_vars
    PROVE  ProjectionInv'
<1> SUFFICES ASSUME NEW r \in Runs PROVE Projected(log'[r], head'[r])
  BY DEF ProjectionInv
<1>0. now \in Nat
  BY DEF TypeInv, WorkerType
<1>1. head[r] \in Heads /\ log[r] \in Seq(Events) /\ Projected(log[r], head[r])
      /\ Numbered(log[r], head[r])
  BY DEF TypeInv, LedgerType, ProjectionInv, HistoryInv, RunHistory, Story, History
<1>2. CASE Kept(r)
  BY <1>1, <1>2, ProjectedReleased DEF Kept
<1>3. ASSUME NEW e, Extends(r, e) PROVE Projected(log'[r], head'[r])
  BY <1>1, <1>3, ProjectedAppend, ProjectedReleased DEF Extends
<1>4. ASSUME NEW e, NEW f, ExtendsTwice(r, e, f) PROVE Projected(log'[r], head'[r])
  <2>1. e \in Events /\ f \in Events /\ log'[r] = Append(Append(log[r], e), f)
        /\ Released(head'[r]) = Released(Advance(Advance(head[r], e), f))
    BY <1>4 DEF ExtendsTwice
  <2>2. Append(log[r], e) \in Seq(Events) /\ Advance(head[r], e) \in Heads
        /\ Projected(Append(log[r], e), Advance(head[r], e))
    BY <1>1, <2>1, AppendOne, AdvanceType, ProjectedAppend
  <2>3. Projected(Append(Append(log[r], e), f), Advance(Advance(head[r], e), f))
    BY <2>1, <2>2, ProjectedAppend
  <2> QED BY <2>1, <2>3, ProjectedReleased
<1> QED BY <1>0, <1>1, <1>2, <1>3, <1>4, RunGrowth, GrowsByEvents

\* The head row is, lease aside, what rebuildHead would write from the events.
THEOREM HeadsAreProjections == Spec => []HeadIsProjection
<1>1. TypeInv /\ ProjectionInv => HeadIsProjection
  <2> SUFFICES ASSUME TypeInv, ProjectionInv, NEW r \in Runs
               PROVE  Rebuild(log[r]) = Released(head[r])
    BY DEF HeadIsProjection
  <2>1. Len(log[r]) \in Nat
    BY DEF TypeInv, LedgerType
  <2>2. PICK c : CarriedAlong(c, log[r]) /\ c[Len(log[r])] = Released(head[r])
    BY DEF ProjectionInv, Projected
  <2> QED BY <2>1, <2>2, RebuildIs
<1> QED
  BY <1>1, HistoryCorrect, ProjectionInit, ProjectionStep, LedgerAssumption,
     ServiceAssumption, PTL DEF Spec

-----------------------------------------------------------------------------
(* No run blocks the recovery of the others.                               *)

\* The last event of a run is not dated in the future.
FreshInv == \A r \in Runs : head[r].updatedAt <= now

LEMMA FreshInit == Init => FreshInv
BY DEF Init, LedgerInit, Unborn, FreshInv

LEMMA ClockRises ==
    ASSUME [Next]_vars PROVE now' = now \/ now' = now + 1
<1>1. ASSUME NEW w \in Workers, WorkerStep(w) PROVE now' = now
  BY <1>1
     DEF WorkerStep, StartTick, Recover, NothingDue, ReadClaim, ClaimDue, Wake, WakeRefused,
         Expire, ExpireRefused, Begin, BeginRefused, SendPost, IncidentReturns, Finish,
         FinishRefused, Observed, ObservationFailed, ObservationDropped, Commit,
         CommitRefused, StopRun, StopRunRefused, Refused
<1>2. CASE Environment
  BY <1>2 DEF Environment, Tick, Trigger, Submit, ProviderAccepts, ProviderRefuses
<1>3. ASSUME NEW w \in Workers, Locked(w) \/ Stop(w) \/ Restart(w) PROVE now' = now
  BY <1>3 DEF Locked, Stop, Restart, Refused
<1>4. CASE UNCHANGED vars
  BY <1>4 DEF vars
<1> QED BY <1>1, <1>2, <1>3, <1>4 DEF Next

LEMMA FreshStep ==
    ASSUME LedgerAssumption, ServiceAssumption, TypeInv, ClaimInv, FailureInv, HistoryInv,
           FreshInv, [Next]_vars
    PROVE  FreshInv'
<1> SUFFICES ASSUME NEW r \in Runs PROVE head'[r].updatedAt <= now'
  BY DEF FreshInv
<1>1. /\ now \in Nat /\ now' \in Nat /\ now' >= now /\ head[r] \in Heads /\ head'[r] \in Heads
      /\ head[r].updatedAt <= now /\ Numbered(log[r], head[r])
  BY TypeStep, ClockRises
     DEF TypeInv, WorkerType, LedgerType, FreshInv, HistoryInv, RunHistory, Story, History
<1>2. ASSUME NEW g \in Heads, g.updatedAt <= now, Released(head'[r]) = Released(g)
      PROVE  head'[r].updatedAt <= now'
  <2>1. head'[r].updatedAt = g.updatedAt /\ g.updatedAt \in Nat
    BY <1>1, <1>2, ReleasedFields DEF Heads, Times
  <2> QED BY <1>1, <1>2, <2>1
<1>3. CASE Kept(r)
  BY <1>1, <1>2, <1>3 DEF Kept
<1>4. ASSUME NEW e, Extends(r, e), e.at <= now PROVE head'[r].updatedAt <= now'
  BY <1>1, <1>2, <1>4, AdvanceType, AdvanceFields DEF Extends
<1>5. ASSUME NEW e, NEW f, ExtendsTwice(r, e, f), f.at <= now PROVE head'[r].updatedAt <= now'
  <2>1. e \in Events /\ f \in Events
        /\ Released(head'[r]) = Released(Advance(Advance(head[r], e), f))
    BY <1>5 DEF ExtendsTwice
  <2>2. Advance(head[r], e) \in Heads
    BY <1>1, <2>1, AdvanceType
  <2>3. Advance(Advance(head[r], e), f) \in Heads
        /\ Advance(Advance(head[r], e), f).updatedAt = f.at
    BY <2>1, <2>2, AdvanceType, AdvanceFields
  <2> QED BY <1>2, <1>5, <2>1, <2>3
<1> QED BY <1>1, <1>3, <1>4, <1>5, RunGrowth, GrowsByEvents

\* A process that reads the clock and recovers at once is never refused: no run,
\* whatever crashed while it acted, makes recoverAbandonedWork throw for ever and
\* keeps the ticks from every other run.  A refused recovery had an old claimTime.
THEOREM RecoveryNeverSticks == Spec => []CanRecover(now)
<1>1. TypeInv /\ SafetyInv /\ FreshInv => CanRecover(now)
  <2> SUFFICES ASSUME TypeInv, SafetyInv, FreshInv, NEW r \in Runs,
                      action[r].status = "IN_FLIGHT"
               PROVE  Accepts(head[r], log[r], RecoveryEvent(now))
    BY DEF CanRecover, Abandoned
  <2>1. now \in Nat /\ head[r].state = "RESUMING" /\ head[r].updatedAt <= now
    BY DEF TypeInv, WorkerType, SafetyInv, TablesInv, RunInv, FreshInv
  <2>2. /\ RecoveryEvent(now).type = "action-uncertain" /\ RecoveryEvent(now).at = now
        /\ RecoveryEvent(now).signal = "ACTION_UNCERTAIN" /\ RecoveryEvent(now).wake = None
    BY DEF RecoveryEvent, ActionEvent, Event
  <2>3. /\ EventSignals("action-uncertain") = {"ACTION_UNCERTAIN"}
        /\ SourceStates("ACTION_UNCERTAIN") = {"RESUMING"}
        /\ Target("ACTION_UNCERTAIN") = "STOPPED"
    BY KernelTargets DEF EventSignals, SourceStates, MonitoringSignals, DecisionSignals,
                         ActionSignals, ObservationStops
  <2> QED BY <2>1, <2>2, <2>3 DEF Accepts
<1> QED
  BY <1>1, SafetyCorrect, HistoryCorrect, FreshInit, FreshStep, LedgerAssumption,
     ServiceAssumption, PTL DEF Spec

=============================================================================
