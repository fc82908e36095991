----------------------- MODULE ReleaseStewardProperties -----------------------
(***************************************************************************)
(* What the release steward must never do, stated over the variables of    *)
(* ReleaseSteward.                                                          *)
(***************************************************************************)
EXTENDS ReleaseSteward

Claims ==
    [run : Runs \cup {NoRun}, version : Nat, state : States \cup {NoState},
     wake : OptionalTimes, expires : OptionalTimes, observations : Nat,
     waits : Nat, prompts : Nat, choice : DecisionChoices \cup {"NONE"},
     status : ActionStatuses]

\* The state is well formed.  `reserved` and `decisions` hold plans and
\* requests that are only compared; `choice` of a worker outside a tick is NONE.
TypeOK ==
    /\ log \in [Runs -> Seq(Events)]
    /\ head \in [Runs -> Heads]
    /\ action \in [Runs -> Actions]
    /\ DOMAIN reserved = Runs /\ DOMAIN decisions = Runs
    /\ now \in Nat
    /\ pc \in [Workers -> PCs]
    /\ at \in [Workers -> Nat]
    /\ claim \in [Workers -> Claims]
    /\ outcome \in [Workers -> Signals \cup ActionResults \cup {"NONE"}]
    /\ stopping \in [Workers -> BOOLEAN]
    /\ restarts \in Nat
    /\ posts \in [Runs -> Nat] /\ issues \in [Runs -> Nat] /\ refusals \in [Runs -> Nat]
    /\ \A w \in Workers : pc[w] \notin {"idle", "recover", "claim"} => claim[w].run \in Runs

-----------------------------------------------------------------------------
(* The external action.                                                    *)

\* One incident POST per run in its life, whatever crashes, restarts, expired
\* leases and second workers do (finishExternalAction, recoverAbandonedWork).
AtMostOnePost == \A r \in Runs : posts[r] <= 1

\* A POST leaves only after an escalation was authorized in time and the ledger
\* had recorded the attempt.
PostIsAuthorized ==
    \A r \in Runs : posts[r] > 0 =>
        /\ DecisionChoice(log[r]) = "ESCALATE_INCIDENT"
        /\ AuthorizedAt(log[r]) < ExpiresAt(log[r])
        /\ EventsOf(log[r], "action-attempted") # {}

\* What the ledger says of the action is what the provider did: a confirmed run
\* has its one issue, a rejected one has none and none can still appear, and a
\* run that has not attempted has sent nothing.
ReceiptIsTrue ==
    \A r \in Runs :
        /\ action[r].status = "CONFIRMED" => issues[r] = 1
        /\ action[r].status = "REJECTED" => issues[r] = 0 /\ refusals[r] = posts[r]
        /\ action[r].status \in {"NONE", "RESERVED"} => posts[r] = 0

\* The two tables agree: the run is resuming exactly while its action is open,
\* and each way an action ends is the one end of its run that names it.
ActionMatchesHead ==
    \A r \in Runs :
        /\ head[r].state = "RESUMING" <=> action[r].status \in {"RESERVED", "IN_FLIGHT"}
        /\ head[r].state = "ESCALATED" <=> action[r].status = "CONFIRMED"
        /\ LET code == IF head[r].state = "STOPPED"
                         THEN StopCode(log[r][Len(log[r])].signal) ELSE NoCode
           IN  /\ code = "ACTION_REJECTED" <=> action[r].status = "REJECTED"
               /\ code = "ACTION_OUTCOME_UNCERTAIN" <=> action[r].status = "UNCERTAIN"

\* beginIncidentAction refuses a plan whose fingerprint is not the reserved one,
\* and no later step could repair that: the plan rebuilt from the history must
\* stay the reserved one as long as the action is to be begun.
ReservedPlanIsStable ==
    \A r \in Runs : action[r].status = "RESERVED" =>
        Fingerprint(log[r], AuthorizedAt(log[r])) = reserved[r]

-----------------------------------------------------------------------------
(* The history and the heads.                                              *)

\* The head row is what rebuildHead would write from the events, lease aside:
\* the operational index never departs from the audit history.
HeadIsProjection == \A r \in Runs : Rebuild(log[r]) = Released(head[r])

\* A wait is waited out, a decision is recorded strictly before its expiry and
\* a prompt expires at or after it, although each of the three is committed at
\* a time its process read earlier.
DeadlinesAreKept ==
    \A r \in Runs : \A i \in DOMAIN log[r] :
        /\ log[r][i].signal \in {"WAIT_DUE", "DECISION_EXPIRED"} =>
              log[r][i].at >= log[r][i - 1].wake
        /\ log[r][i].type = "decision-recorded" =>
              log[r][i].at < log[r][i - 1].wake

\* The normal budget bounds the observations, the one authorized extension adds
\* one, and two observations are never closer than the wait between them.
ObservationBudget ==
    \A r \in Runs :
        LET obs == EventsOf(log[r], "observation-recorded") IN
        /\ Cardinality(obs) <= NormalObservations +
              (IF DecisionChoice(log[r]) = "WAIT_AND_RECHECK" THEN 1 ELSE 0)
        /\ \A i, j \in obs : i < j =>
              log[r][j].at >= log[r][i].at +
                (IF DecisionChoice(log[r]) = "WAIT_AND_RECHECK" /\ Delay > Extension
                   THEN Extension ELSE Delay)

\* A person is asked at most once, and only after the whole normal budget.
OneHumanCheckpoint ==
    \A r \in Runs : Prompted(log[r]) =>
        /\ CountEvents(log[r], "decision-requested") = 1
        /\ CountEvents(log[r], "decision-recorded") <= 1
        /\ EnvelopeObservations(log[r]) = NormalObservations

\* A claim whose version is still the head's is a true picture of the run, even
\* though its counts were read after the claiming transaction.  Stale claims
\* are the ones the version check refuses.
CurrentClaimIsTrue ==
    \A w \in Workers :
        LET c == claim[w] IN
        (pc[w] \in {"wake", "expire", "begin", "observing", "commit", "stop"}
          /\ c.version = head[c.run].version) =>
            /\ c.state = head[c.run].state /\ c.wake = head[c.run].wake
            /\ c.observations = CountEvents(log[c.run], "observation-recorded")
            /\ c.prompts = CountEvents(log[c.run], "decision-requested")
            /\ c.status = action[c.run].status

\* Two workers never hold the same version of a run under leases that are both
\* unexpired, although one may claim at a time it read long ago.
LeaseExcludes ==
    \A v, w \in Workers :
        (/\ v # w /\ claim[v].run = claim[w].run /\ claim[v].run # NoRun
         /\ claim[v].version = claim[w].version)
            => claim[v].expires <= now \/ claim[w].expires <= now

-----------------------------------------------------------------------------
(* The operator.                                                           *)

\* An identical retry of a recorded decision is answered with the original
\* receipt for ever: after the wait, after the expiry time, after the run ended.
RetryIsReplayed ==
    \A r \in Runs : \A d \in decisions[r] :
        SubmitReply(r, d.key, d.choice, d.expected, now) = "replayed"

-----------------------------------------------------------------------------
(* Steps.                                                                  *)

Terminal(r) == head[r].state \in TerminalStates

\* A run that has ended stays as it ended: no late commit, late answer, retry,
\* recovery or claim touches it.
TerminalIsFinal ==
    [][\A r \in Runs : Terminal(r) =>
          head'[r] = head[r] /\ log'[r] = log[r] /\ action'[r] = action[r]]_vars

\* While the lease of a run is unexpired, an action in flight is settled only by
\* the worker that made the attempt: recovery by another process does not give
\* up an answer that is still awaited.
LiveLeaseProtects ==
    [][\A r \in Runs :
         (action[r].status = "IN_FLIGHT" /\ action'[r].status # "IN_FLIGHT"
           /\ head[r].expires > now) =>
              \E w \in Workers : claim[w].run = r /\ pc[w] = "finish"]_vars

-----------------------------------------------------------------------------
(* The abstract life of a run.                                             *)

\* The run as its reader sees it.
LifeOf(r) ==
    [state        |-> head[r].state,
     code         |-> IF head[r].state = "STOPPED"
                        THEN StopCode(log[r][Len(log[r])].signal) ELSE NoCode,
     observations |-> CountEvents(log[r], "observation-recorded"),
     asked        |-> Prompted(log[r]),
     choice       |-> DecisionChoice(log[r]),
     incident     |-> action[r].status,
     sent         |-> posts[r]]

Lifecycle == INSTANCE ReleaseRunLifecycle WITH life <- [r \in Runs |-> LifeOf(r)]

\* Workers, leases, versions, crashes and zombies notwithstanding, every run
\* lives one of the sequential lives of ReleaseRunLifecycle.
ImplementsLifecycle == Lifecycle!Spec

-----------------------------------------------------------------------------
(* What the specification document says and the program does not do.       *)

\* docs/AUTONOMOUS_RELEASE_STEWARD_TECHNICAL_SPEC_2026-08-23.md:135, "A newer
\* candidate stops the older non-terminal run": once a later delivery has its
\* run, the only event an older run can still record is its supersession.
NewerCandidateSupersedes ==
    \A r, s \in Runs :
        Exists(r) /\ Exists(s) /\ log[r][1].at < log[s][1].at =>
            \A i \in DOMAIN log[r] :
                log[r][i].at > log[s][1].at => log[r][i].type = "run-superseded"

\* The same document, line 356, "`410` for expiry": an answer to an undecided
\* prompt after its expiry, with the version the prompt asks for, is answered
\* 410, whether or not a worker has noticed the expiry before.
ExpiryIsAnsweredGone ==
    \A r \in Runs, key \in Keys, choice \in DecisionChoices :
        (Prompted(log[r]) /\ ~ Authorized(log[r]) /\ now >= ExpiresAt(log[r])) =>
            SubmitReply(r, key, choice, EnvelopeVersion(log[r]), now) = "gone"

=============================================================================
