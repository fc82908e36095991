----------------------- MODULE ReleaseStewardLiveness -----------------------
(***************************************************************************)
(* What the release steward must eventually do, under the fairness its     *)
(* scheduling gives.                                                       *)
(*                                                                         *)
(* Worker.  #schedule re-arms its timer in a `finally`, so a tick that     *)
(* failed is followed by another: a worker that can step does.             *)
(* Supervisor.  A stopping process ends and is replaced.                   *)
(* Clock.  Time goes on.  Up to EarlyTicks it may pass between any two     *)
(* steps; from then on it passes when no worker has anything to do, so     *)
(* that a finite horizon holds a whole run with every retry the bounds     *)
(* allow.                                                                  *)
(* Observation.  Except on the runs of Poisoned, an observation ends in a  *)
(* result or in an error classifyObservationFailure knows: the worker      *)
(* retries an unknown error for ever, and nothing else can then be         *)
(* promised of that run.                                                   *)
(* File.  Statements find the file locked up to EarlyTicks.                *)
(***************************************************************************)
EXTENDS ReleaseStewardProperties

CONSTANTS
    Poisoned,     \* runs whose observation always throws an unknown error
    EarlyTicks    \* bound: until then the clock moves at any moment

ASSUME LivenessAssumption ==
    /\ Poisoned \subseteq Runs
    /\ EarlyTicks \in 0..MaxTime

\* No worker holds a run and none could take one.
Quiet ==
    /\ \A w \in Workers : pc[w] \in {"idle", "recover", "claim"}
    /\ NextDue(now) = {} /\ Abandoned(now) = {}

TimelyTick == (now < EarlyTicks \/ Quiet) /\ Tick

\* An observation is dropped by a stopping process or on a poisoned run, and a
\* poisoned run is not observed.
Observable(w) ==
    pc[w] = "observing" =>
        IF claim[w].run \in Poisoned \/ stopping[w]
          THEN ObservationDropped(w) ELSE ~ ObservationDropped(w)

LiveStep(w) == WorkerStep(w) /\ Observable(w)

LiveNext ==
    \/ TimelyTick
    \/ now = 0 /\ \E r \in Runs : Trigger(r)
    \/ \E r \in Runs : ProviderAccepts(r) \/ ProviderRefuses(r)
    \/ \E r \in Runs, key \in Keys, choice \in DecisionChoices :
         \E expected \in 1..Len(log[r]) : Submit(r, key, choice, expected)
    \/ \E w \in Workers : LiveStep(w) \/ Stop(w) \/ Restart(w)
    \/ now < EarlyTicks /\ \E w \in Workers : Locked(w)

Fairness ==
    /\ WF_vars(TimelyTick)
    /\ \A w \in Workers : /\ WF_vars(LiveStep(w))
                          /\ WF_vars(stopping[w] /\ Restart(w))

LiveSpec == Init /\ [][LiveNext]_vars /\ Fairness

\* Every accepted run ends, whatever nobody answers and whatever crashes: every
\* wait is woken, every prompt answered or expired, every action settled or given
\* up (claimNextDueRun, recoverAbandonedWork).  A run that fails again and again
\* does not hold up the others, although it is due before them.
EveryRunEnds ==
    \A r \in Runs \ Poisoned : Exists(r) ~> Terminal(r)

=============================================================================
