# A verification of the QuietOps release steward

QuietOps watches the release of one repository. A GitHub push starts a *release
run*. A worker observes the deployment, waits, observes again; when the normal
budget of observations is spent it asks one person one question; the answer is
one more wait or one GitHub incident. Everything durable is in one SQLite file,
and everything that acts on it may die, be replaced, or run twice at once.

The modules here model that system in TLA+, TLC checks them on small instances,
and TLAPS proves the most important properties for every instance. All paths
below are under `src/packages/`.

## 1. Inventory

| Part | State it keeps | Operations | Correct when |
|---|---|---|---|
| Transition kernel (`contracts/src/release-transition.ts`, `release-run.ts`) | none | `planReleaseRunTransition` | only the listed (state, signal) pairs move a run; a stop has its code |
| Event projection (`storage/src/release-run-event-projection.ts`) | none | `rebuildReleaseRunHead` | the head is a function of the history |
| Release run ledger (`storage/src/sqlite-release-run-ledger.ts`, `sqlite-migrations.ts`) | runs, events, heads with leases, external actions, idempotency records | create, claim, append, record decision, begin and finish action, recover | one transaction each; optimistic version; histories append-only; one prompt, one decision and one action per run; replays answer the original |
| Release run service (`application/src/release-run-service.ts`) | none of its own | the use cases of webhook, operator and worker | what it commits from a claim is still true of the run |
| Release run worker (`application/src/release-run-worker.ts`) | timer, tick in flight, claim in memory, stopping flag | tick, start, stop, readiness | every due run is served; what outlives its lease does no harm |
| Incident runner (`agent/src/release-steward-action.ts`, `adapters/src/github-incident.ts`) | one invocation | one tool call, one POST | at most one POST; the answer is reported as it is |
| Observation agent (`agent/src/release-steward*.ts`) | receipts, call counts | tools in a fixed order, postconditions | the signal follows from the evidence, not from the narration |
| Server (`server/src/server.ts`) | worker, two ledgers | webhook, decision and read routes, readiness, lifecycle | answers tell stale from expired from replayed |
| Webhook intake (`adapters/src/github-webhook.ts`) | none | verify, filter | only a push of the main branch starts a run |
| Evidence collectors (`adapters/src/*.ts`) | none | GitHub, deployment marker, homepage reads | bounded, candidate-bound, read-only |
| Evaluations (`application/src/evaluation-service.ts`, `storage/src/sqlite-evaluation-ledger.ts`, `agent/src/policy.ts` and the agents beside it) | evaluations, their events, idempotency records; in memory the verification in flight of each key | seed, decide with or without a recheck, verify live, list | one decision per evaluation, no orphan of a recheck, every answer agrees with the record, whatever is stored can be read |
| Server process (`server/src/cli.ts`, `runtime-config.ts`, `release-demo-seed.ts`, `storage/src/sqlite-migrations.ts`) | the database file, the environment | refuse or accept the environment, migrate, seed, listen, beat, close | a start depends on no earlier one; ready means complete and alive |
| Browser (`server/public/app.js`) | the selected run, its detail, a busy flag, a timer | load, select, decide, poll | one operation of the owner at a time; the page catches up with the server |
| Other command lines, prompts, model plumbing | none | | |

How they interact. The webhook creates a run through the service. The worker
claims it under a lease, reads its history *after* the claiming transaction,
awaits an observation or the incident runner, and commits with the version of its
claim. The operator's decision is a transaction of the same ledger, from an HTTP
handler. Only the version check orders commits; a lease orders claims and
recovery, and is not compared by commits. `beginExternalAction` commits before
the POST leaves and `finishExternalAction` after the answer, so a crash between
them leaves an action `IN_FLIGHT`, which `recoverAbandonedWork` of any later tick
turns into `UNCERTAIN`.

Inside an observation the worker awaits an agent. The language model calls tools as
it likes; a budget cancels what the phase does not offer and what was called
already; each tool reads a provider and records evidence with its receipt, and the
two GitHub tools share one collection of two requests. After the model has ended,
`validateReleaseStewardPostconditions` derives the signal from the receipts alone.
An error becomes a stop of the run or drops the observation, by its class.

The evaluations are an older flow beside the runs, in the same file. Their service
awaits an agent between its checks and its transaction, so what it checked may be
old when it commits, and the transaction's keys decide. The server's start opens
both ledgers, migrates the file, seeds both flows and only then listens. The page
polls the server while a run is active.

What is hard, then: a worker that outlives its lease; a claim whose parts were
read at different times; a crash on either side of the POST; an answer racing the
recovery that gave it up; a decision racing the expiry of its prompt; commits
dated by a clock read before the transaction; retries; a run that fails for ever
next to runs that do not; a model that does not follow its instructions, and
providers that change between two requests; a check that is old when its
transaction runs; a start over a half migrated or half seeded file, next to another
start; a worker that hangs without failing; a page whose requests overtake each
other. `PROJECT.json` lists these hazards by line.

## 2. The modules

| Module | Models |
|---|---|
| `ReleaseTransitions` | the vocabulary, the kernel, the event table. In the kernel a signal has one target whatever its source, so it is three functions of the signal |
| `ReleaseRunLedger` | the tables as functions of the run; one action per writing method, each one transaction |
| `ReleaseRunService` | what a claim is and what may be committed from it; what a decision submission does and answers |
| `ReleaseSteward` | workers, clock, webhook, operator, provider: the composition and its `Spec` |
| `ReleaseRunLifecycle` | the abstract specification: the life of one run as indivisible steps, with no worker, lease, version or clock |
| `ReleaseStewardProperties` | type invariant, safety, step properties, refinement of `ReleaseRunLifecycle` |
| `ReleaseStewardLiveness` | fairness and the eventual end of every run |
| `ReleaseStewardTyping`, `ReleaseStewardSafety`, `ReleaseStewardHistory`, `ReleaseStewardRefinement` | theorems and proofs, each module resting on the ones before it |
| `StewardPolicy` | pure: tools of a phase, the verdict of a sequence of receipts, what a failed request is to a collector and what the worker makes of an error |
| `StewardAgent` | one invocation of an agent, observation or incident, and the next one after it was dropped: model, budget, tools, requests, SDK |
| `StewardInvocation` | the abstract specification: what `ReleaseSteward` takes an invocation to be, one step of a worker |
| `StewardAgentProperties` | safety, refinement of `StewardInvocation` |
| `EvaluationPolicy` | pure: fixtures, tool budget, receipts, the policy, the check of a result, the rows of an evaluation and their projection |
| `EvaluationLedger` | the tables of the evaluations; `commitBatch` with replay, conflict and rollback |
| `EvaluationService` | processes and calls: start with seeding, decisions, live verifications, crash |
| `EvaluationRegister` | the abstract specification: evaluations that are decided once, and answers, no processes and no awaits |
| `EvaluationProperties` | safety, refinement of `EvaluationRegister` |
| `RuntimeConfig` | pure: which environments are refused, what a process of an accepted one has, what the webhook's inspection says |
| `ServerLifecycle`, `ServerProperties` | the start over the shared file, its end, heartbeat and readiness, deliveries; safety and liveness |
| `Console`, `ConsoleProperties` | the page's event loop; safety and liveness |
| `StewardAgentSafety`, `ConsoleSafety`, `ServerSafety`, `EvaluationSafety` | theorems and proofs |
| `MC...` | instances for TLC |

`StewardAgent` refines the step that `ReleaseSteward` takes as one
(`ImplementsInvocation`), and shares its signals; `ServerLifecycle` uses
`ReleaseTransitions` for the seeded histories. The others stand alone, as their
code does: they share the file with the runs and no table.

### State

`log[r]` is the rows of `release_run_events` of run `r`; an event keeps its type,
signal, time and the `nextWakeAt` of its payload. `head[r]` is the row of
`release_run_heads` without `active_decision_id`, which a run's one prompt
determines. `action[r]` is the status and attempt count of `external_actions`, and
the result its idempotency record answers with. `reserved[r]` is the request
fingerprint: what the plan's hash depends on that could change (authorization
time, observation count of the prompt, measured wait). `decisions[r]` is the
idempotency records of the decision. `pc`, `at`, `claim`, `outcome` and `stopping`
are a worker process's memory. `posts`, `issues` and `refusals` count what was
sent and what the provider did with it, which no table knows.

### Steps

A tick of a worker is the sequence of transactions and awaits of `#executeOne`:

    idle -StartTick-> recover -Recover-> claim

                      claim -ClaimDue-> read -ReadClaim-> wake      -Wake->   idle
                        |                                 expire    -Expire-> idle
                        +-NothingDue-> idle               begin     -Begin-> calling
                                                          observing -Observed-> commit -Commit-> idle
                                                              +-ObservationFailed-> stop -StopRun-> idle
    calling -SendPost-> posted -IncidentReturns-> finish -Finish-> idle

Between any two of them other processes step and the clock moves. `claimTime` is
read in `StartTick` and used, from `Recover` on, until an await returns, where
`#now()` is read again.
Every transaction has a guard `Can...`; when it is false the code throws, the
`...Refused` action ends the tick, writes nothing and leaves the lease.
`Restart` is a crash, or the end of a shutdown (`onClose` waits a bounded time and
closes the ledger under what is still running); a POST already sent goes on.
`Locked` is a statement that throws because another process held the file longer
than the busy timeout: it may end a tick at any step, the recording of an answer
included.

### Abstractions

* A run is its trigger delivery, because its id is a hash of the delivery id.
* Times are small integers. Timestamps are compared, and added to, as the code does.
* A transaction is indivisible (`BEGIN IMMEDIATE`).
* `claimTime` is read in one step and the recovery is another: other processes may
  commit between the two. `Recover` is refused, and ends the tick, when an action it
  would give up has an event later than that reading. This takes a second process
  that claims the run later and begins its action, and a third that clears the
  second's expired lease between the two, which is out of reach of a run (with three
  workers it first occurs after some 800,000 states): that branch is covered by the
  theorems only.
* `submitDecision` is one step: it has no await, and one process serves it.
* In `ReleaseSteward` the evidence of an observation is the signal it yields, any
  signal its phase can derive. Why evidence yields that signal is `StewardAgent`.
* In `StewardAgent` a receipt and its evidence are one record: they are recorded
  together, and their identifiers, links and times say nothing more. A provider's
  state is a world, one record of what main, its CI, the marker and the page are;
  `history` is the worlds of the invocation, which no code keeps. The SDK is
  external: it runs one tool at a time, and a tool's error either goes back to the
  model or ends the invocation, because the code relies on neither.
* In `EvaluationService` the identifier of an evaluation says which call made it,
  as no two are the same. Between the read of a decision and its transaction there
  is an await in the case of a recheck; a plain rejection has none, which is kept
  (`turn`). Node runs one callback at a time: what a process does between two
  awaits of one call is one step unless the other process's transactions can come
  between.
* In `ServerLifecycle` a step is one read or one transaction, since two processes
  may share the file. The demo evaluations are one transaction and counted; the two
  demo runs are two transactions each.
* In `Console` a chain is a call of `loadRuns`, `selectRun` or
  `submitReleaseDecision` with its requests, and an answer is the server's state
  when it was given; between two requests the server may move on, and another client
  may decide. The fingerprint is the detail itself. A list that fails and a
  detail that fails end the chain the same way.
* Definitions introduced by "Variant:" are no part of the model; each is a mistake
  the code could contain, and a property is known to notice it.

## 3. The properties

External action: `AtMostOnePost`, `PostIsAuthorized`, `ReceiptIsTrue` (a confirmed
action has its issue, a rejected one has none and none can appear),
`ActionMatchesHead` (the two tables tell one story), `ReservedPlanIsStable` (the
fingerprint compared at the attempt is still the reserved one).

History: `HeadIsProjection`, `DeadlinesAreKept`, `ObservationBudget`,
`OneHumanCheckpoint`, and for workers `CurrentClaimIsTrue` (a claim the version
check would let through is a true picture) and `LeaseExcludes`.

Operator: `RetryIsReplayed` (an identical retry is answered from its record, after
the wait, the expiry or the end of the run).

Steps: `TerminalIsFinal`, and `LiveLeaseProtects` (recovery never settles an
attempt whose lease is unexpired).

Refinement: `ImplementsLifecycle`. Every behaviour of the system, seen run by run
through `LifeOf`, is a behaviour of `ReleaseRunLifecycle`.

Liveness: `EveryRunEnds`.

Agent: `VerdictIsEarned` (a result says what the providers were, in the order it
needs, in this invocation), `UnhealthyIsSeen` (a request that failed, by a
timeout, a limit or an error status, is never an unhealthy release; whatever is served
with a success status is taken for the release's own, whoever served it), `ViolationVoids`, `AskedOnce`, and the refinement `ImplementsInvocation`.

Evaluations: `EveryEvaluationProjects` (what passes the check before storing passes
the one after reading), `LineageIsExact`, `AnswersAgree`, `RetryIsNotAFailure`,
`OneRunAtATime`, `VerifiedOnce`, and the refinement `ImplementsRegister`.

Server: `SchemaIsWhole`, `ReadyIsComplete`, `DeliveriesBecomeOneRun`, `SeedIsWhole`,
and, as liveness, `StuckIsNotReady` and `EventuallyServes`.

Page: `OneOperation`, `ShownIsSelected`, and, as liveness, `CatchesUp`.

## 4. The runs

| Run | Instance | Shows |
|---|---|---|
| `overlap` | 1 run, 2 workers, lease 1, clock 0..3, no restart | two processes at once: zombies, recovery against a late answer, a decision in between |
| `crash` | 1 run, 1 worker, 2 restarts, lease 2, 3 observations, 2 keys, clock 0..5 | the long life of a run with crashes between any two steps, and retries |
| `fleet` | 2 runs, 1 worker, 1 restart, lease 1, clock 0..2 | one transaction over several runs, claims in due order |
| `ends` | 1 run, 1 worker, 1 restart, lease 2, clock 0..8, free until 3 | every accepted run ends |
| `poison` | 2 runs, one always failing, 1 worker, 1 restart, clock 0..8, free until 2 | the other run still ends |
| `superseded` | 2 runs | a disagreement, see 7 |
| `expiry` | 1 run | a disagreement, see 7 |
| `evaluations` | 2 processes, 3 calls, 2 keys, 1 crash, symmetric | every interleaving of decisions, rechecks, verifications and starts |
| `observation` | 4 phases, 2 commits, 1 change of the world, 2 invocations, 2 ways to fail | every order of tool calls, with a change between any two requests |
| `server` | 2 processes, 19 environments, 2 interruptions, heartbeat fresh for 1 | starts over an empty, half migrated or whole file, ends at any step, redeliveries |
| `console` | 2 runs, 2 chains, 2 failures | every order of clicks, polls and answers |
| `button` | the same | a disagreement, see 7 |

Bounds of the runs of the release steward. `MaxTime` stops the clock, `MaxRestarts` the restarts; a run's life bounds
everything else, since the policy bounds its observations and an action is
attempted once. With lease 1 every interleaving in which a lease expires, is
cleared and is claimed again fits in three clock values; two workers suffice for a
zombie and its successor. Three observations make a normal wait, a second one and a
prompt; two keys, a replay and a competing answer. `ActionWindow` is the lease in
every instance, the tightest legal setting: the attempt must be begun at the
instant of the claim. A lease shorter than the window is a configuration the model
excludes, since the action could then never begin. The instances use two or three
observations as the profiles `demo-v1` and `standard-v1` do. Symmetry is used only
in the runs without liveness. Where the clock has stopped workers still tick, so
nothing deadlocks, and deadlock is checked in every one of these runs.

Bounds of the others. Three calls are two that race and one that comes after, with
the same key or another one, in the same process or the other. The seeded
evaluations and one recheck are all that decisions can be about, so the rows stay
few by themselves. One change of the world in an invocation, at any request, is
enough to come between any two of them; two ways to fail stand for the two that the
worker tells apart, silence and an unusable answer, and the other ways of a
collector differ in the text of a code only. Two invocations show that nothing of a
dropped one is left. Two interruptions end each process once or one process twice,
within one start. One delivery, one candidate and two profiles make a new run, a
replay and a conflict. Two chains are a poll and an operation of the owner; with two
failures each of them may fail. Symmetry is used in `evaluations` only, whose
processes, calls and keys are interchangeable. An invocation ends, a server may be
told to close with no interruption left, and a page may show runs that are over, so
these runs do not check deadlock; `evaluations` does.

## 5. Fairness

`ReleaseStewardLiveness` assumes, for each worker, weak fairness of its steps:
`#schedule` re-arms the timer in a `finally`, so a tick that threw is followed by
another one. That an observation and the provider call end is an assumption on their
requests: each has a timeout until its headers arrive, and `executeGitHubIncident`
clears its own before it reads the body (151-169), which only the HTTP client's idle
limit then bounds. The provider's answer is not assumed to come: a timeout is
always possible. Of a stopping process it assumes that a supervisor replaces it. Of
the clock it assumes that it advances; up to `EarlyTicks` between any two steps,
and after that when no worker has anything to do, so that a finite horizon holds a
whole run: a clock that ran to the horizon first would end the behaviour before the
run's waits are due, which says nothing of the code. Locked statements occur up to
`EarlyTicks`: while a file stays locked nothing can end.

One assumption is the code's own limit. `classifyObservationFailure` returns null
for an error it does not know, and the worker then retries the run for ever
(`release-run-worker.ts` 322-323): nothing ends it. Runs that fail so are
`Poisoned`; `EveryRunEnds` promises nothing of them, and `poison` shows that
they do not hold up the others, although they are due first. It shows it for
failures that come within the lease. The lease left behind is what lets the others
through: with a lease returned on failure the property fails.

`ServerLifecycle` assumes weak fairness of a process's start, of its exit and of the
clock: the platform it is deployed on starts what is down, and a start has no wait
of its own. It assumes nothing of ticks and providers, which
is the point of `StuckIsNotReady`. `Console` assumes that a request is answered or
fails, that the answer is handled and that a timer fires; nothing of clicks. Its
`CatchesUp` has the premise that the page is quiet again and again, and needs it:
with answers slower than the polling interval two polls that prefer different runs
can drop each other's detail for ever. The other specifications state no fairness,
and have no liveness property.

## 6. The proofs

The assumptions are about constants only. No bound is used: the theorems about the
runs hold for every clock horizon, number of runs, workers, keys and restarts, every
policy with at least two observations, and every lease (`LedgerAssumption`,
`ServiceAssumption`, `StewardAssumption`); those about an invocation for every set of
commits, every way the providers may change between two requests, every set of
failures (`CommitAssumption`, `AgentAssumption`); those about the page for any number
of calls in flight (`ConsoleAssumption`); those about the server for any number of
processes over one file, any environments, any number of interruptions, and sets of
defects the intake looks for (`ServerAssumption`); those about the evaluations for any
processes, calls and keys, any calls a model may attempt and any worlds
(`EvaluationAssumption`, which says no more of them than that a process and a call are
told apart: they name the evaluations they build, as fresh identifiers do).

* `TypeCorrect`: `Spec => []TypeOK` (`ReleaseStewardTyping`). One lemma per
  transaction of the ledger gives the types of what it writes; one step per action
  of the composition uses them. What a tick carries must be strengthened: a signal
  about to be committed is one of `Signals`, a result about to be finished one of
  `ActionResults`, and no `claimTime` is later than the clock.
* `OnePost`, `TrueReceipt`, `OneStory` (`ReleaseStewardSafety`). None of the three
  is inductive. No second POST is sent because a worker at `calling` is the only one
  there for its run and nothing has been sent yet, and that holds because an attempt
  is taken only from `RESERVED`, a status no step goes back to. The inductive
  invariant `SafetyInv` has two layers over the types. `RunInv` speaks of one run's
  tables: its state against its action's status and the signal of its last event,
  the attempt count against the status, no lease after the end. `EffectInv` ties
  the tables to what left the processes: the POSTs of a run are at most the attempts
  its table counts and the provider's answers at most the POSTs; a worker at
  `calling` has the one attempt counted and no POST made, and is the only one there; a
  confirmation or a rejection, in a worker's memory or in the table, is one the
  provider gave. Nothing is said of a worker's claim still being true: recovery may
  settle the action under a worker that waits for the answer, and the answer is
  then refused because the action is no longer in flight. The two layers are
  preserved for different reasons, and are proved apart: one lemma per transaction
  for `RunInv`, one per step of a worker or of the provider for `EffectInv`.
* `RecoveryNeverSticks` (`ReleaseStewardHistory`). A recovery is refused when an action
  that it gives up has an event later than its clock. No event is later than the clock
  of the processes (`FreshInv`), so a tick that reads its clock after such an event is
  not refused for it: a refusal cannot repeat itself for ever.
* `TerminalForEver` and `LiveLeaseRespected` are step properties from the same
  invariant: a commit needs a state that a signal can leave, a claim an active
  state, a recovery an expired lease.
* `LeasesExclude`, `TrueClaim` (`ReleaseStewardHistory`). Nothing in a head but its
  version tells a new state from an old one, so the first lemma is that a version
  rises with every change of a run and never comes back (`VersionRises`). `ClaimInv`
  then says of each worker: its claim's version is at most the head's; at the same
  version, what it read is still so; and at the same version under an unexpired
  lease, it is the only one. The counts are read after the claiming transaction, so a
  claim that has not been read yet (`HeadClaim`) promises less than one that has.
* The history (`ReleaseStewardHistory`). `DeadlinesHold`, `OneCheckpoint`,
  `BudgetIsKept`, `PostsAreAuthorized`, `PlanIsStable` and `RetriesAreReplayed` are
  about the whole of a history, and none is inductive: nothing in "at most one prompt"
  says that a second one is not about to be appended. `RunGrowth` says that a step leaves
  a run as it is or appends to its history in one of ten ways, one per kind of
  transaction; the events are ones the kernel permits (`PermittedRow`: from which state,
  to which). The invariant then says what a history is. `Story` has four parts for
  each run: `History` (the version counts the events and none is later than the head;
  what a waiting run waits for is its last event's; every deadline was kept; there is
  one checkpoint, and the state says how far it got), `Budgeted` (a run that can still
  observe has one observation left, and a prompt comes with the last normal one),
  `Apart` (two observations are a wait apart) and `Rested` (a run that observes, or
  will, does so a wait after each of its observations, which makes `Apart` inductive).
  `Planned` says of the reserved fingerprint,
  the action and the decision's record what rows they come from. A plan is stable
  because an authorized run appends nothing that a fingerprint counts until its attempt
  (`FingerprintAppend`, `WaitsAppend`). `HistoryCorrect` is the invariant itself; the
  six theorems are read off it.
* `HeadsAreProjections`. The head is what the recursive `Rebuild` computes from the
  history, of whatever length. No induction theorem is needed: two functions that carry
  the heads along one history are equal, since at the least index where they differ
  they do not (`CarriedOnce`, over the well-founded order of the naturals); a history
  with one more event has the function with one more head (`ProjectedAppend`); so that
  there is such a function which ends in the head is an invariant like another.
* `LifeIsImplemented` (`ReleaseStewardRefinement`): every step of workers, ledger,
  operator, provider and clock is, run by run, a step of `ReleaseRunLifecycle` or a
  stutter. One lemma per abstract step says what `LifeOf` of an appended history is;
  one per way a history grows says which abstract step that is; `GrowthLives` joins
  them and `LifeNext` adds the POST, which changes no table. Three facts are not of the
  step itself: that a POST precedes any known outcome comes from `SafetyInv`, that the
  observation after the last normal one is the prompt's from `Budgeted`, and that
  nothing is sent twice from `EffectInv`.
* `VerdictsAreEarned`, `UnhealthyWasSeen`, `ViolationsVoid`, `ProvidersAreAskedOnce`
  (`StewardAgentSafety`). A verdict is a function of the receipts and the property is
  about the past, so `AgentInv` says of every piece of memory what it proves of the
  history: the shared collection holds a commit that was on main and, once resolved,
  the conclusion its CI had from then on (`SharedInv`); a receipt of a tool is what
  that tool read (`ReceiptInv`); and for every two receipts, the healthy page after a
  source or a deployment was healthy after it (`ReceiptsInv`). The last is what makes
  the order of the receipts evidence of an order of the world. `ControlInv` keeps a
  tool among those the budget let through, and with it `AskedInv` and `IncidentInv`
  count requests: a provider that was asked belongs to a tool that is spent. What was
  so at a moment of the history stays so when the world moves (`HistoryGrows`).
  `VerdictHolds` is the pure half: an accepted sequence has each receipt in the place
  the verdict reads it from.
* `AgentImplementsInvocation`: from the same invariant, every step of an invocation is
  a step of `StewardInvocation` or a stutter; the end of one is the only step that is
  neither the provider's nor the POST.
* `OwnerActsAlone`, `PageShowsSelection` (`ConsoleSafety`). The invariant is that
  one call of the owner holds `busy`, and that a panel which does not show the
  selected run has a call pending that will: a list or a decision, which ask for the
  detail of what is selected when they return, or that detail itself. An answer that
  comes late is dropped because it is compared with the selection at its return.

* `SchemaAlwaysWhole`, `ReadyAlwaysComplete`, `DeliveriesAlwaysOneRun`,
  `SeedAlwaysWhole` (`ServerSafety`). `ServerInv` keeps what a process read before it
  acts on it: a process that migrates to a version was told the version before it,
  and rows are only added, so what it was told is still so (`SchemaInv`); one past its
  opening saw the whole schema. Its environment is one that was accepted (`EnvInv`):
  the refusals are then what makes `/ready` mean the public runtime. A demo run is at
  nothing, at its trigger or whole, and at its trigger only with a process that is
  completing it or after an interruption (`SeedInv`), which needs that the kernel
  accepts both stories as a whole (`Stories`).

* The evaluations (`EvaluationSafety`). The pure half is `EveryEvaluationProjects`: what
  `requireResultMatchesScenario` accepts, `projectEvaluation` reads back. The rows of
  one type are what `Picked` computes along a sequence, of any length; that it is
  determined, and what it is of a concatenation and of one more row, is shown at the
  least index where two such computations differ, as for the heads (`PickedOnce`).
  The rest is one invariant in five layers, each a conjunct of the next. `Control` says
  where a call may be, that a call between two statements has the turn of its process,
  and that the map of runs holds exactly the calls which run the agent:
  `OneRunAtATimeHolds`. `Answers` adds that behind every record there is the call it was
  recorded for and that a success says what its record says. With `Origins` (every
  evaluation was seeded, or has the recorded call which made it) that gives
  `AnswersAgreeHolds` and `VerifiedOnceHolds`, since two recorded calls of one key would
  have one record and one response. `Tables` says what timelines hold, and of
  a decision that waits for its commit: its evaluation allows it, and the sequence number
  it carries is the next one, or somebody has decided meanwhile (`AwaitInv`). That makes
  the appended row the next of its timeline, hence
  `LineageIsExactHolds` and `EveryEvaluationProjectsHolds`. `Retries` says of a decision
  that was refused that its evaluation is decided, and of it and of one being checked
  that no recorded decision of their process has their key and request: an identical one was found
  before the check, and no other is committed in that process during it, which has the turn
  (`DecidesInTurn`). Hence `RetryIsNotAFailureHolds`. It is not so between processes, and
  neither the property nor the invariant says so.
  Most steps never reach the tables. `Steps` sorts all of them once into quiet ones,
  seeds, decisions and verifications; the invariants above `Control` are shown to be
  kept by each sort, and `RegisterIsImplemented` takes one step of `EvaluationRegister`
  for each.

Only model-checked: liveness under fairness (`EveryRunEnds`, `StuckIsNotReady`,
`EventuallyServes`, `CatchesUp`), which is out of the prover's reach as ENABLED is.
Every invariant and step property of the passing runs, and each of the three
refinements, is a theorem.

## 7. Disagreements with the documentation

* `docs/AUTONOMOUS_RELEASE_STEWARD_TECHNICAL_SPEC_2026-08-23.md:135` says that a
  newer candidate stops the older non-terminal run as `SUPERSEDED`. The kernel has the
  signal and the projection the event, but nothing emits it: `createRunFromWebhook`
  creates its run and touches no other. Run `superseded` ends in two live runs.
* The same document, line 356, says "`410` for expiry". `submitDecision` answers so
  until a worker has recorded the expiry; afterwards the version has moved,
  `recordDecision` compares it first, and the late answer gets `409`. Run `expiry`.

* `docs/RUNTIME_READINESS_GATE_2026-08-26.md:35` says that while the incident action
  is not enabled "the escalation choice is disabled in the browser". `renderDecision`
  disables its button once, and `setBusy(false)`, at the end of any later operation,
  enables every `.action-button` (`server/public/app.js` 528-534). Run `button`. The
  server still refuses the choice with 409.

Two more places that a reader of the code may find worth a thought, which no
document contradicts: a demo run whose start died between its two transactions is
left as it was created by every later start (`SeedIsWhole` excepts it), and an error
panel stays when the next detail is the same as the one before the error, because
the fingerprint is kept.

## 8. Not modelled, and the plan

Not modelled: the parsers of single values (`contracts/`), which keep no state and
throw or return; the text, links and redaction of the public projections; the
markup of the page and its release marker; allowlists, bounded reading and schemas
of the collectors, which are the ways a request may fail; headers, static files and
authentication; the prompts, the judge, the scripted model and Bedrock beyond the
settings it needs; the integrity check of `/ready`, since a corrupted file is no
state of these modules: a process is ready here at least whenever it is in the code,
and what a ready process promises is promised of more states; the command
lines other than the server's, which print one result and end; the preserved demo
rows in the claim query, which excludes them.

Left for later, in order:

1. The decision submission as two steps, for two server processes
   (`release-run-service.ts` 333): an identical retry in another process may be
   refused as a conflict.
2. A configuration whose lease is shorter than the action's window
   (`release-run-service.ts` 430), which leaves an authorized run in `RESUMING`.
