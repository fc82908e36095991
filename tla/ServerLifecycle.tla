--------------------------- MODULE ServerLifecycle ---------------------------
(***************************************************************************)
(* A server process from its start to its end, over the database file it   *)
(* may share with another one: cli.ts, createQuietOpsServer of             *)
(* server/src/server.ts, storage/src/sqlite-migrations.ts, the demo seed   *)
(* of server/src/release-demo-seed.ts, the webhook intake and the          *)
(* heartbeat of application/src/release-run-worker.ts.                     *)
(*                                                                         *)
(* Every step is one transaction or one read; a process may end between    *)
(* any two: killed, out of a file that stays locked, or on an error, which *)
(* ends the process too.  A preserved run is its signals, a run of a       *)
(* delivery what its row says.  What the worker does in a tick, and the    *)
(* evaluations, have modules of their own.                                 *)
(***************************************************************************)
EXTENDS RuntimeConfig, ReleaseTransitions, SequencesExt

CONSTANTS
    Processes,
    Environments,       \* environments processes are started with
    Deliveries,         \* delivery identifiers of GitHub
    Candidates,         \* commits a delivery may carry
    Flaws,              \* sets of defects a delivery may have
    FreshFor,           \* for how many units of time a heartbeat is fresh
    MaxInterruptions    \* bound: processes that are killed, fail or are told to stop

ASSUME ServerAssumption ==
    /\ FreshFor \in Nat
    /\ MaxInterruptions \in Nat
    /\ \A flaws \in Flaws : flaws \subseteq Defects

VARIABLES
    schema,        \* schema_migrations: the versions, in the order of their rows
    batches,       \* how many times the demo evaluations were committed
    preserved,     \* demo run -> the signals of its events
    runs,          \* release_runs of deliveries, with their idempotency records
    proc,          \* of a process: where it is and what it read
    answer,        \* the last answer to a delivery that passes the inspection
    interruptions

tables == <<schema, batches, preserved, runs>>
vars == <<schema, batches, preserved, runs, proc, answer, interruptions>>

SchemaVersion == 2                    \* SQLITE_SCHEMA_VERSION
Whole         == <<1, 2>>

\* The demo runs in the order they are seeded, and what is appended to them.
DemoRuns == <<"quiet", "delayed">>

\* Variant: the delayed run asks for its decision without having woken.
DemoTailUnwoken == [quiet   |-> <<"CANDIDATE_READY">>,
                    delayed |-> <<"NORMAL_WAIT_REQUIRED", "OBSERVATION_BUDGET_EXHAUSTED">>]

DemoTail == [quiet   |-> <<"CANDIDATE_READY">>,
             delayed |-> <<"NORMAL_WAIT_REQUIRED", "WAIT_DUE",
                           "OBSERVATION_BUDGET_EXHAUSTED">>]
Created  == <<"TRIGGER_ACCEPTED">>

\* What rebuildReleaseRunHead accepts: each signal is sent from where the last led.
Legal(history) ==
    \A i \in DOMAIN history :
      (IF i = 1 THEN NoState ELSE Target(history[i - 1])) \in SourceStates(history[i])

NoAnswer == [delivery |-> "none", commit |-> "none", profile |-> "none",
             flawless |-> TRUE, status |-> "none"]

\* `at` is the ledger that is opened, `next` the version or the demo run.
Down == [stage |-> "down", env |-> "none", at |-> 0, next |-> 0, age |-> 0, tick |-> "none"]

Init ==
    /\ schema \in {<<>>, <<1>>, Whole}
    /\ batches = 0
    /\ preserved = [run \in ToSet(DemoRuns) |-> <<>>]
    /\ runs = {}
    /\ proc = [p \in Processes |-> Down]
    /\ answer = NoAnswer
    /\ interruptions = 0

At(p, stage) == proc[p].stage = stage
Env(p)       == proc[p].env
Ends(p)      == proc' = [proc EXCEPT ![p] = Down]

\* The fields a step names, and the others as they were.
Override(record, fields) ==
    [name \in DOMAIN record |-> IF name \in DOMAIN fields THEN fields[name] ELSE record[name]]
Moves(p, to) == proc' = [proc EXCEPT ![p] = Override(@, to)]

-----------------------------------------------------------------------------
(* The start.                                                              *)

Start(p) ==
    /\ At(p, "down")
    /\ \E env \in {e \in Environments : ~ Refused(e)} :
         Moves(p, [stage |-> "opening", env |-> env, at |-> 1])
    /\ UNCHANGED <<tables, answer, interruptions>>

\* The evaluation ledger is opened, then the run ledger.
Opened(p) == IF proc[p].at = 1 THEN [stage |-> "opening", at |-> 2, next |-> 0]
                               ELSE [stage |-> "checking", at |-> 0, next |-> 0]

\* Variant: the versions that were recorded are not looked at.
ReadVersionsOfNew(p) ==
    /\ At(p, "opening")
    /\ Moves(p, [stage |-> "migrating", next |-> 1])
    /\ UNCHANGED <<tables, answer, interruptions>>

\* applySQLiteMigrations reads the versions outside of any transaction.
ReadVersions(p) ==
    /\ At(p, "opening")
    /\ IF \E i \in DOMAIN schema : schema[i] # i
         THEN Ends(p)
         ELSE IF Len(schema) = SchemaVersion
                THEN Moves(p, Opened(p))
                ELSE Moves(p, [stage |-> "migrating", next |-> Len(schema) + 1])
    /\ UNCHANGED <<tables, answer, interruptions>>

Migrated(p) == IF proc[p].next = SchemaVersion THEN Opened(p)
                                               ELSE [next |-> proc[p].next + 1]

\* Variant: a version that is there already is recorded once more.
MigrateAgain(p) ==
    /\ At(p, "migrating")
    /\ schema' = Append(schema, proc[p].next)
    /\ Moves(p, Migrated(p))
    /\ UNCHANGED <<batches, preserved, runs, answer, interruptions>>

\* One version, one transaction: the tables are created if they do not exist,
\* the record of the version is not, and its failure ends the process.
Migrate(p) ==
    /\ At(p, "migrating")
    /\ IF proc[p].next \in ToSet(schema)
         THEN Ends(p) /\ UNCHANGED schema
         ELSE schema' = Append(schema, proc[p].next) /\ Moves(p, Migrated(p))
    /\ UNCHANGED <<batches, preserved, runs, answer, interruptions>>

CheckInbox(p) ==
    /\ At(p, "checking")
    /\ Moves(p, IF batches = 0 THEN [stage |-> "evaluating"]
                               ELSE [stage |-> "creating", next |-> 1])
    /\ UNCHANGED <<tables, answer, interruptions>>

SeedEvaluations(p) ==
    /\ At(p, "evaluating")
    /\ batches' = batches + 1
    /\ Moves(p, [stage |-> "creating", next |-> 1])
    /\ UNCHANGED <<schema, preserved, runs, answer, interruptions>>

\* After the last demo run the process listens and its worker is started, with
\* no heartbeat yet.
Seeded(p) == IF proc[p].next < Len(DemoRuns)
             THEN [stage |-> "creating", next |-> proc[p].next + 1]
             ELSE [stage |-> "listening", next |-> 0, age |-> FreshFor + 1,
                   tick |-> IF HasWorker(Env(p)) THEN "idle" ELSE "none"]

\* A demo run that is there already is left as it is.
CreateDemo(p) ==
    /\ At(p, "creating")
    /\ LET run == DemoRuns[proc[p].next]
       IN IF preserved[run] = <<>>
            THEN /\ preserved' = [preserved EXCEPT ![run] = Created]
                 /\ Moves(p, [stage |-> "appending"])
            ELSE UNCHANGED preserved /\ Moves(p, Seeded(p))
    /\ UNCHANGED <<schema, batches, runs, answer, interruptions>>

\* The rest of it, in a transaction of its own, at version 1.
AppendDemo(p) ==
    /\ At(p, "appending")
    /\ LET run  == DemoRuns[proc[p].next]
           rest == preserved[run] \o DemoTail[run]
       IN IF Len(preserved[run]) = 1 /\ Legal(rest)
            THEN preserved' = [preserved EXCEPT ![run] = rest] /\ Moves(p, Seeded(p))
            ELSE UNCHANGED preserved /\ Ends(p)
    /\ UNCHANGED <<schema, batches, runs, answer, interruptions>>

-----------------------------------------------------------------------------
(* The end.                                                                *)

Interrupts == /\ interruptions < MaxInterruptions
              /\ interruptions' = interruptions + 1

Die(p) ==
    /\ ~ At(p, "down")
    /\ Interrupts
    /\ Ends(p)
    /\ UNCHANGED <<tables, answer>>

\* A signal: the worker stops first, and gives the tick in flight some time.
Close(p) ==
    /\ At(p, "listening")
    /\ Interrupts
    /\ Moves(p, [stage |-> "closing"])
    /\ UNCHANGED <<tables, answer>>

Exit(p) ==
    /\ At(p, "closing")
    /\ Ends(p)
    /\ UNCHANGED <<tables, answer, interruptions>>

-----------------------------------------------------------------------------
(* The worker's heartbeat and readiness.                                   *)

Stale == FreshFor + 1

\* Variant: the timer does not wait for the tick, and a busy tick is a heartbeat.
TickAnyway(p) ==
    /\ At(p, "listening")
    /\ proc[p].tick # "none"
    /\ \/ proc[p].tick = "idle" /\ \E tick \in {"idle", "busy"} : Moves(p, [age |-> 0, tick |-> tick])
       \/ proc[p].tick # "idle" /\ Moves(p, [age |-> 0])
    /\ UNCHANGED <<tables, answer, interruptions>>

\* A tick takes no time or waits for a provider.
Tick(p) ==
    /\ At(p, "listening")
    /\ proc[p].tick = "idle"
    /\ \E tick \in {"idle", "busy"} : Moves(p, [age |-> 0, tick |-> tick])
    /\ UNCHANGED <<tables, answer, interruptions>>

\* A provider answers or times out, or its answer never ends.
TickWaits(p) ==
    /\ At(p, "listening")
    /\ proc[p].tick = "busy"
    /\ \E tick \in {"idle", "hung"} : Moves(p, [tick |-> tick])
    /\ UNCHANGED <<tables, answer, interruptions>>

Beating(p) == At(p, "listening") /\ HasWorker(Env(p)) /\ proc[p].age < Stale

Pass ==
    /\ \E p \in Processes : Beating(p)
    /\ proc' = [p \in Processes |->
                  IF Beating(p) THEN [proc[p] EXCEPT !.age = @ + 1] ELSE proc[p]]
    /\ UNCHANGED <<tables, answer, interruptions>>

\* GET /ready.
Ready(p) == /\ At(p, "listening")
            /\ Len(schema) = SchemaVersion
            /\ HasWorker(Env(p))
            /\ proc[p].age <= FreshFor

-----------------------------------------------------------------------------
(* The webhook route.                                                      *)

\* Variant: what is compared of a repeated delivery leaves its profile out.
SameTriggerButProfile(row, request) == row.commit = request.commit

\* The request that is stored with a delivery's idempotency record.
SameTrigger(row, request) == row = request

Deliver(p) ==
    \E id \in Deliveries, commit \in Candidates, flaws \in Flaws :
      LET request   == [delivery |-> id, commit |-> commit, profile |-> Profile(Env(p))]
          inspected == Inspect(flaws)
          known     == {row \in runs : row.delivery = id}
          status    == IF inspected # "accepted" THEN inspected
                       ELSE IF known = {} THEN "created"
                       ELSE IF \A row \in known : SameTrigger(row, request) THEN "replayed"
                       ELSE "409"
      IN /\ At(p, "listening")
         /\ HasIntake(Env(p))
         /\ runs' = IF status = "created" THEN runs \cup {request} ELSE runs
         /\ answer' = IF inspected = "accepted"
                      THEN [delivery |-> id, commit |-> commit, profile |-> Profile(Env(p)),
                            flawless |-> flaws = {}, status |-> status]
                      ELSE answer
         /\ UNCHANGED <<schema, batches, preserved, proc, interruptions>>

-----------------------------------------------------------------------------

StartStep(p) ==
    \/ Start(p)
    \/ ReadVersions(p)
    \/ Migrate(p)
    \/ CheckInbox(p)
    \/ SeedEvaluations(p)
    \/ CreateDemo(p)
    \/ AppendDemo(p)

Next ==
    \/ \E p \in Processes :
         \/ StartStep(p)
         \/ Die(p)
         \/ Close(p)
         \/ Exit(p)
         \/ Tick(p)
         \/ TickWaits(p)
         \/ Deliver(p)
    \/ Pass

\* A process that is down is started again, a start goes on, an exit is made, and
\* time passes.  Nothing is assumed of ticks and of providers.
Fairness ==
    /\ \A p \in Processes : WF_vars(StartStep(p)) /\ WF_vars(Exit(p))
    /\ WF_vars(Pass)

Spec == Init /\ [][Next]_vars /\ Fairness

=============================================================================
