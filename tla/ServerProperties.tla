--------------------------- MODULE ServerProperties ---------------------------
(***************************************************************************)
(* What a server process promises from its first step on, however starts,  *)
(* ends and another process over the file come in between.                 *)
(***************************************************************************)
EXTENDS ServerLifecycle

Serves(p) == proc[p].stage \in {"listening", "closing"}

\* Every version of the schema is applied once and in its order, whoever applies
\* which, and nobody reads or writes a table before all are there.
SchemaIsWhole ==
    /\ IsPrefix(schema, Whole)
    /\ \A p \in Processes :
         proc[p].stage \notin {"down", "opening", "migrating"} => schema = Whole

\* A process that says it is ready is the fixed public runtime, with a worker
\* that is alive and has its model, a signed intake that feeds it and an operator who
\* can answer what it asks: no environment and no order of starts makes another one ready.
ReadyIsComplete ==
    \A p \in Processes : Ready(p) =>
      /\ schema = Whole
      /\ batches > 0
      /\ FixedPublicRuntime(Env(p)) /\ HasMarker(Env(p))
      /\ HasIntake(Env(p)) /\ HasDecision(Env(p))
      /\ Given(Env(p), "issueToken") /\ Given(Env(p), "model") /\ On(Env(p), "single")

\* A delivery makes one run whatever happens to its answer, to the process and
\* to the profile it is redelivered under: an answer that accepts it is true of
\* the row, and it is refused as a conflict only if the row says something else.
DeliveriesBecomeOneRun ==
    /\ \A a, b \in runs : a.delivery = b.delivery => a = b
    /\ LET request == [delivery |-> answer.delivery, commit |-> answer.commit,
                       profile |-> answer.profile]
       IN /\ answer.status \in {"created", "replayed"} => answer.flawless /\ request \in runs
          /\ answer.status = "409" => /\ request \notin runs
                                      /\ \E row \in runs : row.delivery = answer.delivery

\* README.md, line 111: an empty ledger is seeded with "one quiet completion and one
\* healthy delayed decision boundary".  A server that listens shows both, and one
\* that another server is about to complete; a run is left at its trigger, which
\* no start repairs, only if a process ended between its two transactions.
SeedIsWhole ==
    \A i \in DOMAIN DemoRuns :
      /\ (\E p \in Processes : Serves(p)) => preserved[DemoRuns[i]] # <<>>
      /\ preserved[DemoRuns[i]] = Created =>
           \/ interruptions > 0
           \/ \E p \in Processes : At(p, "appending") /\ proc[p].next = i

\* A worker that hangs in a tick is found out: in the end the process is not
\* ready for as long as it hangs.
StuckIsNotReady ==
    \A p \in Processes : <>[](proc[p].tick = "hung" => ~ Ready(p))

\* A start never depends on how the last one ended or on how far another one is:
\* once processes are left alone, all of them serve.
EventuallyServes ==
    \A p \in Processes : <>[](proc[p].stage = "listening")

=============================================================================
