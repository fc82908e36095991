--------------------------- MODULE EvaluationLedger ---------------------------
(***************************************************************************)
(* The evaluation tables of storage/src/sqlite-evaluation-ledger.ts, with  *)
(* the constraints storage/src/sqlite-migrations.ts declares on them.      *)
(*                                                                         *)
(* Each table is a function of its key: the evaluations of their id, the   *)
(* events of an evaluation of their sequence number, the idempotency       *)
(* records of scope and key.  Rows are only ever added (the triggers abort *)
(* an update or a delete), and one batch is one transaction.               *)
(***************************************************************************)
EXTENDS EvaluationPolicy

VARIABLES
    evaluations,   \* evaluation id -> record
    timeline,      \* evaluation id -> its events, by sequence number
    idempotency    \* <<scope, key>> -> [request, response]

ledgerVars == <<evaluations, timeline, idempotency>>

LedgerInit == evaluations = <<>> /\ timeline = <<>> /\ idempotency = <<>>

\* A batch without an idempotency record.
NoRecord == [at |-> "NONE"]

\* Rows added to a table, and a table of one row.
Added(table, rows) ==
    [key \in DOMAIN table \cup DOMAIN rows |->
       IF key \in DOMAIN table THEN table[key] ELSE rows[key]]
Row(key, value) == [k \in {key} |-> value]

\* The events one evaluation receives in a batch, from a sequence number on.
From(first, events) == [n \in first..(first + Len(events) - 1) |-> events[n - first + 1]]

-----------------------------------------------------------------------------

\* findIdempotency: "found" and "conflict" by the stored request.
Lookup(at, request) ==
    IF at \notin DOMAIN idempotency           THEN "absent"
    ELSE IF idempotency[at].request = request THEN "found"
    ELSE "conflict"

\* Variant: the tables have their primary keys and nothing else.
InsertableByKeys(new, events) == DOMAIN new \cap DOMAIN evaluations = {}

\* The primary and foreign keys, UNIQUE (evaluation_id, sequence) and the index
\* one_human_decision_per_evaluation.
Insertable(new, events) ==
    LET known == DOMAIN evaluations \cup DOMAIN new
    IN /\ DOMAIN new \cap DOMAIN evaluations = {}
       /\ \A id \in DOMAIN new : new[id].parent \in known \cup {NoParent}
       /\ DOMAIN events \subseteq known
       /\ \A id \in DOMAIN events \cap DOMAIN timeline :
            /\ DOMAIN events[id] \cap DOMAIN timeline[id] = {}
            /\ ~ /\ \E n \in DOMAIN events[id]   : events[id][n].type = "decision"
                 /\ \E n \in DOMAIN timeline[id] : timeline[id][n].type = "decision"

\* Variant: an existing record is not looked for in the transaction.
CommitResultUnlooked(new, events, record) ==
    IF /\ Insertable(new, events)
       /\ record # NoRecord => record.at \notin DOMAIN idempotency
      THEN "committed" ELSE "failed"

\* What commit answers: an existing idempotency record comes before the rows,
\* and a constraint that fails is an error nobody translates.
CommitResult(new, events, record) ==
    LET found == IF record = NoRecord THEN "absent" ELSE Lookup(record.at, record.request)
    IN IF found = "found" THEN "replayed"
       ELSE IF found = "conflict" THEN "conflict"
       ELSE IF Insertable(new, events) THEN "committed"
       ELSE "failed"

\* Variant: what was inserted before the statement that failed stays.
CommitWithoutRollback(new, events, record) ==
    IF CommitResult(new, events, record) = "replayed" THEN UNCHANGED ledgerVars
    ELSE /\ evaluations' = Added(evaluations, new)
         /\ timeline' = [id \in DOMAIN timeline \cup DOMAIN events |->
                           IF id \in DOMAIN events /\ id \in DOMAIN timeline
                             THEN Added(timeline[id], events[id])
                           ELSE IF id \in DOMAIN events THEN events[id] ELSE timeline[id]]
         /\ idempotency' = IF CommitResult(new, events, record) = "failed" \/ record = NoRecord
                             THEN idempotency
                           ELSE Added(idempotency, Row(record.at,
                                  [request |-> record.request, response |-> record.response]))

\* The rows of a batch, all of them or none.
Commit(new, events, record) ==
    IF CommitResult(new, events, record) = "committed"
      THEN /\ evaluations' = Added(evaluations, new)
           /\ timeline' = [id \in DOMAIN timeline \cup DOMAIN events |->
                             IF id \notin DOMAIN events   THEN timeline[id]
                             ELSE IF id \in DOMAIN timeline THEN Added(timeline[id], events[id])
                             ELSE events[id]]
           /\ idempotency' = IF record = NoRecord THEN idempotency
                             ELSE Added(idempotency, Row(record.at,
                                    [request |-> record.request, response |-> record.response]))
      ELSE UNCHANGED ledgerVars

=============================================================================
