----------------------------- MODULE ServerSafety -----------------------------
(***************************************************************************)
(* Theorems about the server processes over one file, for any number of    *)
(* them, any environments, deliveries and defects, any freshness and any   *)
(* number of interruptions.                                                *)
(***************************************************************************)
EXTENDS ServerProperties, SequenceTheorems, WellFoundedInduction, TLAPS

-----------------------------------------------------------------------------
(* The invariant.                                                          *)

Stages == {"down", "opening", "migrating", "checking", "evaluating", "creating", "appending",
           "listening", "closing"}
ProcessStates == [stage : Stages, env : Environments \cup {"none"}, at : 0..2, next : 0..2,
                  age : Nat, tick : {"none", "idle", "busy", "hung"}]

\* Where a process stands in its start.
Opens(q)     == q.stage \in {"opening", "migrating"}
PastOpen(q)  == q.stage \notin {"down", "opening", "migrating"}
PastSeed(q)  == q.stage \in {"creating", "appending", "listening", "closing"}
Seeds(q)     == q.stage \in {"creating", "appending"}
ServesRuns(q) == q.stage \in {"listening", "closing"}

\* What was so when a process took a step is so for ever: versions and rows are
\* only added.
SchemaFor(q) ==
    /\ Opens(q) => q.at \in {1, 2}
    /\ q.stage = "migrating" => q.next \in {1, 2} /\ Len(schema) >= q.next - 1
    /\ Opens(q) /\ q.at = 2 => schema = Whole
    /\ PastOpen(q) => schema = Whole

SchemaInv ==
    /\ schema \in {<<>>, <<1>>, Whole}
    /\ \A p \in Processes : SchemaFor(proc[p])

\* A process that runs was started with an environment that is accepted.
EnvInv ==
    /\ batches \in Nat
    /\ \A p \in Processes :
         /\ proc[p].stage # "down" => proc[p].env \in Environments /\ ~ Refused(proc[p].env)
         /\ PastSeed(proc[p]) => batches > 0

\* A demo run is at nothing, at its trigger or whole; those before the one a
\* process seeds are there.
Story(run) == Created \o DemoTail[run]

SeedFor(q) ==
    /\ Seeds(q) => q.next \in {1, 2}
    /\ Seeds(q) /\ q.next = 2 => preserved["quiet"] # <<>>
    /\ q.stage = "appending" => preserved[DemoRuns[q.next]] # <<>>
    /\ ServesRuns(q) => preserved["quiet"] # <<>> /\ preserved["delayed"] # <<>>

Completes(q, i) == q.stage = "appending" /\ q.next = i

SeedInv ==
    /\ interruptions \in Nat
    /\ DOMAIN preserved = {"quiet", "delayed"}
    /\ \A run \in {"quiet", "delayed"} : preserved[run] \in {<<>>, Created, Story(run)}
    /\ \A p \in Processes : SeedFor(proc[p])
    /\ \A i \in {1, 2} : preserved[DemoRuns[i]] = Created =>
         interruptions > 0 \/ \E p \in Processes : Completes(proc[p], i)

TypeInv == proc \in [Processes -> ProcessStates]

ServerInv == TypeInv /\ SchemaInv /\ EnvInv /\ SeedInv /\ DeliveriesBecomeOneRun

USE DEF Opens, PastOpen, PastSeed, Seeds, ServesRuns

LEMMA InitInv == Init => ServerInv
<1> SUFFICES ASSUME Init PROVE ServerInv
  OBVIOUS
<1> USE DEF Init
<1>1. TypeInv /\ \A p \in Processes : proc[p] = Down
  BY ServerAssumption DEF TypeInv, ProcessStates, Stages, Down
<1>2. SchemaInv /\ EnvInv
  BY <1>1 DEF SchemaInv, SchemaFor, EnvInv, Down
<1>3. ToSet(DemoRuns) = {"quiet", "delayed"}
  BY DEF ToSet, DemoRuns
<1>4. SeedInv
  <2>1. /\ DOMAIN preserved = {"quiet", "delayed"}
        /\ \A run \in {"quiet", "delayed"} : preserved[run] = <<>>
    BY <1>3
  <2>2. Created # <<>>
    BY DEF Created
  <2>3. \A i \in {1, 2} : preserved[DemoRuns[i]] # Created
    BY <2>1, <2>2 DEF DemoRuns
  <2>4. \A p \in Processes : SeedFor(proc[p])
    BY <1>1 DEF SeedFor, Down
  <2> QED
    BY <2>1, <2>3, <2>4 DEF SeedInv
<1>5. DeliveriesBecomeOneRun
  BY DEF DeliveriesBecomeOneRun, NoAnswer
<1> QED
  BY <1>1, <1>2, <1>4, <1>5 DEF ServerInv

\* A process moves alone, and keeps what the move does not name.
LEMMA MoveOf ==
  ASSUME NEW p \in Processes, NEW to, TypeInv, Moves(p, to)
  PROVE  /\ \A q \in Processes \ {p} : proc'[q] = proc[q]
         /\ proc'[p] = Override(proc[p], to)
         /\ DOMAIN proc' = Processes
  BY DEF Moves, TypeInv

LEMMA EndOf ==
  ASSUME NEW p \in Processes, TypeInv, Ends(p)
  PROVE  /\ \A q \in Processes \ {p} : proc'[q] = proc[q]
         /\ proc'[p] = Down
         /\ proc' \in [Processes -> ProcessStates]
  BY DEF Ends, TypeInv, Down, ProcessStates, Stages

\* What a step may be.
LEMMA Steps ==
  ASSUME [Next]_vars
  PROVE  \/ \E p \in Processes :
              \/ Start(p) \/ ReadVersions(p) \/ Migrate(p) \/ CheckInbox(p)
              \/ SeedEvaluations(p) \/ CreateDemo(p) \/ AppendDemo(p)
              \/ Die(p) \/ Close(p) \/ Exit(p) \/ Tick(p) \/ TickWaits(p) \/ Deliver(p)
         \/ Pass
         \/ UNCHANGED vars
  BY Zenon DEF Next, StartStep

LEMMA DeliverKeeps ==
  ASSUME NEW p \in Processes, Deliver(p)
  PROVE  UNCHANGED schema /\ UNCHANGED batches /\ UNCHANGED preserved /\ UNCHANGED proc
         /\ UNCHANGED interruptions
<1>1. PICK id \in Deliveries, commit \in Candidates, flaws \in Flaws :
        UNCHANGED <<schema, batches, preserved, proc, interruptions>>
  BY DEF Deliver
<1> QED
  BY <1>1

\* The three schemas there are.
LEMMA Schemas ==
  ASSUME SchemaInv
  PROVE  /\ \/ schema = <<>> /\ Len(schema) = 0
            \/ schema = <<1>> /\ Len(schema) = 1
            \/ schema = Whole /\ Len(schema) = 2
         /\ schema = Whole <=> Len(schema) = 2
<1>1. Len(<<>>) = 0 /\ Len(<<1>>) = 1 /\ Len(Whole) = 2
  BY DEF Whole
<1> QED
  BY <1>1 DEF SchemaInv

LEMMA NextVersion ==
  ASSUME SchemaInv, Len(schema) # SchemaVersion
  PROVE  Len(schema) + 1 \in {1, 2}
<1>1. Len(schema) = 0 \/ Len(schema) = 1
  BY Schemas DEF SchemaVersion
<1>2. CASE Len(schema) = 0
  BY <1>2
<1>3. CASE Len(schema) = 1
  BY <1>3
<1> QED
  BY <1>1, <1>2, <1>3

LEMMA TypeStep == ServerInv /\ [Next]_vars => TypeInv'
<1> SUFFICES ASSUME ServerInv, [Next]_vars PROVE TypeInv'
  OBVIOUS
<1>0. TypeInv /\ SchemaInv /\ SeedInv
  BY DEF ServerInv
<1>a. ASSUME NEW p \in Processes, NEW to, Moves(p, to), Override(proc[p], to) \in ProcessStates
      PROVE  TypeInv'
  BY <1>0, <1>a DEF Moves, TypeInv
<1>b. ASSUME NEW p \in Processes, Ends(p) PROVE TypeInv'
  BY <1>0, <1>b, EndOf DEF TypeInv
<1>c. \A p \in Processes : proc[p] \in ProcessStates
  BY <1>0 DEF TypeInv
<1>e. Len(schema) # SchemaVersion => Len(schema) + 1 \in {1, 2}
  BY <1>0, NextVersion
<1> USE DEF Stages, ProcessStates, Override
<1>1. ASSUME NEW p \in Processes, Start(p) PROVE TypeInv'
  <2>1. PICK env \in Environments : Moves(p, [stage |-> "opening", env |-> env, at |-> 1])
    BY <1>1 DEF Start
  <2>2. Override(proc[p], [stage |-> "opening", env |-> env, at |-> 1]) \in ProcessStates
    BY <1>c
  <2> QED
    BY <1>a, <2>1, <2>2
<1>2. ASSUME NEW p \in Processes, ReadVersions(p) PROVE TypeInv'
  <2>1. CASE Ends(p)
    BY <1>b, <2>1
  <2>2. CASE Moves(p, Opened(p))
    <3>1. Override(proc[p], Opened(p)) \in ProcessStates
      BY <1>c DEF Opened
    <3> QED
      BY <1>a, <2>2, <3>1
  <2>3. CASE Len(schema) # SchemaVersion /\ Moves(p, [stage |-> "migrating", next |-> Len(schema) + 1])
    <3>1. Len(schema) + 1 \in {1, 2}
      BY <1>e, <2>3
    <3>2. Override(proc[p], [stage |-> "migrating", next |-> Len(schema) + 1]) \in ProcessStates
      BY <1>c, <3>1
    <3> QED
      BY <1>a, <2>3, <3>2
  <2> QED
    BY <1>2, <2>1, <2>2, <2>3 DEF ReadVersions
<1>3. ASSUME NEW p \in Processes, Migrate(p) PROVE TypeInv'
  <2>1. CASE Ends(p)
    BY <1>b, <2>1
  <2>2. CASE Moves(p, Migrated(p))
    <3>1. proc[p].next \in {1, 2}
      <4>1. proc[p].stage = "migrating"
        BY <1>3 DEF Migrate, At
      <4> QED
        BY <1>0, <4>1 DEF SchemaInv, SchemaFor
    <3>2. Override(proc[p], Migrated(p)) \in ProcessStates
      BY <1>c, <3>1 DEF Migrated, Opened, SchemaVersion
    <3> QED
      BY <1>a, <2>2, <3>2
  <2> QED
    BY <1>3, <2>1, <2>2 DEF Migrate
<1>4. ASSUME NEW p \in Processes, CheckInbox(p) \/ SeedEvaluations(p) PROVE TypeInv'
  <2>1. \/ Moves(p, [stage |-> "evaluating"])
        \/ Moves(p, [stage |-> "creating", next |-> 1])
    BY <1>4 DEF CheckInbox, SeedEvaluations
  <2>2. Override(proc[p], [stage |-> "evaluating"]) \in ProcessStates
    BY <1>c
  <2>3. Override(proc[p], [stage |-> "creating", next |-> 1]) \in ProcessStates
    BY <1>c
  <2> QED
    BY <1>a, <2>1, <2>2, <2>3
<1>d. ASSUME NEW p \in Processes, Seeds(proc[p]) PROVE Override(proc[p], Seeded(p)) \in ProcessStates
  <2>1. proc[p].next \in {1, 2}
    BY <1>0, <1>d DEF SeedInv, SeedFor
  <2> QED
    BY <1>c, <2>1, ServerAssumption DEF Seeded, DemoRuns
<1>5. ASSUME NEW p \in Processes, CreateDemo(p) PROVE TypeInv'
  <2>1. Moves(p, [stage |-> "appending"]) \/ Moves(p, Seeded(p))
    BY <1>5 DEF CreateDemo
  <2>2. Override(proc[p], [stage |-> "appending"]) \in ProcessStates
    BY <1>c
  <2>3. Override(proc[p], Seeded(p)) \in ProcessStates
    BY <1>5, <1>d DEF CreateDemo, At
  <2> QED
    BY <1>a, <2>1, <2>2, <2>3
<1>6. ASSUME NEW p \in Processes, AppendDemo(p) PROVE TypeInv'
  <2>1. Moves(p, Seeded(p)) \/ Ends(p)
    BY <1>6 DEF AppendDemo
  <2>2. Override(proc[p], Seeded(p)) \in ProcessStates
    BY <1>6, <1>d DEF AppendDemo, At
  <2> QED
    BY <1>a, <1>b, <2>1, <2>2
<1>7. ASSUME NEW p \in Processes, Die(p) \/ Exit(p) PROVE TypeInv'
  BY <1>7, <1>b DEF Die, Exit
<1>8. ASSUME NEW p \in Processes, Close(p) PROVE TypeInv'
  <2>1. Override(proc[p], [stage |-> "closing"]) \in ProcessStates
    BY <1>c
  <2> QED
    BY <1>8, <1>a, <2>1 DEF Close
<1>9. ASSUME NEW p \in Processes, Tick(p) PROVE TypeInv'
  <2>1. PICK tick \in {"idle", "busy"} : Moves(p, [age |-> 0, tick |-> tick])
    BY <1>9 DEF Tick
  <2>2. Override(proc[p], [age |-> 0, tick |-> tick]) \in ProcessStates
    BY <1>c
  <2> QED
    BY <1>a, <2>1, <2>2
<1>10. ASSUME NEW p \in Processes, TickWaits(p) PROVE TypeInv'
  <2>1. PICK tick \in {"idle", "hung"} : Moves(p, [tick |-> tick])
    BY <1>10 DEF TickWaits
  <2>2. Override(proc[p], [tick |-> tick]) \in ProcessStates
    BY <1>c
  <2> QED
    BY <1>a, <2>1, <2>2
<1>11. ASSUME NEW p \in Processes, Deliver(p) PROVE TypeInv'
  <2>1. UNCHANGED proc
    BY <1>11 DEF Deliver
  <2> QED
    BY <1>0, <2>1 DEF TypeInv
<1>12. CASE Pass
  <2>1. \A p \in Processes : [proc[p] EXCEPT !.age = @ + 1] \in ProcessStates
    BY <1>c
  <2> QED
    BY <1>12, <1>c, <2>1 DEF Pass, TypeInv
<1>13. CASE UNCHANGED vars
  BY <1>0, <1>13 DEF vars, TypeInv
<1> QED
  BY <1>1, <1>2, <1>3, <1>4, <1>5, <1>6, <1>7, <1>8, <1>9, <1>10, <1>11, <1>12, <1>13, Steps

\* The fields of a process after its move.
LEMMA FieldsOf ==
  ASSUME NEW p \in Processes, NEW to, TypeInv, Moves(p, to)
  PROVE  \A f \in {"stage", "env", "at", "next", "age", "tick"} :
           proc'[p][f] = IF f \in DOMAIN to THEN to[f] ELSE proc[p][f]
<1>1. DOMAIN proc[p] = {"stage", "env", "at", "next", "age", "tick"}
  BY DEF TypeInv, ProcessStates
<1>2. proc'[p] = [f \in DOMAIN proc[p] |-> IF f \in DOMAIN to THEN to[f] ELSE proc[p][f]]
  BY MoveOf DEF Override
<1> QED
  BY <1>1, <1>2, Zenon

\* A step of one process that writes no version.
LEMMA SchemaStays ==
  ASSUME ServerInv, UNCHANGED schema, NEW p \in Processes,
         \A q \in Processes \ {p} : proc'[q] = proc[q], SchemaFor(proc'[p])
  PROVE  SchemaInv'
<1>1. \A q \in Processes : SchemaFor(proc'[q])
  BY DEF ServerInv, SchemaInv
<1>2. \A q \in Processes : SchemaFor(proc[q])'
  BY <1>1 DEF SchemaFor
<1> QED
  BY <1>2 DEF ServerInv, SchemaInv

LEMMA SchemaStep == ServerInv /\ [Next]_vars => SchemaInv'
<1> SUFFICES ASSUME ServerInv, [Next]_vars PROVE SchemaInv'
  OBVIOUS
<1>0. TypeInv /\ SchemaInv
  BY DEF ServerInv
<1>a. ASSUME NEW p \in Processes, NEW to, Moves(p, to), UNCHANGED schema, SchemaFor(proc'[p])
      PROVE  SchemaInv'
  BY <1>0, <1>a, MoveOf, SchemaStays
<1>b. ASSUME NEW p \in Processes, Ends(p), UNCHANGED schema PROVE SchemaInv'
  <2>1. SchemaFor(proc'[p])
    BY <1>0, <1>b, EndOf DEF SchemaFor, Down
  <2> QED
    BY <1>0, <1>b, <2>1, EndOf, SchemaStays
<1>c. \A p \in Processes : SchemaFor(proc[p])
  BY <1>0 DEF SchemaInv
<1>1. ASSUME NEW p \in Processes, Start(p) PROVE SchemaInv'
  <2>1. PICK env \in Environments : Moves(p, [stage |-> "opening", env |-> env, at |-> 1])
    BY <1>1 DEF Start
  <2>2. proc'[p].stage = "opening" /\ proc'[p].at = 1
    BY <1>0, <2>1, FieldsOf
  <2>3. SchemaFor(proc'[p]) /\ UNCHANGED schema
    BY <1>1, <2>2 DEF SchemaFor, Start, tables
  <2> QED
    BY <1>a, <2>1, <2>3
<1>2. ASSUME NEW p \in Processes, ReadVersions(p) PROVE SchemaInv'
  <2>0. UNCHANGED schema /\ proc[p].stage = "opening" /\ proc[p].at \in {1, 2}
    BY <1>2, <1>c DEF ReadVersions, tables, At, SchemaFor
  <2>1. CASE Ends(p)
    BY <1>b, <2>0, <2>1
  <2>2. CASE Len(schema) = SchemaVersion /\ Moves(p, Opened(p))
    <3>1. schema = Whole
      BY <1>0, <2>2, Schemas DEF SchemaVersion
    <3>2. /\ proc'[p].stage \in {"opening", "checking"} /\ proc'[p].at = IF proc[p].at = 1 THEN 2 ELSE 0
          /\ proc'[p].stage = "opening" => proc'[p].at = 2
      BY <1>0, <2>0, <2>2, FieldsOf DEF Opened
    <3>3. SchemaFor(proc'[p])
      BY <3>1, <3>2 DEF SchemaFor
    <3> QED
      BY <1>a, <2>0, <2>2, <3>3
  <2>3. CASE Len(schema) # SchemaVersion /\ Moves(p, [stage |-> "migrating", next |-> Len(schema) + 1])
    <3>1. proc'[p].stage = "migrating" /\ proc'[p].next = Len(schema) + 1 /\ proc'[p].at = proc[p].at
      BY <1>0, <2>3, FieldsOf
    <3>2. Len(schema) + 1 \in {1, 2} /\ Len(schema) >= (Len(schema) + 1) - 1
      BY <1>0, <2>3, NextVersion, Schemas
    <3>3. proc[p].at = 2 => schema = Whole
      BY <1>c, <2>0 DEF SchemaFor
    <3>4. SchemaFor(proc'[p])
      BY <2>0, <3>1, <3>2, <3>3 DEF SchemaFor
    <3> QED
      BY <1>a, <2>0, <2>3, <3>4
  <2> QED
    BY <1>2, <2>1, <2>2, <2>3 DEF ReadVersions
<1>3. ASSUME NEW p \in Processes, Migrate(p) PROVE SchemaInv'
  <2>0. /\ proc[p].stage = "migrating" /\ proc[p].next \in {1, 2} /\ proc[p].at \in {1, 2}
        /\ Len(schema) >= proc[p].next - 1
        /\ proc[p].at = 2 => schema = Whole
    <3>1. proc[p].stage = "migrating"
      BY <1>3 DEF Migrate, At
    <3> QED
      BY <1>c, <3>1 DEF SchemaFor
  <2>1. CASE Ends(p) /\ UNCHANGED schema
    BY <1>b, <2>1
  <2>2. CASE /\ proc[p].next \notin ToSet(schema)
             /\ schema' = Append(schema, proc[p].next) /\ Moves(p, Migrated(p))
    <3>1. /\ 1 \in ToSet(<<1>>) /\ 1 \in ToSet(Whole) /\ 2 \in ToSet(Whole)
      BY DEF ToSet, Whole
    <3>2. \/ schema = <<>> /\ proc[p].next = 1 /\ schema' = <<1>>
          \/ schema = <<1>> /\ proc[p].next = 2 /\ schema' = Whole
      <4>1. CASE schema = <<>>
        <5>1. proc[p].next # 2
          BY <2>0, <4>1
        <5> QED
          BY <2>0, <2>2, <4>1, <5>1
      <4>2. CASE schema = <<1>>
        <5>1. proc[p].next = 2
          BY <2>0, <2>2, <3>1, <4>2
        <5>2. Append(<<1>>, 2) = Whole
          <6> DEFINE s == Append(<<1>>, 2)
          <6>1. /\ s \in Seq(Nat) /\ Len(s) = 2 /\ s[1] = 1 /\ s[2] = 2
                /\ Whole \in Seq(Nat) /\ Len(Whole) = 2 /\ Whole[1] = 1 /\ Whole[2] = 2
            BY DEF Whole
          <6> HIDE DEF s
          <6>2. \A i \in 1..Len(s) : s[i] = Whole[i]
            BY <6>1
          <6>3. s = Whole
            BY <6>1, <6>2, SeqEqual
          <6> QED
            BY <6>3 DEF s
        <5> QED
          BY <2>2, <4>2, <5>1, <5>2
      <4> QED
        BY <1>0, <2>0, <2>2, <3>1, <4>1, <4>2 DEF SchemaInv
    <3>3. schema # Whole /\ proc[p].at = 1
      BY <2>0, <3>2 DEF Whole
    <3>4. /\ proc[p].next = 1 => /\ proc'[p].stage = "migrating" /\ proc'[p].next = 2
                                 /\ proc'[p].at = 1
          /\ proc[p].next = 2 => /\ proc'[p].stage = "opening" /\ proc'[p].at = 2
      BY <1>0, <2>0, <2>2, <3>3, FieldsOf DEF Migrated, Opened, SchemaVersion
    <3>5. SchemaFor(proc[p])'
      BY <3>2, <3>4 DEF SchemaFor
    <3>6. ASSUME NEW q \in Processes, q # p PROVE SchemaFor(proc[q])'
      <4>1. proc'[q] = proc[q] /\ SchemaFor(proc[q])
        BY <1>0, <1>c, <2>2, <3>6, MoveOf
      <4>2. proc[q].stage = "migrating" => proc[q].next \in {1, 2} /\ Len(schema') >= proc[q].next - 1
        BY <3>2, <4>1 DEF SchemaFor, Whole
      <4> QED
        BY <3>3, <4>1, <4>2 DEF SchemaFor
    <3> QED
      BY <3>2, <3>5, <3>6 DEF SchemaInv
  <2> QED
    BY <1>3, <2>1, <2>2 DEF Migrate
<1>d. ASSUME NEW p \in Processes, NEW to, Moves(p, to), UNCHANGED schema, PastOpen(proc[p]),
             PastOpen(proc'[p])
      PROVE  SchemaInv'
  <2>1. SchemaFor(proc'[p])
    BY <1>c, <1>d DEF SchemaFor
  <2> QED
    BY <1>a, <1>d, <2>1
<1>4. ASSUME NEW p \in Processes, \/ CheckInbox(p) \/ SeedEvaluations(p) \/ CreateDemo(p) \/ AppendDemo(p)
                                  \/ Close(p)
      PROVE  SchemaInv'
  <2>0. UNCHANGED schema /\ PastOpen(proc[p])
    BY <1>4 DEF CheckInbox, SeedEvaluations, CreateDemo, AppendDemo, Close, tables, At
  <2>1. Ends(p) \/ \E to \in {[stage |-> "evaluating"], [stage |-> "creating", next |-> 1],
                             [stage |-> "appending"], [stage |-> "closing"], Seeded(p)} : Moves(p, to)
    BY <1>4 DEF CheckInbox, SeedEvaluations, CreateDemo, AppendDemo, Close
  <2>2. ASSUME NEW to \in {[stage |-> "evaluating"], [stage |-> "creating", next |-> 1],
                           [stage |-> "appending"], [stage |-> "closing"], Seeded(p)}, Moves(p, to)
        PROVE  PastOpen(proc'[p])
    <3>1. "stage" \in DOMAIN to
          /\ to["stage"] \in {"evaluating", "creating", "appending", "closing", "listening"}
      BY <2>2 DEF Seeded
    <3> QED
      BY <1>0, <2>2, <3>1, FieldsOf
  <2> QED
    BY <1>b, <1>d, <2>0, <2>1, <2>2
<1>5. ASSUME NEW p \in Processes, Die(p) \/ Exit(p) PROVE SchemaInv'
  BY <1>5, <1>b DEF Die, Exit, tables
<1>6. ASSUME NEW p \in Processes, Tick(p) \/ TickWaits(p) PROVE SchemaInv'
  <2>0. UNCHANGED schema /\ PastOpen(proc[p])
    BY <1>6 DEF Tick, TickWaits, tables, At
  <2>1. PICK to : Moves(p, to) /\ "stage" \notin DOMAIN to
    BY <1>6 DEF Tick, TickWaits
  <2>2. proc'[p].stage = proc[p].stage
    BY <1>0, <2>1, FieldsOf
  <2> QED
    BY <1>d, <2>0, <2>1, <2>2
<1>7. CASE UNCHANGED <<schema, proc>>
  BY <1>0, <1>7 DEF SchemaInv, SchemaFor
<1>8. CASE Pass
  <2>1. \A p \in Processes : /\ proc'[p].stage = proc[p].stage /\ proc'[p].at = proc[p].at
                             /\ proc'[p].next = proc[p].next
    BY <1>0, <1>8 DEF Pass, TypeInv, ProcessStates
  <2> QED
    BY <1>0, <1>8, <2>1 DEF Pass, tables, SchemaInv, SchemaFor
<1>9. (\E p \in Processes : Deliver(p)) \/ UNCHANGED vars => UNCHANGED <<schema, proc>>
  BY DeliverKeeps DEF vars
<1>10. ASSUME NEW p \in Processes,
              \/ Start(p) \/ ReadVersions(p) \/ Migrate(p) \/ CheckInbox(p)
              \/ SeedEvaluations(p) \/ CreateDemo(p) \/ AppendDemo(p)
              \/ Die(p) \/ Close(p) \/ Exit(p) \/ Tick(p) \/ TickWaits(p)
       PROVE  SchemaInv'
  BY <1>1, <1>2, <1>3, <1>4, <1>5, <1>6, <1>10, Zenon
<1> QED
  BY <1>7, <1>8, <1>9, <1>10, Steps, Zenon

-----------------------------------------------------------------------------

LEMMA EnvStep == ServerInv /\ [Next]_vars => EnvInv'
<1> SUFFICES ASSUME ServerInv, [Next]_vars PROVE EnvInv'
  OBVIOUS
<1>0. TypeInv /\ EnvInv
  BY DEF ServerInv
<1>a. ASSUME NEW p \in Processes, \A q \in Processes \ {p} : proc'[q] = proc[q],
             batches' \in Nat, batches' >= batches,
             proc'[p].stage # "down" => proc'[p].env \in Environments /\ ~ Refused(proc'[p].env),
             PastSeed(proc'[p]) => batches' > 0
      PROVE  EnvInv'
  BY <1>0, <1>a DEF EnvInv
<1>b. ASSUME NEW p \in Processes, Ends(p), UNCHANGED batches PROVE EnvInv'
  <2>1. proc'[p].stage = "down"
    BY <1>0, <1>b, EndOf DEF Down
  <2> QED
    BY <1>0, <1>a, <1>b, <2>1, EndOf DEF EnvInv
<1>c. ASSUME NEW p \in Processes, NEW to, Moves(p, to), "env" \notin DOMAIN to, proc[p].stage # "down",
             batches' \in Nat, batches' >= batches, PastSeed(proc'[p]) => batches' > 0
      PROVE  EnvInv'
  <2>1. proc'[p].env = proc[p].env
    BY <1>0, <1>c, FieldsOf
  <2>2. proc[p].env \in Environments /\ ~ Refused(proc[p].env)
    BY <1>0, <1>c DEF EnvInv
  <2> QED
    BY <1>0, <1>a, <1>c, <2>1, <2>2, MoveOf
<1>1. ASSUME NEW p \in Processes, Start(p) PROVE EnvInv'
  <2>1. PICK env \in Environments : /\ ~ Refused(env)
                                    /\ Moves(p, [stage |-> "opening", env |-> env, at |-> 1])
    BY <1>1 DEF Start
  <2>2. proc'[p].env = env /\ proc'[p].stage = "opening"
    BY <1>0, <2>1, FieldsOf
  <2> QED
    BY <1>0, <1>1, <1>a, <2>1, <2>2, MoveOf DEF Start, tables, EnvInv
<1>d. ASSUME NEW p \in Processes, NEW to, Moves(p, to), "env" \notin DOMAIN to, UNCHANGED batches,
             proc[p].stage # "down", PastSeed(proc'[p]) => PastSeed(proc[p])
      PROVE  EnvInv'
  BY <1>0, <1>c, <1>d DEF EnvInv
<1>2. ASSUME NEW p \in Processes, ReadVersions(p) \/ Migrate(p) PROVE EnvInv'
  <2>0. UNCHANGED batches /\ proc[p].stage \in {"opening", "migrating"}
    BY <1>2 DEF ReadVersions, Migrate, tables, At
  <2>1. \/ Ends(p)
        \/ Moves(p, Opened(p))
        \/ Moves(p, [stage |-> "migrating", next |-> Len(schema) + 1])
        \/ Moves(p, [next |-> proc[p].next + 1]) /\ proc[p].stage = "migrating"
    BY <1>2 DEF ReadVersions, Migrate, Migrated, At
  <2>2. ASSUME Moves(p, Opened(p)) PROVE EnvInv'
    <3>1. "env" \notin DOMAIN Opened(p) /\ proc'[p].stage \in {"opening", "checking"}
      BY <1>0, <2>2, FieldsOf DEF Opened
    <3> QED
      BY <1>d, <2>0, <2>2, <3>1
  <2>3. ASSUME Moves(p, [stage |-> "migrating", next |-> Len(schema) + 1]) PROVE EnvInv'
    <3>1. proc'[p].stage = "migrating"
      BY <1>0, <2>3, FieldsOf
    <3> QED
      BY <1>d, <2>0, <2>3, <3>1
  <2>4. ASSUME Moves(p, [next |-> proc[p].next + 1]) PROVE EnvInv'
    <3>1. proc'[p].stage = proc[p].stage
      BY <1>0, <2>4, FieldsOf
    <3> QED
      BY <1>d, <2>0, <2>4, <3>1
  <2> QED
    BY <1>b, <2>0, <2>1, <2>2, <2>3, <2>4
<1>3. ASSUME NEW p \in Processes, CheckInbox(p) PROVE EnvInv'
  <2>0. UNCHANGED batches /\ proc[p].stage = "checking"
    BY <1>3 DEF CheckInbox, tables, At
  <2>1. CASE batches = 0
    <3>1. Moves(p, [stage |-> "evaluating"])
      BY <1>3, <2>1 DEF CheckInbox
    <3>2. proc'[p].stage = "evaluating"
      BY <1>0, <3>1, FieldsOf
    <3> QED
      BY <1>0, <1>c, <2>0, <3>1, <3>2 DEF EnvInv
  <2>2. CASE batches # 0
    <3>1. Moves(p, [stage |-> "creating", next |-> 1])
      BY <1>3, <2>2 DEF CheckInbox
    <3>2. batches > 0
      BY <1>0, <2>2 DEF EnvInv
    <3> QED
      BY <1>0, <1>c, <2>0, <3>1, <3>2 DEF EnvInv
  <2> QED
    BY <2>1, <2>2
<1>4. ASSUME NEW p \in Processes, SeedEvaluations(p) PROVE EnvInv'
  <2>1. batches' = batches + 1 /\ Moves(p, [stage |-> "creating", next |-> 1]) /\ proc[p].stage # "down"
    BY <1>4 DEF SeedEvaluations, At
  <2>2. batches' \in Nat /\ batches' >= batches /\ batches' > 0
    BY <1>0, <2>1 DEF EnvInv
  <2> QED
    BY <1>c, <2>1, <2>2
<1>5. ASSUME NEW p \in Processes, CreateDemo(p) \/ AppendDemo(p) \/ Close(p) \/ Tick(p) \/ TickWaits(p)
      PROVE  EnvInv'
  <2>0. UNCHANGED batches /\ PastSeed(proc[p])
    BY <1>5 DEF CreateDemo, AppendDemo, Close, Tick, TickWaits, tables, At
  <2>a. "env" \notin DOMAIN Seeded(p)
    BY DEF Seeded
  <2>1. Ends(p) \/ \E to : Moves(p, to) /\ "env" \notin DOMAIN to
    <3>1. CASE CreateDemo(p) \/ AppendDemo(p)
      <4>1. Ends(p) \/ Moves(p, [stage |-> "appending"]) \/ Moves(p, Seeded(p))
        BY <3>1 DEF CreateDemo, AppendDemo
      <4>2. "env" \notin DOMAIN [stage |-> "appending"]
        OBVIOUS
      <4> QED
        BY <2>a, <4>1, <4>2, Zenon
    <3>2. CASE Close(p)
      <4>1. Moves(p, [stage |-> "closing"]) /\ "env" \notin DOMAIN [stage |-> "closing"]
        BY <3>2 DEF Close
      <4> QED
        BY <4>1, Zenon
    <3>3. CASE Tick(p)
      <4>1. PICK tick : Moves(p, [age |-> 0, tick |-> tick])
        BY <3>3 DEF Tick
      <4>2. "env" \notin DOMAIN [age |-> 0, tick |-> tick]
        OBVIOUS
      <4> QED
        BY <4>1, <4>2, Zenon
    <3>4. CASE TickWaits(p)
      <4>1. PICK tick : Moves(p, [tick |-> tick])
        BY <3>4 DEF TickWaits
      <4>2. "env" \notin DOMAIN [tick |-> tick]
        OBVIOUS
      <4> QED
        BY <4>1, <4>2, Zenon
    <3> QED
      BY <1>5, <3>1, <3>2, <3>3, <3>4
  <2>2. batches \in Nat /\ batches > 0
    BY <1>0, <2>0 DEF EnvInv
  <2> QED
    BY <1>b, <1>c, <2>0, <2>1, <2>2
<1>6. ASSUME NEW p \in Processes, Die(p) \/ Exit(p) PROVE EnvInv'
  BY <1>6, <1>b DEF Die, Exit, tables
<1>7. CASE UNCHANGED <<batches, proc>>
  BY <1>0, <1>7 DEF EnvInv
<1>8. CASE Pass
  <2>1. \A p \in Processes : proc'[p].stage = proc[p].stage /\ proc'[p].env = proc[p].env
    BY <1>0, <1>8 DEF Pass, TypeInv, ProcessStates
  <2> QED
    BY <1>0, <1>8, <2>1 DEF Pass, tables, EnvInv
<1>9. (\E p \in Processes : Deliver(p)) \/ UNCHANGED vars => UNCHANGED <<batches, proc>>
  BY DeliverKeeps DEF vars
<1>10. ASSUME NEW p \in Processes,
              \/ Start(p) \/ ReadVersions(p) \/ Migrate(p) \/ CheckInbox(p)
              \/ SeedEvaluations(p) \/ CreateDemo(p) \/ AppendDemo(p)
              \/ Die(p) \/ Close(p) \/ Exit(p) \/ Tick(p) \/ TickWaits(p)
       PROVE  EnvInv'
  BY <1>1, <1>2, <1>3, <1>4, <1>5, <1>6, <1>10, Zenon
<1> QED
  BY <1>7, <1>8, <1>9, <1>10, Steps, Zenon

-----------------------------------------------------------------------------

DemoSignals == {"TRIGGER_ACCEPTED", "CANDIDATE_READY", "NORMAL_WAIT_REQUIRED", "WAIT_DUE",
                "OBSERVATION_BUDGET_EXHAUSTED"}

\* The demo runs are whole histories the kernel accepts, and no shorter.
LEMMA Stories ==
  /\ Len(Created) = 1 /\ Created # <<>>
  /\ \A run \in {"quiet", "delayed"} :
       /\ Story(run) # Created /\ Story(run) # <<>> /\ Len(Story(run)) # 1
       /\ Legal(Story(run))
<1>0. /\ Created \in Seq(DemoSignals) /\ Len(Created) = 1 /\ Created[1] = "TRIGGER_ACCEPTED"
  BY DEF Created, DemoSignals
<1>1. /\ Story("quiet") \in Seq(DemoSignals) /\ Len(Story("quiet")) = 2
      /\ Story("quiet")[1] = "TRIGGER_ACCEPTED" /\ Story("quiet")[2] = "CANDIDATE_READY"
  <2> DEFINE tail == DemoTail["quiet"]
  <2>1. tail \in Seq(DemoSignals) /\ Len(tail) = 1 /\ tail[1] = "CANDIDATE_READY"
    BY DEF DemoTail, DemoSignals
  <2> HIDE DEF tail
  <2>2. /\ Created \o tail \in Seq(DemoSignals) /\ Len(Created \o tail) = 2
        /\ (Created \o tail)[1] = Created[1] /\ (Created \o tail)[2] = tail[1]
    BY <1>0, <2>1, ConcatProperties
  <2> QED
    BY <1>0, <2>1, <2>2 DEF Story, tail
<1>2. /\ Story("delayed") \in Seq(DemoSignals) /\ Len(Story("delayed")) = 4
      /\ Story("delayed")[1] = "TRIGGER_ACCEPTED" /\ Story("delayed")[2] = "NORMAL_WAIT_REQUIRED"
      /\ Story("delayed")[3] = "WAIT_DUE" /\ Story("delayed")[4] = "OBSERVATION_BUDGET_EXHAUSTED"
  <2> DEFINE tail == DemoTail["delayed"]
  <2>1. /\ tail \in Seq(DemoSignals) /\ Len(tail) = 3 /\ tail[1] = "NORMAL_WAIT_REQUIRED"
        /\ tail[2] = "WAIT_DUE" /\ tail[3] = "OBSERVATION_BUDGET_EXHAUSTED"
    BY DEF DemoTail, DemoSignals
  <2> HIDE DEF tail
  <2>2. /\ Created \o tail \in Seq(DemoSignals) /\ Len(Created \o tail) = 4
        /\ (Created \o tail)[1] = Created[1] /\ (Created \o tail)[2] = tail[1]
        /\ (Created \o tail)[3] = tail[2] /\ (Created \o tail)[4] = tail[3]
    <3>1. /\ Created \o tail \in Seq(DemoSignals) /\ Len(Created \o tail) = 1 + 3
          /\ \A i \in 1..1 + 3 : (Created \o tail)[i] = IF i <= 1 THEN Created[i] ELSE tail[i - 1]
      <4>1. /\ Created \o tail \in Seq(DemoSignals) /\ Len(Created \o tail) = Len(Created) + Len(tail)
            /\ \A i \in 1..Len(Created) + Len(tail) :
                 (Created \o tail)[i] = IF i <= Len(Created) THEN Created[i] ELSE tail[i - Len(Created)]
        BY <1>0, <2>1, ConcatProperties, Zenon
      <4>2. Len(Created) = 1 /\ Len(tail) = 3
        BY <1>0, <2>1
      <4> QED
        BY <4>1, <4>2, Zenon
    <3> DEFINE s == Created \o tail
    <3> HIDE DEF s
    <3>2. Len(s) = 4 /\ \A i \in 1..4 : s[i] = IF i <= 1 THEN Created[i] ELSE tail[i - 1]
      BY <3>1 DEF s
    <3>3. s[1] = Created[1] /\ s[2] = tail[1] /\ s[3] = tail[2] /\ s[4] = tail[3]
      BY <3>2
    <3> QED
      BY <3>1, <3>2, <3>3 DEF s
  <2> QED
    BY <1>0, <2>1, <2>2 DEF Story, tail
<1>3. /\ NoState \in SourceStates("TRIGGER_ACCEPTED")
      /\ Target("TRIGGER_ACCEPTED") \in SourceStates("CANDIDATE_READY")
      /\ Target("TRIGGER_ACCEPTED") \in SourceStates("NORMAL_WAIT_REQUIRED")
      /\ Target("NORMAL_WAIT_REQUIRED") \in SourceStates("WAIT_DUE")
      /\ Target("WAIT_DUE") \in SourceStates("OBSERVATION_BUDGET_EXHAUSTED")
  BY DEF SourceStates, Target, MonitoringSignals, ObservationStops, DecisionSignals, ActionSignals, NoState
<1>4. Legal(Story("quiet"))
  <2> DEFINE s == Story("quiet")
  <2>1. /\ s \in Seq(DemoSignals) /\ Len(s) = 2 /\ s[1] = "TRIGGER_ACCEPTED" /\ s[2] = "CANDIDATE_READY"
    BY <1>1
  <2> HIDE DEF s
  <2>2. DOMAIN s = {1, 2}
    BY <2>1
  <2>3. Legal(s)
    BY <1>3, <2>1, <2>2 DEF Legal
  <2> QED
    BY <2>3 DEF s
<1>5. Legal(Story("delayed"))
  <2> DEFINE s == Story("delayed")
  <2>1. /\ s \in Seq(DemoSignals) /\ Len(s) = 4 /\ s[1] = "TRIGGER_ACCEPTED"
        /\ s[2] = "NORMAL_WAIT_REQUIRED" /\ s[3] = "WAIT_DUE"
        /\ s[4] = "OBSERVATION_BUDGET_EXHAUSTED"
    BY <1>2
  <2> HIDE DEF s
  <2>2. DOMAIN s = {1, 2, 3, 4}
    BY <2>1
  <2>3. Legal(s)
    BY <1>3, <2>1, <2>2 DEF Legal
  <2> QED
    BY <2>3 DEF s
<1>6. Created # <<>>
  BY <1>0
<1>7. \A run \in {"quiet", "delayed"} : Len(Story(run)) # 1 /\ Len(Story(run)) # 0
  BY <1>1, <1>2
<1>8. Len(<<>>) = 0
  OBVIOUS
<1>9. \A run \in {"quiet", "delayed"} : Story(run) # Created /\ Story(run) # <<>>
  BY <1>0, <1>7, <1>8
<1> QED
  BY <1>0, <1>4, <1>5, <1>6, <1>7, <1>9

LEMMA TheDemoRuns == DemoRuns[1] = "quiet" /\ DemoRuns[2] = "delayed" /\ Len(DemoRuns) = 2
  BY DEF DemoRuns

\* A step of one process that writes no demo run and leaves none it was completing.
LEMMA SeedStays ==
  ASSUME ServerInv, UNCHANGED preserved, NEW p \in Processes,
         \A q \in Processes \ {p} : proc'[q] = proc[q], SeedFor(proc'[p]),
         \/ interruptions' = interruptions /\ proc[p].stage # "appending"
         \/ interruptions' = interruptions + 1
  PROVE  SeedInv'
<1>0. SeedInv
  BY DEF ServerInv
<1>1. \A q \in Processes : SeedFor(proc'[q])
  BY <1>0 DEF SeedInv
<1>2. \A q \in Processes : SeedFor(proc[q])'
  BY <1>1 DEF SeedFor
<1>3. interruptions' \in Nat
  BY <1>0 DEF SeedInv
<1>4. ASSUME NEW i \in {1, 2}, preserved'[DemoRuns[i]] = Created
      PROVE  interruptions' > 0 \/ \E q \in Processes : Completes(proc'[q], i)
  <2>1. interruptions > 0 \/ \E q \in Processes : Completes(proc[q], i)
    BY <1>0, <1>4 DEF SeedInv
  <2>2. CASE interruptions > 0
    BY <1>0, <2>2 DEF SeedInv
  <2>3. CASE \E q \in Processes : Completes(proc[q], i)
    BY <1>0, <2>3 DEF SeedInv, Completes
  <2> QED
    BY <2>1, <2>2, <2>3
<1> QED
  BY <1>0, <1>2, <1>3, <1>4 DEF SeedInv, Completes

LEMMA SeedStep == ServerInv /\ [Next]_vars => SeedInv'
<1> SUFFICES ASSUME ServerInv, [Next]_vars PROVE SeedInv'
  OBVIOUS
<1>0. TypeInv /\ SeedInv
  BY DEF ServerInv
<1>a. ASSUME NEW p \in Processes, NEW to, Moves(p, to), UNCHANGED <<preserved, interruptions>>,
             proc[p].stage # "appending", SeedFor(proc'[p])
      PROVE  SeedInv'
  BY <1>a, <1>0, MoveOf, SeedStays
<1>b. ASSUME NEW p \in Processes, Ends(p), UNCHANGED preserved,
             \/ interruptions' = interruptions /\ proc[p].stage # "appending"
             \/ interruptions' = interruptions + 1
      PROVE SeedInv'
  <2>1. SeedFor(proc'[p])
    BY <1>0, <1>b, EndOf DEF SeedFor, Down
  <2> QED
    BY <1>0, <1>b, <2>1, EndOf, SeedStays
<1>c. \A p \in Processes : SeedFor(proc[p])
  BY <1>0 DEF SeedInv
<1>d. ASSUME NEW p \in Processes, NEW to, Moves(p, to), UNCHANGED <<preserved, interruptions>>,
             proc[p].stage # "appending", ~ PastSeed(proc'[p])
      PROVE  SeedInv'
  <2>1. SeedFor(proc'[p])
    BY <1>d DEF SeedFor
  <2> QED
    BY <1>a, <1>d, <2>1
\* What a process goes on with once the run it seeds is there.
<1>e. ASSUME NEW p \in Processes, Seeds(proc[p]), Moves(p, Seeded(p)),
             preserved'[DemoRuns[proc[p].next]] # <<>>,
             \A run \in {"quiet", "delayed"} : preserved[run] # <<>> => preserved'[run] # <<>>
      PROVE  SeedFor(proc[p])'
  <2>0. proc[p].next \in {1, 2}
    BY <1>c, <1>e DEF SeedFor
  <2>1. CASE proc[p].next = 1
    <3>1. Seeded(p) = [stage |-> "creating", next |-> 2]
      BY <2>1, TheDemoRuns DEF Seeded
    <3>2. proc'[p].stage = "creating" /\ proc'[p].next = 2
      BY <1>0, <1>e, <3>1, FieldsOf
    <3>3. preserved'["quiet"] # <<>>
      BY <1>e, <2>1, TheDemoRuns
    <3> QED
      BY <3>2, <3>3 DEF SeedFor
  <2>2. CASE proc[p].next = 2
    <3>1. proc'[p].stage = "listening"
      <4>1. Seeded(p).stage = "listening" /\ "stage" \in DOMAIN Seeded(p)
        BY <2>2, TheDemoRuns DEF Seeded
      <4> QED
        BY <1>0, <1>e, <4>1, FieldsOf
    <3>2. preserved["quiet"] # <<>>
      BY <1>c, <1>e, <2>2 DEF SeedFor
    <3>3. preserved'["quiet"] # <<>> /\ preserved'["delayed"] # <<>>
      BY <1>e, <2>2, <3>2, TheDemoRuns
    <3> QED
      BY <3>1, <3>3 DEF SeedFor
  <2> QED
    BY <2>0, <2>1, <2>2
\* Another process over demo runs that are only added to.
<1>f. ASSUME NEW q \in Processes, proc'[q] = proc[q],
             \A run \in {"quiet", "delayed"} : preserved[run] # <<>> => preserved'[run] # <<>>
      PROVE  SeedFor(proc[q])'
  <2>1. SeedFor(proc[q])
    BY <1>c
  <2> QED
    BY <1>f, <2>1, TheDemoRuns DEF SeedFor
<1>1. ASSUME NEW p \in Processes, Start(p) PROVE SeedInv'
  <2>1. PICK env \in Environments : Moves(p, [stage |-> "opening", env |-> env, at |-> 1])
    BY <1>1 DEF Start
  <2>2. proc'[p].stage = "opening"
    BY <1>0, <2>1, FieldsOf
  <2> QED
    BY <1>1, <1>d, <2>1, <2>2 DEF Start, tables, At
<1>2. ASSUME NEW p \in Processes, ReadVersions(p) \/ Migrate(p) PROVE SeedInv'
  <2>0. UNCHANGED <<preserved, interruptions>> /\ proc[p].stage \in {"opening", "migrating"}
    BY <1>2 DEF ReadVersions, Migrate, tables, At
  <2>1. \/ Ends(p)
        \/ Moves(p, Opened(p))
        \/ Moves(p, [stage |-> "migrating", next |-> Len(schema) + 1])
        \/ Moves(p, [next |-> proc[p].next + 1]) /\ proc[p].stage = "migrating"
    BY <1>2 DEF ReadVersions, Migrate, Migrated, At
  <2>2. ASSUME Moves(p, Opened(p)) PROVE SeedInv'
    <3>1. proc'[p].stage \in {"opening", "checking"}
      BY <1>0, <2>2, FieldsOf DEF Opened
    <3> QED
      BY <1>d, <2>0, <2>2, <3>1
  <2>3. ASSUME Moves(p, [stage |-> "migrating", next |-> Len(schema) + 1]) PROVE SeedInv'
    <3>1. proc'[p].stage = "migrating"
      BY <1>0, <2>3, FieldsOf
    <3> QED
      BY <1>d, <2>0, <2>3, <3>1
  <2>4. ASSUME Moves(p, [next |-> proc[p].next + 1]) PROVE SeedInv'
    <3>1. proc'[p].stage = proc[p].stage
      BY <1>0, <2>4, FieldsOf
    <3> QED
      BY <1>d, <2>0, <2>4, <3>1
  <2> QED
    BY <1>b, <2>0, <2>1, <2>2, <2>3, <2>4
<1>3. ASSUME NEW p \in Processes, CheckInbox(p) \/ SeedEvaluations(p) PROVE SeedInv'
  <2>0. UNCHANGED <<preserved, interruptions>> /\ proc[p].stage \in {"checking", "evaluating"}
    BY <1>3 DEF CheckInbox, SeedEvaluations, tables, At
  <2>1. \/ Moves(p, [stage |-> "evaluating"])
        \/ Moves(p, [stage |-> "creating", next |-> 1])
    BY <1>3 DEF CheckInbox, SeedEvaluations
  <2>2. ASSUME Moves(p, [stage |-> "evaluating"]) PROVE SeedInv'
    <3>1. proc'[p].stage = "evaluating"
      BY <1>0, <2>2, FieldsOf
    <3> QED
      BY <1>d, <2>0, <2>2, <3>1
  <2>3. ASSUME Moves(p, [stage |-> "creating", next |-> 1]) PROVE SeedInv'
    <3>1. proc'[p].stage = "creating" /\ proc'[p].next = 1
      BY <1>0, <2>3, FieldsOf
    <3>2. SeedFor(proc'[p])
      BY <3>1 DEF SeedFor
    <3> QED
      BY <1>a, <2>0, <2>3, <3>2
  <2> QED
    BY <2>1, <2>2, <2>3
<1>4. ASSUME NEW p \in Processes, CreateDemo(p) PROVE SeedInv'
  <2> DEFINE run == DemoRuns[proc[p].next]
  <2>0. /\ proc[p].stage = "creating" /\ interruptions' = interruptions
        /\ proc[p].next \in {1, 2} /\ run \in {"quiet", "delayed"}
        /\ proc[p].next = 2 => preserved["quiet"] # <<>>
    BY <1>4, <1>c, TheDemoRuns DEF CreateDemo, At, SeedFor
  <2>1. CASE preserved[run] # <<>>
    <3>1. UNCHANGED preserved /\ Moves(p, Seeded(p))
      BY <1>4, <2>1 DEF CreateDemo
    <3>2. SeedFor(proc[p])'
      BY <1>e, <2>0, <2>1, <3>1
    <3>3. SeedFor(proc'[p])
      BY <3>1, <3>2 DEF SeedFor
    <3> QED
      BY <1>a, <2>0, <3>1, <3>3
  <2>2. CASE preserved[run] = <<>>
    <3>1. preserved' = [preserved EXCEPT ![run] = Created] /\ Moves(p, [stage |-> "appending"])
      BY <1>4, <2>2 DEF CreateDemo
    <3>2. proc'[p].stage = "appending" /\ proc'[p].next = proc[p].next
      BY <1>0, <3>1, FieldsOf
    <3>3. /\ DOMAIN preserved' = {"quiet", "delayed"}
          /\ \A r \in {"quiet", "delayed"} : preserved'[r] = IF r = run THEN Created ELSE preserved[r]
      BY <1>0, <3>1 DEF SeedInv
    <3>4. \A r \in {"quiet", "delayed"} : preserved[r] # <<>> => preserved'[r] # <<>>
      BY <3>3, Stories
    <3>5. SeedFor(proc[p])'
      BY <2>0, <3>2, <3>3, <3>4, Stories DEF SeedFor
    <3>6. \A q \in Processes : SeedFor(proc[q])'
      BY <1>0, <1>f, <3>1, <3>4, <3>5, MoveOf
    <3>7. ASSUME NEW i \in {1, 2}, preserved'[DemoRuns[i]] = Created
          PROVE  interruptions' > 0 \/ \E q \in Processes : Completes(proc'[q], i)
      <4>1. CASE i = proc[p].next
        BY <3>2, <4>1 DEF Completes
      <4>2. CASE i # proc[p].next
        <5>1. preserved[DemoRuns[i]] = Created
          BY <2>0, <3>3, <3>7, <4>2, TheDemoRuns
        <5>2. interruptions > 0 \/ \E q \in Processes : Completes(proc[q], i)
          BY <1>0, <5>1 DEF SeedInv
        <5>3. \A q \in Processes : Completes(proc[q], i) => proc'[q] = proc[q]
          BY <1>0, <2>0, <3>1, MoveOf DEF Completes
        <5> QED
          BY <2>0, <5>2, <5>3 DEF Completes
      <4> QED
        BY <4>1, <4>2
    <3> QED
      BY <1>0, <2>0, <3>3, <3>6, <3>7 DEF SeedInv, Completes
  <2> QED
    BY <2>1, <2>2
<1>5. ASSUME NEW p \in Processes, AppendDemo(p) PROVE SeedInv'
  <2> DEFINE run == DemoRuns[proc[p].next]
  <2>0. /\ proc[p].stage = "appending" /\ interruptions' = interruptions
        /\ proc[p].next \in {1, 2} /\ run \in {"quiet", "delayed"}
        /\ preserved[run] # <<>> /\ preserved[run] \in {Created, Story(run)}
    <3>1. proc[p].stage = "appending" /\ interruptions' = interruptions
      BY <1>5 DEF AppendDemo, At
    <3>2. proc[p].next \in {1, 2} /\ preserved[run] # <<>>
      BY <1>c, <3>1 DEF SeedFor
    <3>3. run \in {"quiet", "delayed"}
      BY <3>2, TheDemoRuns
    <3> QED
      BY <1>0, <3>1, <3>2, <3>3 DEF SeedInv
  <2>1. CASE preserved[run] = Created
    <3>1. preserved[run] \o DemoTail[run] = Story(run) /\ Len(preserved[run]) = 1 /\ Legal(Story(run))
      BY <2>0, <2>1, Stories DEF Story
    <3>2. preserved' = [preserved EXCEPT ![run] = Story(run)] /\ Moves(p, Seeded(p))
      BY <1>5, <3>1 DEF AppendDemo
    <3>3. /\ DOMAIN preserved' = {"quiet", "delayed"}
          /\ \A r \in {"quiet", "delayed"} : preserved'[r] = IF r = run THEN Story(r) ELSE preserved[r]
      BY <1>0, <2>0, <3>2 DEF SeedInv
    <3>4. /\ \A r \in {"quiet", "delayed"} : preserved[r] # <<>> => preserved'[r] # <<>>
          /\ preserved'[run] # <<>> /\ preserved'[run] # Created
      BY <2>0, <3>3, Stories
    <3>5. SeedFor(proc[p])'
      BY <1>e, <2>0, <3>2, <3>4
    <3>6. \A q \in Processes : SeedFor(proc[q])'
      BY <1>0, <1>f, <3>2, <3>4, <3>5, MoveOf
    <3>7. ASSUME NEW i \in {1, 2}, preserved'[DemoRuns[i]] = Created
          PROVE  interruptions' > 0 \/ \E q \in Processes : Completes(proc'[q], i)
      <4>1. i # proc[p].next
        BY <3>4, <3>7
      <4>2. preserved[DemoRuns[i]] = Created
        BY <2>0, <3>3, <3>7, <4>1, TheDemoRuns
      <4>3. interruptions > 0 \/ \E q \in Processes : Completes(proc[q], i)
        BY <1>0, <4>2 DEF SeedInv
      <4>4. \A q \in Processes : Completes(proc[q], i) => proc'[q] = proc[q]
        BY <1>0, <3>2, <4>1, MoveOf DEF Completes
      <4> QED
        BY <2>0, <4>3, <4>4 DEF Completes
    <3>8. \A r \in {"quiet", "delayed"} : preserved'[r] \in {<<>>, Created, Story(r)}
      BY <1>0, <3>3 DEF SeedInv
    <3> QED
      BY <1>0, <2>0, <3>3, <3>6, <3>7, <3>8 DEF SeedInv, Completes, Story
  <2>2. CASE preserved[run] # Created
    <3>1. Len(preserved[run]) # 1
      BY <2>0, <2>2, Stories
    <3>2. UNCHANGED preserved /\ Ends(p)
      BY <1>5, <3>1 DEF AppendDemo
    <3>3. proc'[p].stage = "down"
      BY <1>0, <3>2, EndOf DEF Down
    <3>4. SeedFor(proc[p])'
      BY <3>3 DEF SeedFor
    <3>5. \A q \in Processes : SeedFor(proc[q])'
      BY <1>0, <1>f, <3>2, <3>4, EndOf
    <3>6. ASSUME NEW i \in {1, 2}, preserved[DemoRuns[i]] = Created
          PROVE  interruptions > 0 \/ \E q \in Processes : Completes(proc'[q], i)
      <4>1. i # proc[p].next
        BY <2>2, <3>6
      <4>2. interruptions > 0 \/ \E q \in Processes : Completes(proc[q], i)
        BY <1>0, <3>6 DEF SeedInv
      <4> QED
        BY <1>0, <3>2, <4>1, <4>2, EndOf DEF Completes
    <3> QED
      BY <1>0, <2>0, <3>2, <3>5, <3>6 DEF SeedInv, Completes
  <2> QED
    BY <2>1, <2>2
<1>6. ASSUME NEW p \in Processes, Die(p) PROVE SeedInv'
  BY <1>6, <1>b DEF Die, Interrupts, tables
<1>7. ASSUME NEW p \in Processes, Exit(p) PROVE SeedInv'
  BY <1>7, <1>b DEF Exit, tables, At
<1>8. ASSUME NEW p \in Processes, Close(p) PROVE SeedInv'
  <2>1. /\ Moves(p, [stage |-> "closing"]) /\ UNCHANGED preserved /\ interruptions' = interruptions + 1
        /\ proc[p].stage = "listening"
    BY <1>8 DEF Close, Interrupts, tables, At
  <2>2. proc'[p].stage = "closing"
    BY <1>0, <2>1, FieldsOf
  <2>3. SeedFor(proc'[p])
    BY <1>c, <2>1, <2>2 DEF SeedFor
  <2> QED
    BY <1>0, <2>1, <2>3, MoveOf, SeedStays
<1>9. ASSUME NEW p \in Processes, Tick(p) \/ TickWaits(p) PROVE SeedInv'
  <2>0. UNCHANGED <<preserved, interruptions>> /\ proc[p].stage = "listening"
    BY <1>9 DEF Tick, TickWaits, tables, At
  <2>1. PICK to : Moves(p, to) /\ "stage" \notin DOMAIN to
    BY <1>9 DEF Tick, TickWaits
  <2>2. proc'[p].stage = proc[p].stage
    BY <1>0, <2>1, FieldsOf
  <2>3. SeedFor(proc'[p])
    BY <1>c, <2>0, <2>2 DEF SeedFor
  <2> QED
    BY <1>a, <2>0, <2>1, <2>3
<1>10. CASE UNCHANGED <<preserved, proc, interruptions>>
  BY <1>0, <1>10 DEF SeedInv, SeedFor, Completes
<1>11. CASE Pass
  <2>1. \A p \in Processes : proc'[p].stage = proc[p].stage /\ proc'[p].next = proc[p].next
    BY <1>0, <1>11 DEF Pass, TypeInv, ProcessStates
  <2>2. UNCHANGED <<preserved, interruptions>>
    BY <1>11 DEF Pass, tables
  <2> QED
    BY <1>0, <2>1, <2>2 DEF SeedInv, SeedFor, Completes
<1>12. (\E p \in Processes : Deliver(p)) \/ UNCHANGED vars => UNCHANGED <<preserved, proc, interruptions>>
  BY DeliverKeeps DEF vars
<1> QED
  BY <1>1, <1>2, <1>3, <1>4, <1>5, <1>6, <1>7, <1>8, <1>9, <1>10, <1>11, <1>12, Steps

-----------------------------------------------------------------------------

\* A delivery with a defect is never accepted, and no defect has the status of a
\* run that was created.
LEMMA Inspected ==
  ASSUME NEW flaws \in Flaws
  PROVE  /\ Inspect(flaws) = "accepted" <=> flaws = {}
         /\ Inspect(flaws) \notin {"created", "replayed", "409"}
<1> DEFINE failing == {i \in DOMAIN IntakeChecks : IntakeChecks[i].defect \in flaws}
           first   == CHOOSE i \in failing : \A j \in failing : i <= j
<1>1. CASE flaws = {}
  BY <1>1 DEF Inspect
<1>2. CASE flaws # {}
  <2>1. DOMAIN IntakeChecks = 1..10
    BY DEF IntakeChecks
  <2>2. failing # {} /\ failing \subseteq 1..10
    <3>1. PICK flaw \in flaws : flaw \in Defects
      BY <1>2, ServerAssumption
    <3>2. PICK i \in DOMAIN IntakeChecks : IntakeChecks[i].defect = flaw
      BY <3>1 DEF Defects
    <3> QED
      BY <2>1, <3>1, <3>2
  <2>3. \E i \in failing : \A j \in failing : i <= j
    <3> HIDE DEF failing
    <3> QED
      <4>1. failing # {} /\ failing \subseteq Nat
        BY <2>2
      <4>2. PICK i \in failing : \A j \in failing : ~ (<<j, i>> \in OpToRel(<, Nat))
        BY <4>1, WFMin, NatLessThanWellFounded, Zenon
      <4>3. \A j \in failing : ~ (j < i)
        BY <4>1, <4>2, Zenon DEF OpToRel
      <4> QED
        BY <4>1, <4>3
  <2>4. first \in failing
    <3> HIDE DEF failing
    <3> QED
      BY <2>3, Zenon
  <2>5. first \in 1..10
    BY <2>2, <2>4
  <2>6. Inspect(flaws) = IntakeChecks[first].status
    BY <1>2 DEF Inspect
  <2>7. \A i \in 1..10 : IntakeChecks[i].status \notin {"accepted", "created", "replayed", "409"}
    <3>1. /\ IntakeChecks[1].status = "415" /\ IntakeChecks[2].status = "413"
          /\ IntakeChecks[3].status = "401" /\ IntakeChecks[4].status = "400"
          /\ IntakeChecks[5].status = "ignored" /\ IntakeChecks[6].status = "400"
          /\ IntakeChecks[7].status = "ignored" /\ IntakeChecks[8].status = "ignored"
          /\ IntakeChecks[9].status = "ignored" /\ IntakeChecks[10].status = "ignored"
      BY DEF IntakeChecks
    <3> QED
      BY <3>1
  <2> HIDE DEF first
  <2> QED
    BY <1>2, <2>5, <2>6, <2>7
<1> QED
  BY <1>1, <1>2

LEMMA DeliveriesStep == ServerInv /\ [Next]_vars => DeliveriesBecomeOneRun'
<1> SUFFICES ASSUME ServerInv, [Next]_vars PROVE DeliveriesBecomeOneRun'
  OBVIOUS
<1>0. DeliveriesBecomeOneRun
  BY DEF ServerInv
<1>1. CASE UNCHANGED <<runs, answer>>
  BY <1>0, <1>1 DEF DeliveriesBecomeOneRun
<1>2. ASSUME NEW p \in Processes, Deliver(p) PROVE DeliveriesBecomeOneRun'
  <2>1. PICK id \in Deliveries, commit \in Candidates, flaws \in Flaws :
          LET request == [delivery |-> id, commit |-> commit, profile |-> Profile(Env(p))]
              known   == {row \in runs : row.delivery = id}
              status  == IF Inspect(flaws) # "accepted" THEN Inspect(flaws)
                         ELSE IF known = {} THEN "created"
                         ELSE IF \A row \in known : SameTrigger(row, request) THEN "replayed"
                         ELSE "409"
          IN /\ runs' = IF status = "created" THEN runs \cup {request} ELSE runs
             /\ answer' = IF Inspect(flaws) = "accepted"
                          THEN [delivery |-> id, commit |-> commit, profile |-> Profile(Env(p)),
                                flawless |-> flaws = {}, status |-> status]
                          ELSE answer
    BY <1>2 DEF Deliver
  <2> DEFINE request == [delivery |-> id, commit |-> commit, profile |-> Profile(Env(p))]
             known   == {row \in runs : row.delivery = id}
  <2>2. CASE flaws # {}
    <3>1. Inspect(flaws) # "accepted" /\ Inspect(flaws) # "created"
      BY <2>2, Inspected
    <3> QED
      BY <1>1, <2>1, <3>1
  <2>3. CASE flaws = {} /\ known = {}
    <3>1. Inspect(flaws) = "accepted"
      BY <2>3, Inspected
    <3>2. /\ runs' = runs \cup {request}
          /\ answer' = [delivery |-> id, commit |-> commit, profile |-> Profile(Env(p)),
                        flawless |-> flaws = {}, status |-> "created"]
      BY <2>1, <2>3, <3>1
    <3>3. \A row \in runs : row.delivery # request.delivery
      BY <2>3
    <3>4. \A a, b \in runs' : a.delivery = b.delivery => a = b
      BY <1>0, <3>2, <3>3 DEF DeliveriesBecomeOneRun
    <3>5. /\ answer'.flawless /\ answer'.status = "created"
          /\ [delivery |-> answer'.delivery, commit |-> answer'.commit, profile |-> answer'.profile] \in runs'
      BY <2>3, <3>2
    <3> QED
      BY <3>4, <3>5 DEF DeliveriesBecomeOneRun
  <2>4. CASE flaws = {} /\ known # {}
    <3>1. Inspect(flaws) = "accepted"
      BY <2>4, Inspected
    <3>2. CASE \A row \in known : SameTrigger(row, request)
      <4>1. /\ runs' = runs
            /\ answer' = [delivery |-> id, commit |-> commit, profile |-> Profile(Env(p)),
                          flawless |-> flaws = {}, status |-> "replayed"]
        BY <2>1, <2>4, <3>1, <3>2
      <4>2. request \in runs
        BY <2>4, <3>2 DEF SameTrigger
      <4> QED
        BY <1>0, <2>4, <4>1, <4>2 DEF DeliveriesBecomeOneRun
    <3>3. CASE ~ \A row \in known : SameTrigger(row, request)
      <4>1. /\ runs' = runs
            /\ answer' = [delivery |-> id, commit |-> commit, profile |-> Profile(Env(p)),
                          flawless |-> flaws = {}, status |-> "409"]
        BY <2>1, <2>4, <3>1, <3>3
      <4>2. PICK row \in runs : row.delivery = id /\ row # request
        BY <3>3 DEF SameTrigger
      <4>3. request \notin runs
        BY <1>0, <4>2 DEF DeliveriesBecomeOneRun
      <4> QED
        BY <1>0, <4>1, <4>2, <4>3 DEF DeliveriesBecomeOneRun
    <3> QED
      BY <3>2, <3>3
  <2> QED
    BY <2>2, <2>3, <2>4
<1>3. (\A p \in Processes : ~ Deliver(p)) => UNCHANGED <<runs, answer>>
  BY DEF Next, StartStep, Start, ReadVersions, Migrate, CheckInbox, SeedEvaluations, CreateDemo,
         AppendDemo, Die, Close, Exit, Tick, TickWaits, Pass, tables, vars
<1> QED
  BY <1>1, <1>2, <1>3

-----------------------------------------------------------------------------
(* The theorems.                                                           *)

LEMMA ServerInvariant == Spec => []ServerInv
<1>1. ServerInv /\ [Next]_vars => ServerInv'
  BY TypeStep, SchemaStep, EnvStep, SeedStep, DeliveriesStep DEF ServerInv
<1> QED
  BY <1>1, InitInv, PTL DEF Spec

\* However many processes start over one file, each version is applied once and in
\* its order, and no table is read before all are there.
THEOREM SchemaAlwaysWhole == Spec => []SchemaIsWhole
<1>1. ServerInv => SchemaIsWhole
  <2> SUFFICES ASSUME ServerInv PROVE SchemaIsWhole
    OBVIOUS
  <2>1. SchemaInv
    BY DEF ServerInv
  <2>2. IsPrefix(schema, Whole)
    <3>1. CASE schema = <<>>
      <4>1. Len(schema) = 0 /\ Len(Whole) = 2
        BY <3>1 DEF Whole
      <4>2. SubSeq(schema, 1, 0) = <<>> /\ SubSeq(Whole, 1, 0) = <<>>
        BY SubSeqEmpty
      <4> QED
        BY <4>1, <4>2 DEF IsPrefix
    <3>2. CASE schema = <<1>>
      <4> DEFINE s == SubSeq(schema, 1, 1)
                 t == SubSeq(Whole, 1, 1)
      <4>1. Len(schema) = 1 /\ Len(Whole) = 2 /\ schema[1] = 1 /\ Whole[1] = 1
        BY <3>2 DEF Whole
      <4>2. s \in Seq(Nat) /\ Len(s) = 1 /\ s[1] = 1 /\ t \in Seq(Nat) /\ Len(t) = 1 /\ t[1] = 1
        BY <4>1, SubSeqProperties
      <4> HIDE DEF s, t
      <4>3. \A i \in 1..Len(s) : s[i] = t[i]
        BY <4>2
      <4>4. s = t
        BY <4>2, <4>3, SeqEqual
      <4> QED
        BY <4>1, <4>4 DEF IsPrefix, s, t
    <3>3. CASE schema = Whole
      BY <3>3 DEF IsPrefix, Whole
    <3> QED
      BY <2>1, <3>1, <3>2, <3>3 DEF SchemaInv
  <2> QED
    BY <2>1, <2>2 DEF SchemaInv, SchemaFor, SchemaIsWhole
<1> QED
  BY <1>1, ServerInvariant, PTL

\* A process that says it is ready has everything the public runtime is built of,
\* for every set of environments.
THEOREM ReadyAlwaysComplete == Spec => []ReadyIsComplete
<1>1. ServerInv => ReadyIsComplete
  <2> SUFFICES ASSUME ServerInv, NEW p \in Processes, Ready(p)
               PROVE  /\ schema = Whole
                      /\ batches > 0
                      /\ FixedPublicRuntime(Env(p)) /\ HasMarker(Env(p))
                      /\ HasIntake(Env(p)) /\ HasDecision(Env(p))
                      /\ Given(Env(p), "issueToken") /\ Given(Env(p), "model")
                      /\ On(Env(p), "single")
    BY DEF ReadyIsComplete
  <2>1. proc[p].stage = "listening" /\ HasWorker(Env(p))
    BY DEF Ready, At
  <2>2. schema = Whole
    BY <2>1 DEF ServerInv, SchemaInv, SchemaFor
  <2>3. batches > 0 /\ ~ Refused(Env(p))
    BY <2>1 DEF ServerInv, EnvInv, Env
  <2>4. /\ FixedPublicRuntime(Env(p)) /\ On(Env(p), "webhook")
        /\ Given(Env(p), "operator") /\ Given(Env(p), "issueToken") /\ On(Env(p), "single")
        /\ Given(Env(p), "model")
    <3> DEFINE env == Env(p)
    <3>1. Refusals(env) = {} /\ On(env, "worker") /\ Given(env, "model")
      BY <2>1, <2>3 DEF Refused, ModelIsMissing, HasWorker
    <3> HIDE DEF env
    <3>2. {reason \in {"runtime"} : On(env, "worker") /\ ~ FixedPublicRuntime(env)} = {}
      BY <3>1 DEF Refusals
    <3>3. {reason \in {"intake"} : On(env, "worker") /\ ~ On(env, "webhook")} = {}
      BY <3>1 DEF Refusals
    <3>4. {name \in {"operator", "issueToken", "profile"} : On(env, "worker") /\ ~ Given(env, name)} = {}
      BY <3>1 DEF Refusals
    <3>5. {reason \in {"replicas"} : On(env, "worker") /\ ~ On(env, "single")} = {}
      BY <3>1 DEF Refusals
    <3>6. /\ FixedPublicRuntime(env) /\ On(env, "webhook")
          /\ Given(env, "operator") /\ Given(env, "issueToken") /\ On(env, "single")
          /\ Given(env, "model")
      BY <3>1, <3>2, <3>3, <3>4, <3>5
    <3> QED
      BY <3>6 DEF env
  <2> QED
    BY <2>2, <2>3, <2>4 DEF HasMarker, HasIntake, HasDecision, FixedPublicRuntime
<1> QED
  BY <1>1, ServerInvariant, PTL

\* A delivery of GitHub makes one run, whichever process it reaches, with whatever
\* defects and under whatever profile, and its answers are true of that run.
THEOREM DeliveriesAlwaysOneRun == Spec => []DeliveriesBecomeOneRun
<1>1. ServerInv => DeliveriesBecomeOneRun
  BY DEF ServerInv
<1> QED
  BY <1>1, ServerInvariant, PTL

\* A server that listens shows both demo runs, and one of them is left at its
\* trigger only by a process that ended between its two transactions.
THEOREM SeedAlwaysWhole == Spec => []SeedIsWhole
<1>1. ServerInv => SeedIsWhole
  <2> SUFFICES ASSUME ServerInv PROVE SeedIsWhole
    OBVIOUS
  <2>1. SeedInv /\ DOMAIN DemoRuns = {1, 2}
    BY TheDemoRuns DEF ServerInv, DemoRuns
  <2> QED
    BY <2>1, TheDemoRuns DEF SeedInv, SeedFor, Completes, SeedIsWhole, Serves, At
<1> QED
  BY <1>1, ServerInvariant, PTL

=============================================================================
