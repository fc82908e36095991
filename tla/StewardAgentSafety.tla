-------------------------- MODULE StewardAgentSafety --------------------------
(***************************************************************************)
(* Theorems about an invocation of the steward's agent, for every set of   *)
(* commits, every way the providers may change between two requests, every *)
(* set of failures, and any number of changes and invocations.             *)
(***************************************************************************)
EXTENDS StewardAgentProperties, SequenceTheorems, TLAPS

-----------------------------------------------------------------------------
(* The invariant.                                                          *)

\* What was so at some moment of the invocation, or first so and then so.
WasMain(c)      == \E i \in DOMAIN history : history[i].main = c
Ran(c)          == \E i \in DOMAIN history : history[i].deployed = c
Showed(page)    == \E i \in DOMAIN history : history[i].page = page
MainThenCI(c, x) == \E i, j \in DOMAIN history :
                      i <= j /\ history[i].main = c /\ history[j].ci[c] = x
MainThenPage(c) == \E i, j \in DOMAIN history :
                      i <= j /\ history[i].main = c /\ history[j].page = "product"
RanThenPage(c)  == \E i, j \in DOMAIN history :
                      i <= j /\ history[i].deployed = c /\ history[j].page = "product"

HistoryInv == history \in Seq(WorldStates) /\ history # <<>>

\* Which tool runs, and that an invocation that goes on has no result.
ControlInv ==
    /\ phase \in Phases
    /\ violated \in BOOLEAN
    /\ pc \in {"commit", "runs", "bundle"} => tool \in {"source", "ci"}
    /\ pc \in {"deployment", "smoke", "recheck", "incident"} => tool = pc /\ pc \in called
    /\ pc \in {"incident", "posted"} => phase = "ESCALATION_RESUME"
    /\ pc # "ended" => outcome = NoOutcome

\* The shared collection: a commit that was on main, and then its own CI.
SharedInv ==
    /\ shared = [status |-> shared.status, source |-> shared.source,
                 ci |-> shared.ci, error |-> shared.error]
    /\ shared.status \in {"none", "resolved", "rejected"}
    /\ pc \in {"commit", "runs"} => shared.status = "none"
    /\ pc = "bundle" => shared.status # "none"
    /\ pc = "runs" => shared.source \in Commits /\ WasMain(shared.source)
    /\ shared.status = "resolved" => /\ shared.source \in Commits
                                     /\ shared.ci \in {"success", "failure"}
                                     /\ MainThenCI(shared.source, shared.ci)
    /\ shared.status = "rejected" => shared.error.from = "github"

ReceiptInv(r) ==
    /\ r.tool \in {"source", "ci"} => shared.status = "resolved" /\ r.head = shared.source
    /\ r.tool = "source" => r.value = shared.source
    /\ r.tool = "ci" => r.value = shared.ci
    /\ r.tool = "deployment" => r.value \in Commits /\ Ran(r.value)

Values   == Commits \cup {"success", "failure", "healthy", "proposal"}
Receipts == [tool : {"source", "ci", "deployment", "smoke", "recheck"}, value : Values, head : Values]

\* The receipts are true, and a page that was healthy was so after what stands
\* before it.
ReceiptsInv ==
    /\ receipts \in Seq(Receipts)
    /\ \A i \in DOMAIN receipts : ReceiptInv(receipts[i])
    /\ \A i, j \in DOMAIN receipts : i < j /\ receipts[j].tool = "smoke" =>
         /\ receipts[i].tool = "source"     => MainThenPage(receipts[i].value)
         /\ receipts[i].tool = "deployment" => RanThenPage(receipts[i].value)

\* An error that counts against the release was seen.
Witnessed(e) ==
    /\ e = DeploymentError("responseInvalid") => Ran(Garbled)
    /\ e = HomepageError("unhealthy") => Showed("other")

ErrorInv == pc = "failed" => Witnessed(error)

\* Each provider is asked by a tool that was called, and no tool is called twice.
AskedInv ==
    /\ asked \in [{"github", "deployment", "homepage"} -> 0..1]
    /\ asked["deployment"] = 1 => "deployment" \in called /\ pc # "deployment"
    /\ asked["homepage"] = 1 => "smoke" \in called /\ pc # "smoke"
    /\ asked["github"] = 1 => shared.status # "none" \/ pc = "runs"

\* The incident of the last phase, and what the provider did with it.
IncidentInv ==
    /\ posts \in 0..1 /\ issues \in Nat /\ refusals \in Nat
    /\ phase \in ObservationPhases => posts = 0
    /\ posts = 1 => "incident" \in called /\ pc # "incident"
    /\ action \in {"NONE", "CONFIRMED", "REJECTED", "UNCERTAIN"}
    /\ action = "CONFIRMED" => issues > 0
    /\ action = "REJECTED" => refusals > 0

AgentInv ==
    /\ HistoryInv /\ ControlInv /\ SharedInv /\ ReceiptsInv
    /\ ErrorInv /\ AskedInv /\ IncidentInv

USE DEF Phases, ObservationPhases

-----------------------------------------------------------------------------
(* The history.                                                            *)

LEMMA PresentIsLast ==
  ASSUME HistoryInv
  PROVE  /\ Len(history) \in DOMAIN history
         /\ World \in WorldStates
         /\ \A i \in DOMAIN history : i <= Len(history)
  BY DEF HistoryInv, World

\* What was so stays so when the world moves.
LEMMA HistoryGrows ==
  ASSUME HistoryInv, HistoryInv', WorldMoves \/ UNCHANGED history
  PROVE  /\ \A c : /\ WasMain(c) => WasMain(c)'
                   /\ Ran(c) => Ran(c)'
                   /\ Showed(c) => Showed(c)'
                   /\ MainThenPage(c) => MainThenPage(c)'
                   /\ RanThenPage(c) => RanThenPage(c)'
         /\ \A c, x : MainThenCI(c, x) => MainThenCI(c, x)'
<1>1. DOMAIN history \subseteq DOMAIN history'
      /\ \A i \in DOMAIN history : history'[i] = history[i]
  BY DEF HistoryInv, WorldMoves
<1> QED
  BY <1>1 DEF WasMain, Ran, Showed, MainThenPage, RanThenPage, MainThenCI

LEMMA HistoryStep == AgentInv /\ [Next]_vars => HistoryInv'
<1> SUFFICES ASSUME AgentInv, [Next]_vars PROVE HistoryInv'
  OBVIOUS
<1>1. CASE WorldMoves
  <2>1. PICK w \in Moves(World) : history' = Append(history, w)
    BY <1>1 DEF WorldMoves
  <2>2. w \in WorldStates
    BY <2>1, PresentIsLast, AgentAssumption DEF AgentInv
  <2> QED
    BY <2>1, <2>2 DEF AgentInv, HistoryInv
<1>2. CASE Again
  BY <1>2, PresentIsLast DEF Again, AgentInv, HistoryInv
<1>3. CASE UNCHANGED history
  BY <1>3 DEF AgentInv, HistoryInv
<1>4. WorldMoves \/ Again \/ UNCHANGED history
  BY DEF Next, vars, ProviderAccepts, ProviderRefuses, ModelCalls, ModelFails, ModelEnds, End,
         ToolStep, UseBundle, ProposeRecheck, ShowError, ThrowError, Post, CollectCommit,
         CollectRuns, ReadDeployment, ReadHomepage, PostAnswered, ToolUnchanged
<1> QED
  BY <1>1, <1>2, <1>3, <1>4

-----------------------------------------------------------------------------
(* Every step keeps the invariant.                                         *)

LEMMA InitInv == Init => AgentInv
<1> SUFFICES ASSUME Init PROVE AgentInv
  OBVIOUS
<1>1. HistoryInv
  <2>1. PICK w \in Worlds : history = <<w>>
    BY DEF Init
  <2> QED
    BY <2>1, AgentAssumption DEF HistoryInv
<1>2. ControlInv /\ SharedInv
  BY DEF Init, Fresh, ControlInv, SharedInv, NoBundle
<1>3. ReceiptsInv
  BY DEF Init, Fresh, ReceiptsInv
<1>4. ErrorInv /\ AskedInv /\ IncidentInv
  BY DEF Init, Fresh, ErrorInv, AskedInv, IncidentInv
<1> QED
  BY <1>1, <1>2, <1>3, <1>4 DEF AgentInv

\* A call the budget lets through is one of the phase's tools, for the first time.
LEMMA CallsAreAllowed ==
  ASSUME NEW name, ModelCalls(name), phase \in Phases
  PROVE  \/ violated' = TRUE /\ UNCHANGED <<pc, tool, called>>
         \/ /\ UNCHANGED violated /\ called' = called \cup {name} /\ tool' = name
            /\ name \notin called /\ pc' = Entry(name)
            /\ name \in {"source", "ci", "deployment", "smoke", "recheck", "incident"}
            /\ name = "incident" <=> phase = "ESCALATION_RESUME"
<1>1. CASE Rejects(name)
  BY <1>1 DEF ModelCalls
<1>2. CASE ~ Rejects(name)
  <2>1. name \in PhaseTools(phase) /\ name \notin called
    BY <1>2 DEF Rejects
  <2>2. /\ name \in {"source", "ci", "deployment", "smoke", "recheck", "incident"}
        /\ name = "incident" <=> phase = "ESCALATION_RESUME"
    BY <2>1 DEF PhaseTools
  <2> QED
    BY <1>2, <2>1, <2>2 DEF ModelCalls
<1> QED
  BY <1>1, <1>2

LEMMA EntryOf ==
  /\ \A name \in {"source", "ci"} : Entry(name) = IF shared.status = "none" THEN "commit" ELSE "bundle"
  /\ \A name \in {"deployment", "smoke", "recheck", "incident"} : Entry(name) = name
  BY DEF Entry

LEMMA ControlStep == AgentInv /\ [Next]_vars => ControlInv'
<1> SUFFICES ASSUME AgentInv, [Next]_vars PROVE ControlInv'
  OBVIOUS
<1> USE DEF ControlInv
<1>0. ControlInv
  BY DEF AgentInv
<1>1. CASE WorldMoves \/ ProviderAccepts \/ ProviderRefuses \/ UNCHANGED vars
  BY <1>0, <1>1 DEF WorldMoves, ProviderAccepts, ProviderRefuses, vars, agentVars
<1>2. ASSUME NEW name \in Tools, ModelCalls(name) PROVE ControlInv'
  <2>1. UNCHANGED <<phase, outcome>> /\ pc = "model"
    BY <1>2 DEF ModelCalls
  <2> QED
    <3>1. CASE violated' = TRUE /\ UNCHANGED <<pc, tool, called>>
      BY <1>0, <2>1, <3>1
    <3>2. CASE /\ UNCHANGED violated /\ called' = called \cup {name} /\ tool' = name
               /\ name \notin called /\ pc' = Entry(name)
               /\ name \in {"source", "ci", "deployment", "smoke", "recheck", "incident"}
               /\ name = "incident" <=> phase = "ESCALATION_RESUME"
      <4>1. /\ name \in {"source", "ci"} => pc' \in {"commit", "bundle"}
            /\ name \notin {"source", "ci"} => pc' = name
        BY <3>2, EntryOf
      <4> QED
        BY <1>0, <2>1, <3>2, <4>1
    <3> QED
      BY <1>0, <1>2, <3>1, <3>2, CallsAreAllowed
<1>3. CASE ModelFails \/ ModelEnds \/ ThrowError
  BY <1>0, <1>3 DEF ModelFails, ModelEnds, ThrowError, End
<1>4. CASE UseBundle \/ ProposeRecheck \/ ShowError \/ Post
  BY <1>0, <1>4 DEF UseBundle, ProposeRecheck, ShowError, Post, Record, Throw, ToolUnchanged
<1>5. ASSUME NEW answer,
             CollectCommit(answer) \/ CollectRuns(answer) \/ ReadDeployment(answer) \/ ReadHomepage(answer)
      PROVE  ControlInv'
  BY <1>0, <1>5 DEF CollectCommit, CollectRuns, ReadDeployment, ReadHomepage, Record, Throw, ToolUnchanged
<1>6. ASSUME NEW answer, PostAnswered(answer) PROVE ControlInv'
  BY <1>0, <1>6 DEF PostAnswered
<1>7. CASE Again
  BY <1>0, <1>7 DEF Again
<1> QED
  BY <1>1, <1>2, <1>3, <1>4, <1>5, <1>6, <1>7 DEF Next, ToolStep

LEMMA SharedStep == AgentInv /\ [Next]_vars => SharedInv'
<1> SUFFICES ASSUME AgentInv, [Next]_vars PROVE SharedInv'
  OBVIOUS
<1>0. SharedInv /\ ControlInv /\ HistoryInv /\ HistoryInv'
  BY HistoryStep DEF AgentInv
<1>a. ASSUME UNCHANGED <<shared, history>>, pc' \in {"commit", "runs"} => pc' = pc,
             pc' = "bundle" => shared.status # "none"
      PROVE  SharedInv'
  BY <1>0, <1>a DEF SharedInv, WasMain, MainThenCI
<1>1. CASE WorldMoves
  BY <1>0, <1>1, HistoryGrows DEF SharedInv, WorldMoves, agentVars
<1>2. CASE ProviderAccepts \/ ProviderRefuses \/ UNCHANGED vars
  BY <1>0, <1>2, <1>a DEF SharedInv, ProviderAccepts, ProviderRefuses, vars, agentVars
<1>3. ASSUME NEW name \in Tools, ModelCalls(name) PROVE SharedInv'
  <2>1. UNCHANGED <<shared, history>> /\ pc = "model"
    BY <1>3 DEF ModelCalls
  <2>2. pc' = "runs" => FALSE
    BY <1>0, <1>3, <2>1, CallsAreAllowed, EntryOf DEF ControlInv
  <2>3. /\ pc' = "commit" => shared.status = "none"
        /\ pc' = "bundle" => shared.status # "none"
    BY <1>0, <1>3, <2>1, CallsAreAllowed, EntryOf DEF ControlInv
  <2> QED
    BY <1>0, <2>1, <2>2, <2>3 DEF SharedInv, MainThenCI
<1>4. CASE ModelFails \/ ModelEnds \/ ThrowError
  BY <1>a, <1>4 DEF ModelFails, ModelEnds, ThrowError, End
<1>5. CASE UseBundle \/ ProposeRecheck \/ ShowError \/ Post
  BY <1>a, <1>5 DEF UseBundle, ProposeRecheck, ShowError, Post, Record, Throw, ToolUnchanged
<1>6. ASSUME NEW answer, ReadDeployment(answer) \/ ReadHomepage(answer) \/ PostAnswered(answer)
      PROVE  SharedInv'
  BY <1>a, <1>6 DEF ReadDeployment, ReadHomepage, PostAnswered, Record, Throw, ToolUnchanged
<1>7. ASSUME NEW answer \in Failing \cup {"complete"}, CollectCommit(answer) PROVE SharedInv'
  <2>1. UNCHANGED history
    BY <1>7 DEF CollectCommit, ToolUnchanged
  <2>2. CASE answer = "complete"
    <3>1. shared' = [NoBundle EXCEPT !.source = World.main] /\ pc' = "runs"
      BY <1>7, <2>2 DEF CollectCommit
    <3>2. World.main \in Commits /\ WasMain(World.main)
      BY <1>0, PresentIsLast DEF WasMain, World, WorldStates
    <3>3. WasMain(World.main)'
      BY <2>1, <3>2 DEF WasMain, World
    <3>4. /\ shared'.source = World.main /\ shared'.status = "none"
          /\ shared' = [status |-> shared'.status, source |-> shared'.source,
                        ci |-> shared'.ci, error |-> shared'.error]
      BY <3>1 DEF NoBundle
    <3>5. WasMain(shared.source)'
      BY <2>1, <3>2, <3>4 DEF WasMain
    <3> QED
      BY <3>1, <3>2, <3>4, <3>5 DEF SharedInv
  <2>3. CASE answer # "complete"
    <3>1. pc' = "bundle" /\ shared' = [NoBundle EXCEPT !.status = "rejected",
                                                       !.error = GitHubError(GitHubCode[answer])]
      BY <1>7, <2>3 DEF CollectCommit
    <3> QED
      BY <3>1 DEF SharedInv, NoBundle, GitHubError
  <2> QED
    BY <2>2, <2>3
<1>8. ASSUME NEW answer \in Failing \cup {"complete"}, CollectRuns(answer) PROVE SharedInv'
  <2> DEFINE conclusion == World.ci[shared.source]
             code == IF answer # "complete" THEN GitHubCode[answer] ELSE "workflowNotFound"
  <2>1. /\ pc = "runs" /\ pc' = "bundle" /\ UNCHANGED history
        /\ shared' = IF answer = "complete" /\ conclusion # "running"
                       THEN [shared EXCEPT !.status = "resolved", !.ci = conclusion]
                       ELSE [shared EXCEPT !.status = "rejected", !.error = GitHubError(code)]
    BY <1>8 DEF CollectRuns, ToolUnchanged
  <2>2. shared.source \in Commits /\ WasMain(shared.source) /\ shared.status = "none"
    BY <1>0, <2>1 DEF SharedInv
  <2>3. conclusion \in {"success", "failure", "running"}
    BY <1>0, <2>2, PresentIsLast DEF WorldStates
  <2>4. MainThenCI(shared.source, conclusion)
    BY <1>0, <2>2, PresentIsLast DEF WasMain, MainThenCI, World
  <2>5. CASE answer = "complete" /\ conclusion # "running"
    <3>1. shared' = [shared EXCEPT !.status = "resolved", !.ci = conclusion]
      BY <2>1, <2>5
    <3>2. /\ shared'.source = shared.source /\ shared'.ci = conclusion /\ shared'.status = "resolved"
          /\ shared' = [status |-> shared'.status, source |-> shared'.source,
                        ci |-> shared'.ci, error |-> shared'.error]
      BY <1>0, <3>1 DEF SharedInv
    <3>3. MainThenCI(shared.source, shared.ci)'
      BY <2>1, <2>4, <3>2 DEF MainThenCI
    <3> HIDE DEF conclusion
    <3> QED
      BY <2>1, <2>2, <2>3, <2>5, <3>2, <3>3 DEF SharedInv
  <2>6. CASE ~ (answer = "complete" /\ conclusion # "running")
    <3>1. shared' = [shared EXCEPT !.status = "rejected", !.error = GitHubError(code)]
      BY <2>1, <2>6
    <3>2. GitHubError(code).from = "github"
      BY DEF GitHubError
    <3> HIDE DEF code
    <3> QED
      BY <1>0, <2>1, <3>1, <3>2 DEF SharedInv
  <2> QED
    BY <2>5, <2>6
<1>9. CASE Again
  BY <1>9 DEF Again, SharedInv, NoBundle, NoError, Plain
<1> QED
  BY <1>1, <1>2, <1>3, <1>4, <1>5, <1>6, <1>7, <1>8, <1>9 DEF Next, ToolStep

\* A true receipt may follow the others; one of a healthy page is recorded while
\* the page is healthy.
LEMMA RecordKeeps ==
  ASSUME NEW r \in Receipts, HistoryInv, SharedInv, ReceiptsInv, UNCHANGED <<history, shared>>,
         receipts' = Append(receipts, r), ReceiptInv(r),
         r.tool = "smoke" => World.page = "product"
  PROVE  ReceiptsInv'
<1>1. /\ receipts' \in Seq(Receipts) /\ Len(receipts') = Len(receipts) + 1
      /\ \A i \in DOMAIN receipts : receipts'[i] = receipts[i]
      /\ receipts'[Len(receipts) + 1] = r /\ Len(receipts) \in Nat
      /\ DOMAIN receipts = 1..Len(receipts) /\ DOMAIN receipts' = 1..(Len(receipts) + 1)
  BY DEF ReceiptsInv
<1>2. ASSUME NEW i \in DOMAIN receipts' PROVE ReceiptInv(receipts'[i])
  BY <1>1 DEF ReceiptsInv
<1>3. \A q : ReceiptInv(q) => ReceiptInv(q)'
  BY DEF ReceiptInv, Ran
<1>4. \A i \in DOMAIN receipts' : ReceiptInv(receipts[i])'
  BY <1>2, <1>3
<1>5. ASSUME NEW i \in DOMAIN receipts', NEW j \in DOMAIN receipts', i < j, receipts'[j].tool = "smoke"
      PROVE  /\ receipts'[i].tool = "source"     => MainThenPage(receipts'[i].value)
             /\ receipts'[i].tool = "deployment" => RanThenPage(receipts'[i].value)
  <2>1. CASE j \in DOMAIN receipts
    BY <1>1, <1>5, <2>1 DEF ReceiptsInv
  <2>2. CASE j = Len(receipts) + 1
    <3>1. i \in DOMAIN receipts /\ World.page = "product" /\ receipts'[i] = receipts[i]
      BY <1>1, <1>5, <2>2
    <3>2. ReceiptInv(receipts[i])
      BY <3>1 DEF ReceiptsInv
    <3>3. receipts[i].tool = "source" => WasMain(receipts[i].value)
      BY <3>2 DEF ReceiptInv, SharedInv, MainThenCI, WasMain
    <3> QED
      BY <3>1, <3>2, <3>3, PresentIsLast DEF ReceiptInv, WasMain, Ran, MainThenPage, RanThenPage, World
  <2> QED
    BY <1>1, <2>1, <2>2
<1>6. \A c : (MainThenPage(c) <=> MainThenPage(c)') /\ (RanThenPage(c) <=> RanThenPage(c)')
  BY DEF MainThenPage, RanThenPage
<1>7. \A i, j \in DOMAIN receipts' : i < j /\ receipts'[j].tool = "smoke" =>
         /\ receipts'[i].tool = "source"     => MainThenPage(receipts[i].value)'
         /\ receipts'[i].tool = "deployment" => RanThenPage(receipts[i].value)'
  BY <1>5, <1>6
<1> QED
  BY <1>1, <1>4, <1>7 DEF ReceiptsInv

LEMMA ReceiptsStep == AgentInv /\ [Next]_vars => ReceiptsInv'
<1> SUFFICES ASSUME AgentInv, [Next]_vars PROVE ReceiptsInv'
  OBVIOUS
<1>0. HistoryInv /\ HistoryInv' /\ ControlInv /\ SharedInv /\ ReceiptsInv
  BY HistoryStep DEF AgentInv
<1>a. ASSUME UNCHANGED <<shared, receipts, history>> PROVE ReceiptsInv'
  BY <1>0, <1>a DEF ReceiptsInv, ReceiptInv, Ran, MainThenPage, RanThenPage
<1>1. CASE WorldMoves
  <2>1. UNCHANGED <<shared, receipts>>
    BY <1>1 DEF WorldMoves, agentVars
  <2>2. \A i \in DOMAIN receipts : ReceiptInv(receipts[i])'
    BY <1>0, <1>1, <2>1, HistoryGrows DEF ReceiptsInv, ReceiptInv
  <2> QED
    BY <1>0, <1>1, <2>1, <2>2, HistoryGrows DEF ReceiptsInv
<1>2. CASE ProviderAccepts \/ ProviderRefuses \/ UNCHANGED vars
  BY <1>a, <1>2 DEF ProviderAccepts, ProviderRefuses, vars, agentVars
<1>3. ASSUME NEW name, ModelCalls(name) PROVE ReceiptsInv'
  BY <1>a, <1>3 DEF ModelCalls
<1>4. CASE ModelFails \/ ModelEnds \/ ThrowError
  BY <1>a, <1>4 DEF ModelFails, ModelEnds, ThrowError, End
<1>5. CASE ShowError \/ Post
  BY <1>a, <1>5 DEF ShowError, Post, Throw, ToolUnchanged
<1>6. ASSUME NEW answer, PostAnswered(answer) PROVE ReceiptsInv'
  BY <1>a, <1>6 DEF PostAnswered
<1>7. CASE UseBundle
  <2>1. tool \in {"source", "ci"} /\ UNCHANGED <<history, shared>>
    BY <1>0, <1>7 DEF UseBundle, ControlInv, ToolUnchanged
  <2>2. CASE shared.status = "rejected"
    BY <1>a, <1>7, <2>1, <2>2 DEF UseBundle, Throw
  <2>3. CASE shared.status # "rejected"
    <3>1. shared.status = "resolved"
      BY <1>0, <1>7, <2>3 DEF SharedInv, UseBundle
    <3> DEFINE r == [tool |-> tool, head |-> shared.source,
                     value |-> IF tool = "source" THEN shared.source ELSE shared.ci]
    <3>2. r \in Receipts /\ ReceiptInv(r) /\ r.tool # "smoke"
      BY <1>0, <2>1, <3>1 DEF SharedInv, Receipts, Values, ReceiptInv
    <3>3. receipts' = Append(receipts, r)
      BY <1>7, <2>1, <2>3 DEF UseBundle, Record
    <3> QED
      BY <1>0, <2>1, <3>2, <3>3, RecordKeeps
  <2> QED
    BY <2>2, <2>3
<1>8. CASE ProposeRecheck
  <2> DEFINE r == [tool |-> tool, value |-> "proposal", head |-> "proposal"]
  <2>1. tool = "recheck" /\ receipts' = Append(receipts, r) /\ UNCHANGED <<history, shared>>
    BY <1>0, <1>8 DEF ProposeRecheck, Record, ControlInv, ToolUnchanged
  <2>2. r \in Receipts /\ ReceiptInv(r) /\ r.tool # "smoke"
    BY <2>1 DEF Receipts, Values, ReceiptInv
  <2> QED
    BY <1>0, <2>1, <2>2, RecordKeeps
<1>9. ASSUME NEW answer, ReadDeployment(answer) PROVE ReceiptsInv'
  <2>1. UNCHANGED <<history, shared>> /\ tool = "deployment"
    BY <1>0, <1>9 DEF ReadDeployment, ToolUnchanged, ControlInv
  <2>2. CASE answer = "complete"
    <3> DEFINE r == [tool |-> tool, value |-> World.deployed, head |-> World.deployed]
    <3>1. receipts' = Append(receipts, r) /\ World.deployed # Garbled
      BY <1>9, <2>2 DEF ReadDeployment, Record
    <3>2. World.deployed \in Commits /\ Ran(World.deployed)
      BY <1>0, <3>1, PresentIsLast DEF WorldStates, Ran, World
    <3>3. r \in Receipts /\ ReceiptInv(r) /\ r.tool # "smoke"
      BY <2>1, <3>2 DEF Receipts, Values, ReceiptInv
    <3> QED
      BY <1>0, <2>1, <3>1, <3>3, RecordKeeps
  <2>3. CASE answer # "complete"
    BY <1>a, <1>9, <2>1, <2>3 DEF ReadDeployment, Throw
  <2> QED
    BY <2>2, <2>3
<1>10. ASSUME NEW answer, ReadHomepage(answer) PROVE ReceiptsInv'
  <2>1. UNCHANGED <<history, shared>> /\ tool = "smoke"
    BY <1>0, <1>10 DEF ReadHomepage, ToolUnchanged, ControlInv
  <2>2. CASE answer = "complete" /\ World.page # "other"
    <3> DEFINE r == [tool |-> tool, value |-> "healthy", head |-> "healthy"]
    <3>1. receipts' = Append(receipts, r) /\ World.page = "product"
      BY <1>0, <1>10, <2>2, PresentIsLast DEF ReadHomepage, Record, WorldStates
    <3>2. r \in Receipts /\ ReceiptInv(r)
      BY <2>1 DEF Receipts, Values, ReceiptInv
    <3> QED
      BY <1>0, <2>1, <3>1, <3>2, RecordKeeps
  <2>3. CASE answer # "complete" \/ World.page = "other"
    BY <1>a, <1>10, <2>1, <2>3 DEF ReadHomepage, Throw
  <2> QED
    BY <2>2, <2>3
<1>11. ASSUME NEW answer, CollectCommit(answer) \/ CollectRuns(answer) PROVE ReceiptsInv'
  <2>1. shared.status = "none" /\ UNCHANGED <<history, receipts>>
    BY <1>0, <1>11 DEF CollectCommit, CollectRuns, SharedInv, ToolUnchanged
  <2>2. \A i \in DOMAIN receipts : ReceiptInv(receipts[i])'
    BY <1>0, <2>1 DEF ReceiptsInv, ReceiptInv, Ran
  <2> QED
    BY <1>0, <2>1, <2>2 DEF ReceiptsInv, MainThenPage, RanThenPage
<1>12. CASE Again
  BY <1>12 DEF Again, ReceiptsInv
<1> QED
  BY <1>1, <1>2, <1>3, <1>4, <1>5, <1>6, <1>7, <1>8, <1>9, <1>10, <1>11, <1>12 DEF Next, ToolStep

LEMMA ErrorStep == AgentInv /\ [Next]_vars => ErrorInv'
<1> SUFFICES ASSUME AgentInv, [Next]_vars, pc' = "failed" PROVE Witnessed(error)'
  BY DEF ErrorInv
<1>0. HistoryInv /\ ControlInv /\ SharedInv /\ ErrorInv
  BY DEF AgentInv
<1>a. ASSUME UNCHANGED <<pc, error, history>> PROVE Witnessed(error)'
  BY <1>0, <1>a DEF ErrorInv, Witnessed, Ran, Showed
<1>b. ASSUME error'.from \in {"github", "other"} PROVE Witnessed(error)'
  BY <1>b DEF Witnessed, DeploymentError, HomepageError
<1>1. CASE WorldMoves
  BY <1>1 DEF WorldMoves, agentVars
<1>2. CASE ProviderAccepts \/ ProviderRefuses \/ UNCHANGED vars
  BY <1>a, <1>2 DEF ProviderAccepts, ProviderRefuses, vars, agentVars
<1>3. ASSUME NEW name, ModelCalls(name) PROVE Witnessed(error)'
  <2>1. pc = "model"
    BY <1>3 DEF ModelCalls
  <2> QED
    BY <1>0, <1>3, <2>1, CallsAreAllowed, EntryOf DEF ControlInv
<1>4. CASE ModelFails \/ ModelEnds \/ ThrowError \/ ShowError \/ ProposeRecheck \/ Again
  BY <1>4 DEF ModelFails, ModelEnds, ThrowError, End, ShowError, ProposeRecheck, Record, Again
<1>5. CASE Post
  BY <1>b, <1>5 DEF Post, Throw, Plain
<1>6. ASSUME NEW answer, PostAnswered(answer) \/ CollectCommit(answer) \/ CollectRuns(answer)
      PROVE  Witnessed(error)'
  BY <1>6 DEF PostAnswered, CollectCommit, CollectRuns
<1>7. CASE UseBundle
  BY <1>0, <1>b, <1>7 DEF UseBundle, Record, Throw, SharedInv
<1>8. ASSUME NEW answer \in Failing \cup {"complete"}, ReadDeployment(answer) PROVE Witnessed(error)'
  <2>1. /\ error' = DeploymentError(DeploymentCode[answer]) /\ UNCHANGED history
        /\ answer \in Failures
        /\ answer = "unusable" => World.deployed = Garbled
    BY <1>8, AgentAssumption DEF ReadDeployment, Record, Throw, ToolUnchanged
  <2>2. DeploymentCode[answer] = "responseInvalid" => answer = "unusable"
    BY <2>1 DEF DeploymentCode, Failures
  <2>3. error' = DeploymentError("responseInvalid") => World.deployed = Garbled
    BY <2>1, <2>2 DEF DeploymentError
  <2>4. error' = DeploymentError("responseInvalid") => Ran(Garbled)'
    BY <1>0, <2>1, <2>3, PresentIsLast DEF Ran, World
  <2> QED
    BY <2>1, <2>4 DEF Witnessed, DeploymentError, HomepageError
<1>9. ASSUME NEW answer \in Failing \cup {"complete"}, ReadHomepage(answer) PROVE Witnessed(error)'
  <2>1. CASE answer = "complete"
    <3>1. World.page = "other" /\ error' = HomepageError("unhealthy") /\ UNCHANGED history
      BY <1>9, <2>1 DEF ReadHomepage, Record, Throw, ToolUnchanged
    <3>2. Showed("other")'
      BY <1>0, <3>1, PresentIsLast DEF Showed, World
    <3> QED
      BY <3>1, <3>2 DEF Witnessed, DeploymentError, HomepageError
  <2>2. CASE answer # "complete"
    <3>1. error' = HomepageError(HomepageCode[answer]) /\ answer \in Failures
      BY <1>9, <2>2, AgentAssumption DEF ReadHomepage, Throw
    <3>2. HomepageCode[answer] # "unhealthy"
      BY <3>1 DEF HomepageCode, Failures
    <3> QED
      BY <3>1, <3>2 DEF Witnessed, DeploymentError, HomepageError
  <2> QED
    BY <2>1, <2>2
<1> QED
  BY <1>1, <1>2, <1>3, <1>4, <1>5, <1>6, <1>7, <1>8, <1>9 DEF Next, ToolStep

LEMMA AskedStep == AgentInv /\ [Next]_vars => AskedInv'
<1> SUFFICES ASSUME AgentInv, [Next]_vars PROVE AskedInv'
  OBVIOUS
<1>0. ControlInv /\ SharedInv /\ AskedInv
  BY DEF AgentInv
<1>1. CASE WorldMoves \/ ProviderAccepts \/ ProviderRefuses \/ UNCHANGED vars
  BY <1>0, <1>1 DEF AskedInv, WorldMoves, ProviderAccepts, ProviderRefuses, vars, agentVars
<1>2. ASSUME NEW name, ModelCalls(name) PROVE AskedInv'
  <2>1. UNCHANGED <<asked, shared>> /\ pc = "model"
    BY <1>2 DEF ModelCalls
  <2> QED
    BY <1>0, <1>2, <2>1, CallsAreAllowed, EntryOf DEF AskedInv, ControlInv
<1>3. CASE ModelFails \/ ModelEnds \/ ThrowError
  BY <1>0, <1>3 DEF AskedInv, ModelFails, ModelEnds, ThrowError, End
<1>4. CASE UseBundle \/ ProposeRecheck \/ ShowError \/ Post
  BY <1>0, <1>4 DEF AskedInv, UseBundle, ProposeRecheck, ShowError, Post, Record, Throw, ToolUnchanged
<1>5. ASSUME NEW answer, PostAnswered(answer) PROVE AskedInv'
  BY <1>0, <1>5 DEF AskedInv, PostAnswered
<1>6. ASSUME NEW answer, CollectCommit(answer) PROVE AskedInv'
  <2>1. asked["github"] = 0
    BY <1>0, <1>6 DEF AskedInv, SharedInv, CollectCommit
  <2>2. pc' = "runs" \/ shared'.status = "rejected"
    BY <1>6 DEF CollectCommit, NoBundle
  <2> QED
    BY <1>0, <1>6, <2>1, <2>2 DEF AskedInv, CollectCommit, Asks, ToolUnchanged
<1>7. ASSUME NEW answer, CollectRuns(answer) PROVE AskedInv'
  <2>1. shared'.status # "none"
    BY <1>0, <1>7 DEF CollectRuns, SharedInv
  <2> QED
    BY <1>0, <1>7, <2>1 DEF AskedInv, CollectRuns, ToolUnchanged
<1>8. ASSUME NEW answer, ReadDeployment(answer) \/ ReadHomepage(answer) PROVE AskedInv'
  <2>1. pc' \in {"model", "failed"} /\ UNCHANGED <<shared, called>>
    BY <1>8 DEF ReadDeployment, ReadHomepage, Record, Throw, ToolUnchanged
  <2>2. CASE ReadDeployment(answer)
    <3>1. pc = "deployment" /\ "deployment" \in called /\ asked["deployment"] = 0
      BY <1>0, <2>2 DEF ReadDeployment, AskedInv, ControlInv
    <3>2. asked' = [asked EXCEPT !["deployment"] = 1]
      BY <1>0, <2>2, <3>1 DEF ReadDeployment, Asks, AskedInv
    <3> QED
      BY <1>0, <2>1, <3>1, <3>2 DEF AskedInv
  <2>3. CASE ReadHomepage(answer)
    <3>1. pc = "smoke" /\ "smoke" \in called /\ asked["homepage"] = 0
      BY <1>0, <2>3 DEF ReadHomepage, AskedInv, ControlInv
    <3>2. asked' = [asked EXCEPT !["homepage"] = 1]
      BY <1>0, <2>3, <3>1 DEF ReadHomepage, Asks, AskedInv
    <3> QED
      BY <1>0, <2>1, <3>1, <3>2 DEF AskedInv
  <2> QED
    BY <1>8, <2>2, <2>3
<1>9. CASE Again
  BY <1>0, <1>9 DEF AskedInv, Again
<1> QED
  BY <1>1, <1>2, <1>3, <1>4, <1>5, <1>6, <1>7, <1>8, <1>9 DEF Next, ToolStep

LEMMA IncidentStep == AgentInv /\ [Next]_vars => IncidentInv'
<1> SUFFICES ASSUME AgentInv, [Next]_vars PROVE IncidentInv'
  OBVIOUS
<1>0. ControlInv /\ IncidentInv
  BY DEF AgentInv
<1>1. CASE WorldMoves \/ ProviderAccepts \/ ProviderRefuses \/ UNCHANGED vars
  BY <1>0, <1>1 DEF IncidentInv, WorldMoves, ProviderAccepts, ProviderRefuses, vars, agentVars,
                    providerVars
<1>2. ASSUME NEW name, ModelCalls(name) PROVE IncidentInv'
  <2>1. UNCHANGED <<phase, action, providerVars>> /\ pc = "model"
    BY <1>2 DEF ModelCalls
  <2> QED
    BY <1>0, <1>2, <2>1, CallsAreAllowed, EntryOf DEF IncidentInv, ControlInv, providerVars
<1>3. CASE ModelFails \/ ModelEnds \/ ThrowError
  BY <1>0, <1>3 DEF IncidentInv, ModelFails, ModelEnds, ThrowError, End, providerVars
<1>4. CASE UseBundle \/ ProposeRecheck \/ ShowError
  BY <1>0, <1>4 DEF IncidentInv, UseBundle, ProposeRecheck, ShowError, Record, Throw, ToolUnchanged,
                    providerVars
<1>5. ASSUME NEW answer,
             CollectCommit(answer) \/ CollectRuns(answer) \/ ReadDeployment(answer) \/ ReadHomepage(answer)
      PROVE  IncidentInv'
  BY <1>0, <1>5 DEF IncidentInv, CollectCommit, CollectRuns, ReadDeployment, ReadHomepage, Record,
                    Throw, ToolUnchanged, providerVars
<1>6. CASE Post
  BY <1>0, <1>6 DEF IncidentInv, ControlInv, Post, Throw
<1>7. ASSUME NEW answer, PostAnswered(answer) PROVE IncidentInv'
  <2>1. /\ action' = StatusOf(answer) /\ pc' = "model"
        /\ answer = "created" => issues > 0
        /\ answer = "refused" => refusals > 0
        /\ UNCHANGED <<phase, called, providerVars>>
    BY <1>7 DEF PostAnswered
  <2>2. /\ StatusOf(answer) \in {"CONFIRMED", "REJECTED", "UNCERTAIN"}
        /\ StatusOf(answer) = "CONFIRMED" => answer = "created"
        /\ StatusOf(answer) = "REJECTED" => answer = "refused"
    BY DEF StatusOf
  <2> QED
    BY <1>0, <2>1, <2>2 DEF IncidentInv, providerVars
<1>8. CASE Again
  BY <1>0, <1>8 DEF IncidentInv, Again, providerVars
<1> QED
  BY <1>1, <1>2, <1>3, <1>4, <1>5, <1>6, <1>7, <1>8 DEF Next, ToolStep

THEOREM AgentInvariant == Spec => []AgentInv
<1>1. AgentInv /\ [Next]_vars => AgentInv'
  BY HistoryStep, ControlStep, SharedStep, ReceiptsStep, ErrorStep, AskedStep, IncidentStep DEF AgentInv
<1> QED
  BY <1>1, InitInv, PTL DEF Spec

-----------------------------------------------------------------------------
(* What a verdict rests on.                                                *)

\* A sequence that is accepted has each receipt the verdict reads in its place.
LEMMA FirstSequence ==
  ASSUME ReceiptsInv, InSequence("FIRST_OBSERVATION", receipts)
  PROVE  /\ {1, 2, 3, 4} \subseteq DOMAIN receipts
         /\ Receipt(receipts, "source") = receipts[1] /\ receipts[1].tool = "source"
         /\ Receipt(receipts, "ci") = receipts[2] /\ receipts[2].tool = "ci"
         /\ Receipt(receipts, "deployment") = receipts[3] /\ receipts[3].tool = "deployment"
         /\ receipts[4].tool = "smoke"
<1> DEFINE four == <<"source", "ci", "deployment", "smoke">>
<1>1. ToolsOf(receipts) = four \/ ToolsOf(receipts) = Append(four, "recheck")
  BY DEF InSequence, Required
<1>2. \/ DOMAIN receipts = 1..4
      \/ DOMAIN receipts = 1..5 /\ receipts[5].tool = "recheck"
  BY <1>1 DEF ToolsOf
<1>3. /\ receipts[1].tool = "source" /\ receipts[2].tool = "ci"
      /\ receipts[3].tool = "deployment" /\ receipts[4].tool = "smoke"
  BY <1>1, <1>2 DEF ToolsOf
<1>4. /\ \A i \in DOMAIN receipts : receipts[i].tool = "source" <=> i = 1
      /\ \A i \in DOMAIN receipts : receipts[i].tool = "ci" <=> i = 2
      /\ \A i \in DOMAIN receipts : receipts[i].tool = "deployment" <=> i = 3
  BY <1>2, <1>3
<1> QED
  BY <1>2, <1>3, <1>4 DEF Receipt

LEMMA LaterSequence ==
  ASSUME ReceiptsInv, NEW p \in ObservationPhases, p # "FIRST_OBSERVATION", InSequence(p, receipts)
  PROVE  /\ {1, 2} \subseteq DOMAIN receipts
         /\ Receipt(receipts, "deployment") = receipts[1] /\ receipts[1].tool = "deployment"
         /\ receipts[2].tool = "smoke"
<1> DEFINE two == <<"deployment", "smoke">>
<1>1. ToolsOf(receipts) = two \/ ToolsOf(receipts) = Append(two, "recheck")
  BY DEF InSequence, Required
<1>2. \/ DOMAIN receipts = 1..2
      \/ DOMAIN receipts = 1..3 /\ receipts[3].tool = "recheck"
  BY <1>1 DEF ToolsOf
<1>3. receipts[1].tool = "deployment" /\ receipts[2].tool = "smoke"
  BY <1>1, <1>2 DEF ToolsOf
<1>4. \A i \in DOMAIN receipts : receipts[i].tool = "deployment" <=> i = 1
  BY <1>2, <1>3
<1> QED
  BY <1>2, <1>3, <1>4 DEF Receipt

\* The deployment the verdict reads ran, and the page was healthy afterwards.
LEMMA DeploymentIsTrue ==
  ASSUME ReceiptsInv, phase \in ObservationPhases, InSequence(phase, receipts)
  PROVE  /\ Receipt(receipts, "deployment").value \in Commits
         /\ RanThenPage(Receipt(receipts, "deployment").value)
<1>1. CASE phase = "FIRST_OBSERVATION"
  BY <1>1, FirstSequence DEF ReceiptsInv, ReceiptInv
<1>2. CASE phase # "FIRST_OBSERVATION"
  BY <1>2, LaterSequence DEF ReceiptsInv, ReceiptInv
<1> QED
  BY <1>1, <1>2

\* The source and the CI the verdict of a first observation reads.
LEMMA SourceIsTrue ==
  ASSUME SharedInv, ReceiptsInv, InSequence("FIRST_OBSERVATION", receipts)
  PROVE  /\ MainThenPage(Receipt(receipts, "source").value)
         /\ Receipt(receipts, "ci").head = Receipt(receipts, "source").value
         /\ Receipt(receipts, "ci").value \in {"success", "failure"}
         /\ MainThenCI(Receipt(receipts, "source").value, Receipt(receipts, "ci").value)
  BY FirstSequence DEF SharedInv, ReceiptsInv, ReceiptInv

LEMMA VerdictHolds ==
  ASSUME AgentInv, phase \in ObservationPhases, Verdict(phase, receipts) # "throws"
  PROVE  /\ Earned(Verdict(phase, receipts))
         /\ Verdict(phase, receipts) \in
              CASE phase = "FIRST_OBSERVATION"     -> {"EVIDENCE_INVALID", "REQUIRED_CI_FAILED",
                                                       "CANDIDATE_READY", "NORMAL_WAIT_REQUIRED"}
                [] phase = "LATER_OBSERVATION"     -> {"CANDIDATE_READY", "NORMAL_WAIT_REQUIRED"}
                [] phase = "EXTENSION_OBSERVATION" -> {"EXTENSION_READY", "EXTENSION_EXHAUSTED"}
<1> DEFINE first    == phase = "FIRST_OBSERVATION"
           source   == Receipt(receipts, "source").value
           ci       == Receipt(receipts, "ci")
           deployed == Receipt(receipts, "deployment").value
           verdict  == Verdict(phase, receipts)
<1>1. SharedInv /\ ReceiptsInv /\ InSequence(phase, receipts)
  BY DEF AgentInv, Verdict
<1>2. deployed \in Commits /\ RanThenPage(deployed)
  BY <1>1, DeploymentIsTrue
<1>3. first => /\ MainThenPage(source) /\ ci.head = source
               /\ ci.value \in {"success", "failure"} /\ MainThenCI(source, ci.value)
  BY <1>1, SourceIsTrue
<1>4. verdict = IF first /\ source # Candidate THEN "EVIDENCE_INVALID"
                ELSE IF first /\ (ci.value # "success" \/ ci.head # Candidate) THEN "REQUIRED_CI_FAILED"
                ELSE IF phase = "EXTENSION_OBSERVATION"
                       THEN IF deployed = Candidate THEN "EXTENSION_READY" ELSE "EXTENSION_EXHAUSTED"
                ELSE IF (deployed = Candidate) = Has(receipts, "recheck") THEN "throws"
                ELSE IF deployed = Candidate THEN "CANDIDATE_READY" ELSE "NORMAL_WAIT_REQUIRED"
  BY <1>1 DEF Verdict
<1> HIDE DEF source, ci, deployed, verdict
<1>5. CASE verdict = "EVIDENCE_INVALID"
  <2>1. first /\ source # Candidate
    BY <1>4, <1>5
  <2>2. Then(OtherOnMain, PageHealthy)
    BY <1>3, <2>1 DEF MainThenPage, Then, OtherOnMain, PageHealthy
  <2> QED
    BY <1>5, <2>1, <2>2 DEF Earned, verdict
<1>6. CASE verdict = "REQUIRED_CI_FAILED"
  <2>1. first /\ source = Candidate /\ ci.value = "failure"
    BY <1>3, <1>4, <1>6
  <2>2. Then(CandidateOnMain, CandidateFailed)
    BY <1>3, <2>1 DEF MainThenCI, Then, CandidateOnMain, CandidateFailed
  <2> QED
    BY <1>6, <2>1, <2>2 DEF Earned, verdict
<1>7. ASSUME verdict \notin {"EVIDENCE_INVALID", "REQUIRED_CI_FAILED"} PROVE SourceAndCI
  <2>1. first => source = Candidate /\ ci.value = "success"
    BY <1>4, <1>7
  <2> QED
    BY <1>3, <2>1 DEF SourceAndCI, MainThenCI, Then, CandidateOnMain, CandidatePassed
<1>8. CASE verdict \in {"CANDIDATE_READY", "EXTENSION_READY"}
  <2>1. deployed = Candidate
    BY <1>4, <1>8
  <2>2. Then(CandidateRuns, PageHealthy)
    BY <1>2, <2>1 DEF RanThenPage, Then, CandidateRuns, PageHealthy
  <2>3. verdict = "EXTENSION_READY" <=> phase = "EXTENSION_OBSERVATION"
    BY <1>4, <1>8
  <2>4. Earned(verdict)
    BY <1>7, <1>8, <2>2 DEF Earned
  <2> QED
    BY <1>8, <2>3, <2>4 DEF verdict
<1>9. CASE verdict \in {"NORMAL_WAIT_REQUIRED", "EXTENSION_EXHAUSTED"}
  <2>1. deployed \in Commits \ {Candidate}
    BY <1>2, <1>4, <1>9
  <2>2. Then(OtherRuns, PageHealthy)
    BY <1>2, <2>1 DEF RanThenPage, Then, OtherRuns, PageHealthy
  <2>3. verdict = "EXTENSION_EXHAUSTED" <=> phase = "EXTENSION_OBSERVATION"
    BY <1>4, <1>9
  <2>4. Earned(verdict)
    BY <1>7, <1>9, <2>2 DEF Earned
  <2> QED
    BY <1>9, <2>3, <2>4 DEF verdict
<1> QED
  BY <1>4, <1>5, <1>6, <1>8, <1>9 DEF verdict

-----------------------------------------------------------------------------
(* What an invocation may end with.                                        *)

LEMMA CaughtIs ==
  ASSUME NEW e, Witnessed(e)
  PROVE  /\ phase = "ESCALATION_RESUME" => Caught(e) = [kind |-> "action", signal |-> "UNCERTAIN"]
         /\ phase # "ESCALATION_RESUME" =>
              \/ Caught(e) = [kind |-> "dropped", signal |-> "NONE"]
              \/ \E s \in {"EVIDENCE_INVALID", "EVIDENCE_UNAVAILABLE"} :
                   Caught(e) = [kind |-> "stop", signal |-> s]
              \/ Caught(e) = [kind |-> "stop", signal |-> "DEPLOYMENT_UNHEALTHY"] /\ Ran(Garbled)
              \/ Caught(e) = [kind |-> "stop", signal |-> "HOMEPAGE_SMOKE_UNHEALTHY"] /\ Showed("other")
<1>1. CASE e = HomepageError("unhealthy")
  <2>1. StopSignal(e) = "HOMEPAGE_SMOKE_UNHEALTHY"
    BY <1>1 DEF StopSignal, HomepageError, DeploymentError, InvalidError
  <2> QED
    BY <1>1, <2>1 DEF Caught, Witnessed
<1>2. CASE e = DeploymentError("responseInvalid")
  <2>1. StopSignal(e) = "DEPLOYMENT_UNHEALTHY"
    BY <1>2 DEF StopSignal, HomepageError, DeploymentError, InvalidError
  <2> QED
    BY <1>2, <2>1 DEF Caught, Witnessed
<1>3. CASE e # HomepageError("unhealthy") /\ e # DeploymentError("responseInvalid")
  <2>1. StopSignal(e) \in {"EVIDENCE_INVALID", "rethrown", "EVIDENCE_UNAVAILABLE"}
    BY <1>3 DEF StopSignal, InvalidError
  <2> QED
    BY <2>1 DEF Caught
<1> QED
  BY <1>1, <1>2, <1>3

LEMMA Outcomes ==
  ASSUME AgentInv, ModelFails \/ ModelEnds \/ ThrowError
  PROVE  /\ outcome = NoOutcome /\ UNCHANGED <<phase, violated, history, providerVars>>
         /\ phase = "ESCALATION_RESUME" =>
              \/ outcome' = [kind |-> "action", signal |-> "UNCERTAIN"]
              \/ ~ violated /\ action # "NONE" /\ outcome' = [kind |-> "action", signal |-> action]
         /\ phase # "ESCALATION_RESUME" =>
              \/ outcome' = [kind |-> "dropped", signal |-> "NONE"]
              \/ \E s \in {"EVIDENCE_INVALID", "EVIDENCE_UNAVAILABLE"} :
                   outcome' = [kind |-> "stop", signal |-> s]
              \/ outcome' = [kind |-> "stop", signal |-> "DEPLOYMENT_UNHEALTHY"] /\ Ran(Garbled)
              \/ outcome' = [kind |-> "stop", signal |-> "HOMEPAGE_SMOKE_UNHEALTHY"] /\ Showed("other")
              \/ /\ ~ violated /\ Verdict(phase, receipts) # "throws"
                 /\ outcome' = [kind |-> "result", signal |-> Verdict(phase, receipts)]
<1>1. outcome = NoOutcome /\ UNCHANGED <<phase, violated, history, providerVars>>
  BY DEF AgentInv, ControlInv, ModelFails, ModelEnds, ThrowError, End
<1>2. \A code : Witnessed(Plain(code))
  BY DEF Witnessed, Plain, DeploymentError, HomepageError
<1>3. Witnessed(InvalidError)
  BY DEF Witnessed, InvalidError, DeploymentError, HomepageError
<1>4. CASE ModelFails
  <2>1. outcome' = Caught(Plain("model"))
    BY <1>4 DEF ModelFails, End
  <2> QED
    BY <1>1, <1>2, <2>1, CaughtIs
<1>5. CASE ThrowError
  <2>1. outcome' = Caught(error) /\ Witnessed(error)
    BY <1>5 DEF ThrowError, End, AgentInv, ErrorInv
  <2> QED
    BY <1>1, <2>1, CaughtIs
<1>6. CASE ModelEnds /\ phase = "ESCALATION_RESUME"
  <2>1. outcome' = ConcludeAction
    BY <1>6 DEF ModelEnds, End
  <2>2. \/ ConcludeAction = Caught(Plain("incident"))
        \/ ~ violated /\ action # "NONE" /\ ConcludeAction = [kind |-> "action", signal |-> action]
    BY DEF ConcludeAction
  <2> QED
    BY <1>1, <1>2, <1>6, <2>1, <2>2, CaughtIs
<1>7. CASE ModelEnds /\ phase # "ESCALATION_RESUME"
  <2>1. outcome' = Conclude
    BY <1>7 DEF ModelEnds, End
  <2>2. \/ Conclude = Caught(Plain("violation"))
        \/ Conclude = Caught(InvalidError)
        \/ /\ ~ violated /\ Verdict(phase, receipts) # "throws"
           /\ Conclude = [kind |-> "result", signal |-> Verdict(phase, receipts)]
    BY DEF Conclude
  <2> QED
    BY <1>1, <1>2, <1>3, <1>7, <2>1, <2>2, CaughtIs
<1> QED
  BY <1>4, <1>5, <1>6, <1>7

\* Any other step leaves an outcome as it is, with what it was earned by, or
\* begins again without one.
LEMMA OutcomeStays ==
  ASSUME AgentInv, [Next]_vars, ~ (ModelFails \/ ModelEnds \/ ThrowError)
  PROVE  \/ UNCHANGED <<outcome, history, violated, phase>>
         \/ outcome' = NoOutcome /\ UNCHANGED phase
<1>0. pc # "ended" => outcome = NoOutcome
  BY DEF AgentInv, ControlInv
<1>1. CASE WorldMoves
  BY <1>0, <1>1 DEF WorldMoves, agentVars
<1>2. CASE ProviderAccepts \/ ProviderRefuses \/ UNCHANGED vars
  BY <1>2 DEF ProviderAccepts, ProviderRefuses, vars, agentVars
<1>3. ASSUME NEW name, ModelCalls(name) PROVE outcome' = NoOutcome /\ UNCHANGED phase
  BY <1>0, <1>3 DEF ModelCalls
<1>4. CASE UseBundle \/ ProposeRecheck \/ ShowError \/ Post
  BY <1>4 DEF UseBundle, ProposeRecheck, ShowError, Post, ToolUnchanged
<1>5. ASSUME NEW answer, \/ CollectCommit(answer) \/ CollectRuns(answer) \/ ReadDeployment(answer)
                         \/ ReadHomepage(answer) \/ PostAnswered(answer)
      PROVE  UNCHANGED <<outcome, history, violated, phase>>
  BY <1>5 DEF CollectCommit, CollectRuns, ReadDeployment, ReadHomepage, PostAnswered, ToolUnchanged
<1>6. CASE Again
  BY <1>6 DEF Again
<1> QED
  BY <1>1, <1>2, <1>3, <1>4, <1>5, <1>6 DEF Next, ToolStep

OutcomeInv == VerdictIsEarned /\ UnhealthyIsSeen /\ ViolationVoids

LEMMA OutcomeStep == AgentInv /\ AgentInv' /\ OutcomeInv /\ [Next]_vars => OutcomeInv'
<1> SUFFICES ASSUME AgentInv, OutcomeInv, [Next]_vars PROVE OutcomeInv'
  OBVIOUS
<1>1. CASE outcome' = NoOutcome
  BY <1>1 DEF OutcomeInv, VerdictIsEarned, UnhealthyIsSeen, ViolationVoids, NoOutcome
<1>2. CASE UNCHANGED <<outcome, history, violated, phase>>
  <2>1. VerdictIsEarned'
    BY <1>2 DEF OutcomeInv, VerdictIsEarned, Earned, SourceAndCI, Then, CandidateOnMain, CandidateRuns,
                PageHealthy, CandidatePassed, CandidateFailed, OtherOnMain, OtherRuns
  <2> QED
    BY <1>2, <2>1 DEF OutcomeInv, UnhealthyIsSeen, ViolationVoids
<1>3. CASE ModelFails \/ ModelEnds \/ ThrowError
  <2>1. phase \in Phases /\ UNCHANGED <<phase, violated, history>>
    BY <1>3, Outcomes DEF AgentInv, ControlInv
  <2>2. CASE /\ phase # "ESCALATION_RESUME" /\ ~ violated /\ Verdict(phase, receipts) # "throws"
             /\ outcome' = [kind |-> "result", signal |-> Verdict(phase, receipts)]
    <3>1. Earned(outcome'.signal)
      BY <2>1, <2>2, VerdictHolds
    <3>2. Earned(outcome.signal)'
      BY <2>1, <3>1 DEF Earned, SourceAndCI, Then, CandidateOnMain, CandidateRuns,
                        PageHealthy, CandidatePassed, CandidateFailed, OtherOnMain, OtherRuns
    <3>3. outcome'.signal \notin {"DEPLOYMENT_UNHEALTHY", "HOMEPAGE_SMOKE_UNHEALTHY"}
      BY <2>1, <2>2, VerdictHolds
    <3> QED
      BY <2>1, <2>2, <3>2, <3>3 DEF OutcomeInv, VerdictIsEarned, UnhealthyIsSeen, ViolationVoids
  <2>3. CASE outcome'.kind # "result"
    <3>1. /\ outcome'.signal = "DEPLOYMENT_UNHEALTHY" => Ran(Garbled)
          /\ outcome'.signal = "HOMEPAGE_SMOKE_UNHEALTHY" => Showed("other")
          /\ violated /\ outcome'.kind = "action" => outcome'.signal = "UNCERTAIN"
      BY <1>3, <2>1, <2>3, Outcomes DEF AgentInv, IncidentInv
    <3> QED
      BY <2>1, <2>3, <3>1 DEF OutcomeInv, VerdictIsEarned, UnhealthyIsSeen, ViolationVoids, Ran, Showed
  <2> QED
    BY <1>3, <2>2, <2>3, Outcomes
<1> QED
  BY <1>1, <1>2, <1>3, OutcomeStays

-----------------------------------------------------------------------------
(* The theorems.                                                           *)

LEMMA OutcomeInvariant == Spec => []OutcomeInv
<1>1. Init => OutcomeInv
  BY DEF Init, Fresh, OutcomeInv, VerdictIsEarned, UnhealthyIsSeen, ViolationVoids, NoOutcome
<1> QED
  BY <1>1, OutcomeStep, AgentInvariant, PTL DEF Spec

\* A result of an observation says what the providers were during this very
\* invocation, in the order it needs, whatever tools the model calls in whatever
\* order and however the world moves between two requests.
THEOREM VerdictsAreEarned == Spec => []VerdictIsEarned
  BY OutcomeInvariant, PTL DEF OutcomeInv

\* A run is stopped for an unhealthy release only on a marker or a page that was
\* served during the invocation, never on a provider that fails.
THEOREM UnhealthyWasSeen == Spec => []UnhealthyIsSeen
  BY OutcomeInvariant, PTL DEF OutcomeInv

\* Nothing an invocation returns counts once the model called a tool it was not
\* given, or one twice.
THEOREM ViolationsVoid == Spec => []ViolationVoids
  BY OutcomeInvariant, PTL DEF OutcomeInv

\* Each provider is asked at most once in an invocation, and at most one incident
\* is posted.
THEOREM ProvidersAreAskedOnce == Spec => []AskedOnce
<1>1. AgentInv => AskedOnce
  BY DEF AgentInv, AskedInv, IncidentInv, AskedOnce
<1> QED
  BY <1>1, AgentInvariant, PTL

\* An invocation takes no step the worker does not know: the tools, the budget,
\* the requests and the moving world are details of the observation or of the
\* incident that ReleaseSteward takes as one answer.
THEOREM AgentImplementsInvocation == Spec => ImplementsInvocation
<1>1. Init => Invocation!Init
  BY DEF Init, Fresh, NoOutcome, Invocation!Init, Invocation!NoOutcome
<1>2. ASSUME AgentInv, [Next]_vars PROVE [Invocation!Next]_(Invocation!vars)
  <2>0. ControlInv /\ IncidentInv
    BY <1>2 DEF AgentInv
  <2> USE DEF Invocation!Next, Invocation!vars, Invocation!NoOutcome, NoOutcome, providerVars
  <2>1. CASE WorldMoves \/ UNCHANGED vars
    BY <2>1 DEF WorldMoves, vars, agentVars
  <2>2. CASE ProviderAccepts \/ ProviderRefuses
    BY <2>2 DEF ProviderAccepts, ProviderRefuses, Unsettled, agentVars, Invocation!Settles
  <2>3. ASSUME NEW name, ModelCalls(name) PROVE UNCHANGED Invocation!vars
    BY <2>3 DEF ModelCalls
  <2>4. CASE UseBundle \/ ProposeRecheck \/ ShowError
    BY <2>4 DEF UseBundle, ProposeRecheck, ShowError, ToolUnchanged
  <2>5. ASSUME NEW answer, \/ CollectCommit(answer) \/ CollectRuns(answer) \/ ReadDeployment(answer)
                           \/ ReadHomepage(answer) \/ PostAnswered(answer)
        PROVE  UNCHANGED Invocation!vars
    BY <2>5 DEF CollectCommit, CollectRuns, ReadDeployment, ReadHomepage, PostAnswered, ToolUnchanged
  <2>6. CASE Post
    BY <2>0, <2>6 DEF Post, ControlInv, IncidentInv, Invocation!Posts
  <2>7. CASE Again
    <3>1. outcome = NoOutcome \/ outcome.kind = "dropped"
      BY <2>0, <2>7 DEF Again, ControlInv
    <3> QED
      BY <2>7, <3>1 DEF Again, Invocation!ObservesAgain
  <2>8. CASE ModelFails \/ ModelEnds \/ ThrowError
    <3>1. outcome = NoOutcome /\ UNCHANGED <<phase, posts, issues, refusals>>
      BY <1>2, <2>8, Outcomes
    <3>2. CASE phase = "ESCALATION_RESUME"
      <4>1. \/ outcome' = [kind |-> "action", signal |-> "UNCERTAIN"]
            \/ action # "NONE" /\ outcome' = [kind |-> "action", signal |-> action]
        BY <1>2, <2>8, <3>2, Outcomes
      <4> QED
        BY <2>0, <3>1, <3>2, <4>1 DEF IncidentInv, Invocation!Acts, Invocation!Is
    <3>3. CASE phase # "ESCALATION_RESUME"
      <4>1. phase \in ObservationPhases
        BY <2>0, <3>3 DEF ControlInv
      <4>2. Verdict(phase, receipts) # "throws" => Verdict(phase, receipts) \in Invocation!Signals(phase)
        BY <1>2, <4>1, VerdictHolds DEF Invocation!Signals
      <4>3. \/ outcome' = [kind |-> "dropped", signal |-> "NONE"]
            \/ \E s \in Invocation!Stops : outcome' = [kind |-> "stop", signal |-> s]
            \/ \E s \in Invocation!Signals(phase) : outcome' = [kind |-> "result", signal |-> s]
        BY <1>2, <2>8, <3>3, <4>2, Outcomes DEF Invocation!Stops
      <4>4. Invocation!Observes
        BY <3>1, <3>3, <4>3 DEF Invocation!Observes, Invocation!Is
      <4> QED
        BY <4>4
    <3> QED
      BY <3>2, <3>3
  <2> QED
    BY <1>2, <2>1, <2>2, <2>3, <2>4, <2>5, <2>6, <2>7, <2>8 DEF Next, ToolStep
<1> QED
  BY <1>1, <1>2, AgentInvariant, PTL DEF Spec, ImplementsInvocation, Invocation!Spec

=============================================================================
