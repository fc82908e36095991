------------------------------- MODULE Console -------------------------------
(***************************************************************************)
(* The owner's page of server/public/app.js: the list of release runs, the *)
(* detail of the selected one, the polling of an active run and the        *)
(* decision.                                                               *)
(*                                                                         *)
(* The page is one event loop.  Each call of loadRuns, selectRun or        *)
(* submitReleaseDecision is a chain of requests; between two of them       *)
(* clicks, the timer and other chains come in, and answers arrive in any   *)
(* order, or not at all.  An answer says how the runs were when the server *)
(* gave it.  The list shows at least one run, as a seeded server's does;   *)
(* the runs are live ones and the operator's token is installed.           *)
(* Markup, texts, the other choice's button, which is disabled only while  *)
(* the page is busy, and the release marker are left out.                  *)
(***************************************************************************)
EXTENDS Naturals, Sequences

CONSTANTS
    Runs,           \* in the order of the list
    MaxChains,      \* bound: chains in flight at once
    MaxFailures,    \* bound: requests that fail
    IncidentEnabled, \* the server's incidentActionEnabled
    Null

ASSUME ConsoleAssumption ==
    /\ Len(Runs) > 0
    /\ IncidentEnabled \in BOOLEAN
    /\ MaxFailures \in Nat /\ MaxChains \in Nat \ {0}
    /\ \A i \in DOMAIN Runs : Runs[i] # Null

Slots  == 1..MaxChains
RunIds == {Runs[i] : i \in DOMAIN Runs}

VARIABLES
    server,         \* run -> its phase
    failures,
    selectedId, selected, busy, timer, fingerprint,   \* `state`; timer: one is set
    listed,         \* the buttons of the list are there
    escalation,     \* the button for an incident: none, disabled, enabled
    panel,          \* what the detail panel shows: a run's detail, an error, nothing yet
    chain           \* slot -> the call that is in flight

page == <<selectedId, selected, busy, timer, fingerprint, listed, escalation, panel>>
vars == <<server, failures, page, chain>>

-----------------------------------------------------------------------------
(* The server, as the page sees it.                                        *)

\* How a run moves without this page; `decided` is a run that goes on with a
\* decision, of this page or of another client.
Moves == {<<"observing", "awaiting">>, <<"observing", "done">>, <<"awaiting", "decided">>,
          <<"awaiting", "done">>, <<"decided", "done">>}

Attention(phase) == phase = "awaiting"
Active(detail)   == detail # Null /\ detail.phase # "done"

ServerMoves ==
    \E r \in RunIds, phase \in {"awaiting", "decided", "done"} :
      /\ <<server[r], phase>> \in Moves
      /\ server' = [server EXCEPT ![r] = phase]
      /\ UNCHANGED <<failures, page, chain>>

-----------------------------------------------------------------------------
(* Chains.                                                                 *)

\* `silent` is a poll's loadRuns, `at` the request it waits for, `answer` what the
\* server said, `run` the preferred run of a list and the run of the rest.
Idle == [call |-> "none", silent |-> FALSE, at |-> "none", run |-> Null, answer |-> Null]
Ask(call, silent, at, run) ==
    [call |-> call, silent |-> silent, at |-> at, run |-> run, answer |-> Null]

Exclusive(c) == chain[c].call # "none" /\ ~ chain[c].silent

Begin(asked) == \E c \in Slots : /\ chain[c] = Idle
                                 /\ \A d \in 1..c - 1 : chain[d] # Idle
                                 /\ chain' = [chain EXCEPT ![c] = asked]

\* Of a list the page keeps the preferred run, or else takes one that needs
\* attention, or else the first.
Choice(preferred, phases) ==
    LET waiting == {i \in DOMAIN Runs : Attention(phases[Runs[i]])}
    IN IF preferred # Null THEN preferred
       ELSE IF waiting # {} THEN Runs[CHOOSE i \in waiting : \A j \in waiting : i <= j]
       ELSE Runs[1]

Detail(r) == [run |-> r, phase |-> server[r]]

\* A decision is recorded for a run that waits for it, an incident if it may be.
Decidable(c, phase) == Attention(phase) /\ (chain[c].call = "escalate" => IncidentEnabled)

Answer(c) ==
    /\ chain[c].call # "none" /\ chain[c].answer = Null
    /\ LET r == chain[c].run
       IN CASE chain[c].at = "list" ->
                 /\ chain' = [chain EXCEPT ![c].answer = Choice(r, server)]
                 /\ UNCHANGED server
            [] chain[c].at = "detail" ->
                 /\ chain' = [chain EXCEPT ![c].answer = Detail(r)]
                 /\ UNCHANGED server
            [] chain[c].at = "post" ->
                 /\ server' = [server EXCEPT ![r] = IF Decidable(c, @) THEN "decided" ELSE @]
                 /\ chain' = [chain EXCEPT ![c].answer = "receipt"]
    /\ UNCHANGED <<failures, page>>

\* schedulePoll: only the detail that was loaded says whether to go on.
SchedulePoll == timer' = Active(selected')

\* renderDetail, and setBusy, which goes over all buttons of the page.
Rendered(detail) == IF ~ Attention(detail.phase) THEN "none"
                    ELSE IF IncidentEnabled THEN "enabled" ELSE "disabled"
BusyIs(flag, button) ==
    /\ busy' = flag
    /\ escalation' = IF button = "none" THEN "none" ELSE IF flag THEN "disabled" ELSE "enabled"

\* Variant: the end of a poll makes the page free.
DoneFreeing(c, button) ==
    /\ chain' = [chain EXCEPT ![c] = Idle]
    /\ BusyIs(FALSE, button)
    /\ SchedulePoll

\* The `finally` blocks at the end of a chain, which leaves this button.
Done(c, button) ==
    /\ chain' = [chain EXCEPT ![c] = Idle]
    /\ IF Exclusive(c) THEN BusyIs(FALSE, button)
                       ELSE UNCHANGED busy /\ escalation' = button
    /\ SchedulePoll

HandleList(c) ==
    /\ chain[c].at = "list" /\ chain[c].answer # Null
    /\ selectedId' = chain[c].answer
    /\ chain' = [chain EXCEPT ![c].at = "detail", ![c].run = selectedId', ![c].answer = Null]
    /\ listed' = TRUE
    /\ UNCHANGED <<server, failures, selected, busy, timer, fingerprint, escalation, panel>>

\* Variant: the detail is shown whatever was selected meanwhile.
HandleDetailAnyway(c) ==
    /\ chain[c].at = "detail" /\ chain[c].answer # Null
    /\ LET detail == chain[c].answer
       IN IF detail # fingerprint
            THEN /\ selected' = detail /\ fingerprint' = detail /\ panel' = detail
                 /\ Done(c, Rendered(detail))
            ELSE /\ UNCHANGED <<selected, fingerprint, panel>>
                 /\ Done(c, escalation)
    /\ UNCHANGED <<server, failures, selectedId, listed>>

\* loadDetail: dropped if another run was selected, not rendered if it is the same.
HandleDetail(c) ==
    /\ chain[c].at = "detail" /\ chain[c].answer # Null
    /\ LET detail == chain[c].answer
       IN IF selectedId = detail.run /\ detail # fingerprint
            THEN /\ selected' = detail /\ fingerprint' = detail /\ panel' = detail
                 /\ Done(c, Rendered(detail))
            ELSE /\ UNCHANGED <<selected, fingerprint, panel>>
                 /\ Done(c, escalation)
    /\ UNCHANGED <<server, failures, selectedId, listed>>

\* The list is loaded again, silently, but the page stays busy.
Reloads(c) ==
    /\ chain' = [chain EXCEPT ![c].at = "list", ![c].answer = Null]
    /\ timer' = FALSE

HandlePost(c) ==
    /\ chain[c].at = "post" /\ chain[c].answer # Null
    /\ Reloads(c)
    /\ UNCHANGED <<server, failures, selectedId, selected, busy, fingerprint, listed, escalation, panel>>

\* Variant: the next poll is scheduled only after an answer.
FailWithoutPoll(c) ==
    /\ chain[c].call # "none"
    /\ failures < MaxFailures /\ failures' = failures + 1
    /\ chain' = [chain EXCEPT ![c] = Idle]
    /\ busy' = IF Exclusive(c) THEN FALSE ELSE busy
    /\ escalation' = "none"
    /\ panel' = [run |-> Null, phase |-> "error"]
    /\ UNCHANGED <<server, selectedId, selected, timer, fingerprint, listed>>

\* A request fails on its way, or its answer does.
Fail(c) ==
    /\ chain[c].call # "none"
    /\ failures < MaxFailures /\ failures' = failures + 1
    /\ IF chain[c].at = "post"
         THEN Reloads(c) /\ UNCHANGED <<selected, busy, escalation, panel>>
         ELSE /\ panel' = [run |-> Null, phase |-> "error"]
              /\ UNCHANGED selected
              /\ Done(c, "none")
    /\ UNCHANGED <<server, selectedId, fingerprint, listed>>

-----------------------------------------------------------------------------
(* What starts a chain.                                                    *)

\* The timer; loadRuns clears it first.
Poll ==
    /\ timer
    /\ timer' = FALSE
    /\ Begin(Ask("load", TRUE, "list", selectedId))
    /\ UNCHANGED <<server, failures, selectedId, selected, busy, fingerprint, listed, escalation, panel>>

Refresh ==
    /\ ~ busy
    /\ timer' = FALSE /\ BusyIs(TRUE, escalation)
    /\ Begin(Ask("load", FALSE, "list", selectedId))
    /\ UNCHANGED <<server, failures, selectedId, selected, fingerprint, listed, panel>>

Select(r) ==
    /\ listed /\ ~ busy /\ r # selectedId
    /\ timer' = FALSE /\ BusyIs(TRUE, escalation)
    /\ selectedId' = r /\ selected' = Null /\ fingerprint' = Null
    /\ Begin(Ask("select", FALSE, "detail", r))
    /\ UNCHANGED <<server, failures, listed, panel>>

\* Of the run the panel shows, which need not be the selected one any more.
Submit(choice) ==
    /\ ~ busy /\ Attention(panel.phase)
    /\ choice = "escalate" => escalation = "enabled"
    /\ BusyIs(TRUE, escalation)
    /\ Begin(Ask(choice, FALSE, "post", panel.run))
    /\ UNCHANGED <<server, failures, selectedId, selected, timer, fingerprint, listed, panel>>

-----------------------------------------------------------------------------

Init ==
    /\ server \in [RunIds -> {"observing", "done"}]
    /\ failures = 0
    /\ selectedId = Null /\ selected = Null /\ fingerprint = Null
    /\ busy = TRUE /\ timer = FALSE /\ listed = FALSE /\ escalation = "none"
    /\ panel = [run |-> Null, phase |-> "loading"]
    /\ chain = [c \in Slots |-> IF c = 1 THEN Ask("load", FALSE, "list", Null) ELSE Idle]

Handle(c) == HandleList(c) \/ HandleDetail(c) \/ HandlePost(c)

Next ==
    \/ ServerMoves
    \/ \E c \in Slots : Answer(c) \/ Handle(c) \/ Fail(c)
    \/ Poll
    \/ Refresh
    \/ \E r \in RunIds : Select(r)
    \/ \E choice \in {"wait", "escalate"} : Submit(choice)

\* A request is answered in the end, an answer handled, and a timer that is set
\* fires.  Nothing is assumed of clicks and of the server's runs.
Fairness ==
    /\ \A c \in Slots : WF_vars(Answer(c)) /\ WF_vars(Handle(c))
    /\ WF_vars(Poll)

Spec == Init /\ [][Next]_vars /\ Fairness

=============================================================================
