--------------------------- MODULE ConsoleProperties ---------------------------
(***************************************************************************)
(* What the owner may rely on in the page, whatever order clicks, polls    *)
(* and answers come in.                                                    *)
(***************************************************************************)
EXTENDS Console

InFlight == {c \in Slots : chain[c].call # "none"}

\* `busy` is a flag and not a count, and polls go on under it: still, one call of
\* the owner is in flight at a time, as long as the flag says, so that no decision
\* is sent twice and none while the run it is for is being changed.
OneOperation ==
    /\ busy = (\E c \in Slots : Exclusive(c))
    /\ \A c, d \in Slots : Exclusive(c) /\ Exclusive(d) => c = d

\* When nothing is in flight the panel shows the run the list marks, if it shows
\* a run: answers to a poll that began before a click do not stay on the page.
ShownIsSelected ==
    InFlight = {} /\ panel.run # Null => panel.run = selectedId /\ panel = selected

\* The detail the page holds becomes what the server has, and stays so once the
\* runs stop moving: no late answer, dropped detail or failure leaves an old one.
\* The premise is needed: with answers slower than the polling interval, two polls
\* that prefer different runs can drop each other's details for ever.
CatchesUp ==
    []<>(InFlight = {}) => <>[](selected # Null => selected.phase = server[selected.run])

-----------------------------------------------------------------------------

\* docs/RUNTIME_READINESS_GATE_2026-08-26.md, line 35: while the incident action is
\* not enabled, "the escalation choice is disabled in the browser".
EscalationIsHeld == ~ IncidentEnabled => escalation # "enabled"

=============================================================================
