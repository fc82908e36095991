----------------------------- MODULE ConsoleSafety -----------------------------
(***************************************************************************)
(* Theorems about the page, for any list of runs, any number of calls in   *)
(* flight and any number of failures: the owner has one operation at a     *)
(* time, and what stays on the page is the run that is selected.           *)
(***************************************************************************)
EXTENDS ConsoleProperties, TLAPS

Fields == {"call", "silent", "at", "run", "answer"}

\* A call in flight waits for one of three answers, and a detail that came is the
\* one that was asked for.
ChainInv(c) ==
    /\ DOMAIN chain[c] = Fields
    /\ chain[c].silent \in BOOLEAN
    /\ chain[c].call # "none" => chain[c].at \in {"list", "detail", "post"}
    /\ chain[c].at # "none" => chain[c].call # "none"
    /\ chain[c].at = "detail" /\ chain[c].answer # Null => chain[c].answer.run = chain[c].run

ChainsInv == DOMAIN chain = Slots /\ \A c \in Slots : ChainInv(c)

BusyInv == busy \in BOOLEAN /\ OneOperation

\* A call that will bring the detail of the run that is selected then.
Pending(c) == \/ chain[c].at \in {"list", "post"}
              \/ chain[c].at = "detail" /\ chain[c].run = selectedId

\* The detail that is held is the one that is shown, unless an error is; and if it
\* is not the selected run's, one is on its way.
PanelInv ==
    /\ fingerprint = selected
    /\ panel.run # Null /\ selected # Null => panel = selected
    /\ panel.run # Null /\ (selected = Null \/ selected.run # selectedId) =>
         \E c \in Slots : Pending(c)

ConsoleInv == ChainsInv /\ BusyInv /\ PanelInv

-----------------------------------------------------------------------------

LEMMA InitInv == Init => ConsoleInv
<1> SUFFICES ASSUME Init PROVE ConsoleInv
  OBVIOUS
<1> USE DEF Init, Ask, Idle
<1>1. 1 \in Slots
  BY ConsoleAssumption DEF Slots
<1>2. ChainsInv
  BY DEF ChainsInv, ChainInv, Fields
<1>3. BusyInv
  BY <1>1 DEF BusyInv, OneOperation, Exclusive
<1>4. PanelInv
  BY DEF PanelInv
<1> QED
  BY <1>2, <1>3, <1>4 DEF ConsoleInv

\* What starts a call: the first free slot, and only one slot changes.
LEMMA Begins ==
  ASSUME NEW asked, ChainsInv, Begin(asked)
  PROVE  \E c \in Slots : /\ chain[c] = Idle
                          /\ DOMAIN chain' = Slots
                          /\ chain'[c] = asked
                          /\ \A d \in Slots \ {c} : chain'[d] = chain[d]
  BY DEF Begin, ChainsInv

\* The end of a call frees its slot and leaves the others alone.
LEMMA Frees ==
  ASSUME NEW c \in Slots, NEW button, ChainsInv, Done(c, button)
  PROVE  /\ DOMAIN chain' = Slots
         /\ chain'[c] = Idle
         /\ \A d \in Slots \ {c} : chain'[d] = chain[d]
  BY DEF Done, ChainsInv

\* An answer is put into its slot and changes nothing else of it.
LEMMA Answers ==
  ASSUME NEW c \in Slots, ChainsInv, Answer(c)
  PROVE  /\ DOMAIN chain' = Slots
         /\ \A d \in Slots \ {c} : chain'[d] = chain[d]
         /\ DOMAIN chain'[c] = Fields
         /\ chain'[c].call = chain[c].call /\ chain'[c].silent = chain[c].silent
         /\ chain'[c].at = chain[c].at /\ chain'[c].run = chain[c].run
         /\ chain[c].at = "detail" => chain'[c].answer.run = chain[c].run
<1> USE DEF ChainsInv, ChainInv, Fields
<1>1. chain[c].at \in {"list", "detail", "post"}
  BY DEF Answer
<1>2. CASE chain[c].at = "list"
  BY <1>2 DEF Answer
<1>3. CASE chain[c].at = "detail"
  BY <1>3 DEF Answer, Detail
<1>4. CASE chain[c].at = "post"
  BY <1>4 DEF Answer
<1> QED
  BY <1>1, <1>2, <1>3, <1>4

-----------------------------------------------------------------------------
(* One lemma per part of the invariant.                                    *)

LEMMA ChainsStep == ConsoleInv /\ [Next]_vars => ChainsInv'
<1> SUFFICES ASSUME ConsoleInv, [Next]_vars PROVE ChainsInv'
  OBVIOUS
<1> USE DEF ConsoleInv
<1>1. CASE UNCHANGED vars
  BY <1>1 DEF vars, ChainsInv, ChainInv
<1>2. CASE ServerMoves
  BY <1>2 DEF ServerMoves, ChainsInv, ChainInv
<1>3. ASSUME NEW c \in Slots, Answer(c) PROVE ChainsInv'
  BY <1>3, Answers DEF ChainsInv, ChainInv
<1>4. ASSUME NEW c \in Slots, HandleList(c) \/ HandlePost(c) PROVE ChainsInv'
  BY <1>4 DEF HandleList, HandlePost, Reloads, ChainsInv, ChainInv, Fields
<1>5. ASSUME NEW c \in Slots, NEW button, Done(c, button) PROVE ChainsInv'
  <2>1. /\ DOMAIN chain' = Slots
        /\ chain'[c] = Idle
        /\ \A d \in Slots \ {c} : chain'[d] = chain[d]
    BY <1>5, Frees
  <2>2. ChainInv(c)'
    BY <2>1 DEF ChainInv, Idle, Fields
  <2> QED
    BY <2>1, <2>2 DEF ChainsInv, ChainInv
<1>6. ASSUME NEW c \in Slots, HandleDetail(c) PROVE ChainsInv'
  BY <1>6, <1>5 DEF HandleDetail
<1>7. ASSUME NEW c \in Slots, Fail(c) PROVE ChainsInv'
  <2>1. CASE chain[c].at = "post"
    BY <1>7, <2>1 DEF Fail, Reloads, ChainsInv, ChainInv, Fields
  <2>2. CASE chain[c].at # "post"
    BY <1>7, <2>2, <1>5 DEF Fail
  <2> QED
    BY <2>1, <2>2
<1>8. ASSUME NEW call, NEW silent \in BOOLEAN, NEW at \in {"list", "detail", "post"}, NEW run,
             call # "none", Begin(Ask(call, silent, at, run))
      PROVE  ChainsInv'
  BY <1>8, Begins DEF ChainsInv, ChainInv, Ask, Fields
<1>9. CASE Poll \/ Refresh
  BY <1>9, <1>8 DEF Poll, Refresh
<1>10. ASSUME NEW r \in RunIds, Select(r) PROVE ChainsInv'
  BY <1>10, <1>8 DEF Select
<1>11. ASSUME NEW choice \in {"wait", "escalate"}, Submit(choice) PROVE ChainsInv'
  BY <1>11, <1>8 DEF Submit
<1> QED
  BY <1>1, <1>2, <1>3, <1>4, <1>6, <1>7, <1>9, <1>10, <1>11 DEF Next, Handle

\* The flag follows the one call it stands for: what is silent never sets it, and
\* what is not begins only when it is down.
LEMMA BusyStep == ConsoleInv /\ [Next]_vars => BusyInv'
<1> SUFFICES ASSUME ConsoleInv, [Next]_vars PROVE BusyInv'
  OBVIOUS
<1> USE DEF ConsoleInv, BusyInv, OneOperation
<1>1. ASSUME UNCHANGED busy, DOMAIN chain' = Slots,
             \A c \in Slots : Exclusive(c)' <=> Exclusive(c)
      PROVE  BusyInv'
  BY <1>1
<1>2. CASE UNCHANGED vars
  BY <1>2 DEF vars, page, Exclusive
<1>3. CASE ServerMoves
  BY <1>3 DEF ServerMoves, page, Exclusive
<1>4. ASSUME NEW c \in Slots, Answer(c) PROVE BusyInv'
  <2>1. \A d \in Slots : Exclusive(d)' <=> Exclusive(d)
    BY <1>4, Answers DEF Exclusive
  <2> QED
    BY <1>4, <2>1 DEF Answer, page
<1>5. ASSUME NEW c \in Slots, Reloads(c), UNCHANGED busy PROVE BusyInv'
  BY <1>5 DEF Reloads, ChainsInv, ChainInv, Fields, Exclusive
<1>6. ASSUME NEW c \in Slots, HandleList(c) \/ HandlePost(c) PROVE BusyInv'
  <2>1. CASE HandleList(c)
    BY <2>1 DEF HandleList, ChainsInv, ChainInv, Fields, Exclusive
  <2>2. CASE HandlePost(c)
    BY <2>2, <1>5 DEF HandlePost
  <2> QED
    BY <1>6, <2>1, <2>2
<1>7. ASSUME NEW c \in Slots, NEW button, Done(c, button) PROVE BusyInv'
  <2>1. ~ Exclusive(c)' /\ \A d \in Slots \ {c} : Exclusive(d)' <=> Exclusive(d)
    BY <1>7, Frees DEF Exclusive, Idle
  <2>2. CASE Exclusive(c)
    BY <1>7, <2>1, <2>2 DEF Done, BusyIs
  <2>3. CASE ~ Exclusive(c)
    BY <1>7, <2>1, <2>3 DEF Done
  <2> QED
    BY <2>2, <2>3
<1>8. ASSUME NEW c \in Slots, HandleDetail(c) PROVE BusyInv'
  BY <1>8, <1>7 DEF HandleDetail
<1>9. ASSUME NEW c \in Slots, Fail(c) PROVE BusyInv'
  BY <1>9, <1>5, <1>7 DEF Fail
<1>10. CASE Poll
  BY <1>10, Begins DEF Poll, Ask, Exclusive, Idle
<1>11. ASSUME NEW call, NEW at, NEW run, NEW button, call # "none", ~ busy, BusyIs(TRUE, button),
              Begin(Ask(call, FALSE, at, run))
       PROVE  BusyInv'
  BY <1>11, Begins DEF BusyIs, Ask, Exclusive, Idle
<1>12. CASE Refresh
  BY <1>12, <1>11 DEF Refresh
<1>13. ASSUME NEW r \in RunIds, Select(r) PROVE BusyInv'
  BY <1>13, <1>11 DEF Select
<1>14. ASSUME NEW choice \in {"wait", "escalate"}, Submit(choice) PROVE BusyInv'
  BY <1>14, <1>11 DEF Submit
<1> QED
  BY <1>2, <1>3, <1>4, <1>6, <1>8, <1>9, <1>10, <1>12, <1>13, <1>14 DEF Next, Handle

\* What changes the selection has a call under way that will bring its detail, and
\* what drops a detail leaves the call of the selected run where it is.
LEMMA PanelStep == ConsoleInv /\ [Next]_vars => PanelInv'
<1> SUFFICES ASSUME ConsoleInv, [Next]_vars PROVE PanelInv'
  OBVIOUS
<1> USE DEF ConsoleInv, PanelInv
<1>1. CASE UNCHANGED vars
  BY <1>1 DEF vars, page, Pending
<1>2. CASE ServerMoves
  BY <1>2 DEF ServerMoves, page, Pending
<1>3. ASSUME NEW c \in Slots, Answer(c) PROVE PanelInv'
  <2>1. \A d \in Slots : Pending(d) => Pending(d)'
    BY <1>3, Answers DEF Answer, Pending, page
  <2> QED
    BY <1>3, <2>1 DEF Answer, page
<1>4. ASSUME NEW c \in Slots, HandleList(c) PROVE PanelInv'
  <2>1. Pending(c)'
    BY <1>4 DEF HandleList, ChainsInv, ChainInv, Fields, Pending
  <2> QED
    BY <1>4, <2>1 DEF HandleList
<1>5. ASSUME NEW c \in Slots, Reloads(c) PROVE Pending(c)'
  BY <1>5 DEF Reloads, ChainsInv, ChainInv, Fields, Pending
<1>6. ASSUME NEW c \in Slots, HandlePost(c) PROVE PanelInv'
  BY <1>6, <1>5 DEF HandlePost
<1>7. ASSUME NEW c \in Slots, HandleDetail(c) PROVE PanelInv'
  <2> DEFINE detail == chain[c].answer
  <2>1. detail # Null /\ detail.run = chain[c].run /\ chain[c].at = "detail"
    BY <1>7 DEF HandleDetail, ChainsInv, ChainInv
  <2>2. CASE selectedId = detail.run /\ detail # fingerprint
    BY <1>7, <2>1, <2>2 DEF HandleDetail
  <2>3. CASE selectedId = detail.run /\ detail = fingerprint
    BY <1>7, <2>1, <2>3 DEF HandleDetail
  <2>4. CASE selectedId # detail.run
    <3>1. UNCHANGED <<selectedId, selected, fingerprint, panel>>
      BY <1>7, <2>4 DEF HandleDetail
    <3>2. \A d \in Slots \ {c} : chain'[d] = chain[d]
      BY <1>7, <2>4, Frees DEF HandleDetail
    <3>3. ~ Pending(c)
      BY <2>1, <2>4 DEF Pending
    <3>4. \A d \in Slots : Pending(d) => Pending(d)'
      BY <3>1, <3>2, <3>3 DEF Pending
    <3> QED
      BY <3>1, <3>4
  <2> QED
    BY <2>2, <2>3, <2>4
<1>8. ASSUME NEW c \in Slots, Fail(c) PROVE PanelInv'
  <2>1. CASE chain[c].at = "post"
    BY <1>8, <2>1, <1>5 DEF Fail
  <2>2. CASE chain[c].at # "post"
    BY <1>8, <2>2 DEF Fail
  <2> QED
    BY <2>1, <2>2
<1>9. ASSUME NEW call, NEW silent, NEW at \in {"list", "post"}, NEW run,
             Begin(Ask(call, silent, at, run)), UNCHANGED <<selected, fingerprint, panel>>
      PROVE  PanelInv'
  BY <1>9, Begins DEF Ask, Pending
<1>10. CASE Poll \/ Refresh
  BY <1>10, <1>9 DEF Poll, Refresh
<1>11. ASSUME NEW r \in RunIds, Select(r) PROVE PanelInv'
  BY <1>11, Begins DEF Select, Ask, Pending
<1>12. ASSUME NEW choice \in {"wait", "escalate"}, Submit(choice) PROVE PanelInv'
  BY <1>12, <1>9 DEF Submit
<1> QED
  BY <1>1, <1>2, <1>3, <1>4, <1>6, <1>7, <1>8, <1>10, <1>11, <1>12 DEF Next, Handle

-----------------------------------------------------------------------------

LEMMA ConsoleInvariant == Spec => []ConsoleInv
<1>1. Init => ConsoleInv
  BY InitInv
<1>2. ConsoleInv /\ [Next]_vars => ConsoleInv'
  BY ChainsStep, BusyStep, PanelStep DEF ConsoleInv
<1> QED
  BY <1>1, <1>2, PTL DEF Spec

\* setBusy and the checks of state.busy in app.js: one operation of the owner is in
\* flight at a time, and the flag says so.
THEOREM OwnerActsAlone == Spec => []OneOperation
<1>1. ConsoleInv => OneOperation
  BY DEF ConsoleInv, BusyInv
<1> QED
  BY <1>1, ConsoleInvariant, PTL

\* loadDetail's comparison with state.selectedId: when no request is in flight, the
\* panel shows the run that is selected, or no run.
THEOREM PageShowsSelection == Spec => []ShownIsSelected
<1>1. ConsoleInv => ShownIsSelected
  <2> SUFFICES ASSUME ConsoleInv, InFlight = {}, panel.run # Null
               PROVE  panel.run = selectedId /\ panel = selected
    BY DEF ShownIsSelected
  <2>1. \A c \in Slots : ~ Pending(c)
    BY DEF InFlight, ConsoleInv, ChainsInv, ChainInv, Pending
  <2> QED
    BY <2>1 DEF ConsoleInv, PanelInv
<1> QED
  BY <1>1, ConsoleInvariant, PTL

=============================================================================
