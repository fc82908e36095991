--------------------------- MODULE EvaluationSafety ---------------------------
(***************************************************************************)
(* The safety of the evaluations, proved for every value of the constants: *)
(* any number of processes, calls and keys, any world of the providers and *)
(* any calls of a model.                                                   *)
(*                                                                         *)
(* First what is stored: the elements of a sequence at some places, the    *)
(* rows of a timeline by type, and that a result which passes the check    *)
(* before the store passes the projection after it.  Then the invariants,  *)
(* each a conjunct of the next:                                            *)
(*   Control  how far a call has come, whose turn it is, who runs the agent *)
(*   Answers  what is answered is what is recorded                         *)
(*   Origins  every evaluation has the call that made it                   *)
(*   Tables   what the timelines hold, and what a waiting decision knows   *)
(*   Retries  what a refused decision has lost to                          *)
(* A step is quiet, a seed, a decision or a verification (Steps); the last *)
(* three move the tables, as one step of the register each.                *)
(***************************************************************************)
EXTENDS EvaluationProperties, FiniteSetTheorems, WellFoundedInduction, TLAPS

-----------------------------------------------------------------------------
(* The elements of a sequence at some of its places.                       *)

\* What is picked of each prefix of s.
Picks(c, s, places) ==
    c = [n \in 0..Len(s) |->
           IF n = 0 THEN <<>>
           ELSE IF n \in places THEN Append(c[n - 1], s[n]) ELSE c[n - 1]]

LEMMA PickedOnce ==
    ASSUME NEW s, Len(s) \in Nat, NEW places, NEW c, NEW d,
           Picks(c, s, places), Picks(d, s, places), NEW n \in 0..Len(s)
    PROVE  c[n] = d[n]
<1> DEFINE T == {i \in Nat : i <= Len(s) /\ c[i] # d[i]}
<1>1. \A i \in 0..Len(s) :
        /\ c[i] = IF i = 0 THEN <<>>
                  ELSE IF i \in places THEN Append(c[i - 1], s[i]) ELSE c[i - 1]
        /\ d[i] = IF i = 0 THEN <<>>
                  ELSE IF i \in places THEN Append(d[i - 1], s[i]) ELSE d[i - 1]
  BY Zenon DEF Picks
<1>2. SUFFICES ASSUME T # {} PROVE FALSE
  BY DEF T
<1>3. T \subseteq Nat
  OBVIOUS
<1>4. PICK i \in T : \A j \in T : ~ (<<j, i>> \in OpToRel(<, Nat))
  BY <1>2, <1>3, WFMin, NatLessThanWellFounded, Zenon
<1>5. i \in 0..Len(s) /\ c[i] # d[i]
  OBVIOUS
<1>6. i # 0
  BY <1>1, <1>5
<1>7. i - 1 \in 0..Len(s) /\ i - 1 \in Nat /\ i - 1 < i /\ i \in Nat
  BY <1>5, <1>6
<1>8. <<i - 1, i>> \in OpToRel(<, Nat)
  BY <1>7, Zenon DEF OpToRel
<1>9. i - 1 \notin T
  BY <1>4, <1>8
<1>10. c[i - 1] = d[i - 1]
  BY <1>7, <1>9
<1> QED BY <1>1, <1>5, <1>6, <1>10

LEMMA PickedIs ==
    ASSUME NEW s, Len(s) \in Nat, NEW places, NEW c, Picks(c, s, places)
    PROVE  Picked(s, places) = c[Len(s)]
<1> DEFINE R == CHOOSE p : p = [n \in 0..Len(s) |->
                                  IF n = 0 THEN <<>>
                                  ELSE IF n \in places THEN Append(p[n - 1], s[n])
                                  ELSE p[n - 1]]
<1>1. Picked(s, places) = R[Len(s)]
  BY Zenon DEF Picked
<1>2. Picks(R, s, places)
  BY Zenon DEF Picks
<1>3. Len(s) \in 0..Len(s)
  OBVIOUS
<1> HIDE DEF R
<1>4. R[Len(s)] = c[Len(s)]
  BY <1>2, <1>3, PickedOnce
<1> QED BY <1>1, <1>4

\* A sequence with its picks is one that can be gone through.
Walked(s, places) == \E c : Picks(c, s, places)

LEMMA WalkedEmpty ==
    ASSUME NEW places
    PROVE  Walked(<<>>, places) /\ Picked(<<>>, places) = <<>>
<1> DEFINE c == [n \in {0} |-> <<>>]
<1>1. 0..Len(<<>>) = {0} /\ Len(<<>>) = 0
  OBVIOUS
<1>2. Picks(c, <<>>, places)
  BY <1>1 DEF Picks
<1>3. c[0] = <<>>
  OBVIOUS
<1> HIDE DEF c
<1>4. Picked(<<>>, places) = c[0]
  BY <1>1, <1>2, PickedIs
<1> QED BY <1>2, <1>3, <1>4 DEF Walked

LEMMA WalkedAppend ==
    ASSUME NEW S, NEW s \in Seq(S), NEW e, NEW places, NEW before,
           before \cap (1..Len(s)) = places \cap (1..Len(s)), Walked(s, before)
    PROVE  /\ Walked(Append(s, e), places)
           /\ Picked(Append(s, e), places) =
                IF Len(s) + 1 \in places THEN Append(Picked(s, before), e)
                                         ELSE Picked(s, before)
<1>1. PICK c : Picks(c, s, before)
  BY DEF Walked
<1> DEFINE m == Append(s, e)
           last == Len(s) + 1
           d == [n \in 0..last |-> IF n = last
                   THEN (IF last \in places THEN Append(c[Len(s)], e) ELSE c[Len(s)])
                   ELSE c[n]]
<1>2. Len(s) \in Nat /\ Len(m) = last /\ m[last] = e /\ \A i \in 1..Len(s) : m[i] = s[i]
  <2>1. s \in Seq(S \cup {e}) /\ e \in S \cup {e}
    OBVIOUS
  <2> QED BY <2>1
<1>3. \A n \in 0..Len(s) :
        c[n] = IF n = 0 THEN <<>>
               ELSE IF n \in before THEN Append(c[n - 1], s[n]) ELSE c[n - 1]
  BY <1>1, Zenon DEF Picks
<1>4. \A n \in 0..last :
        d[n] = IF n = 0 THEN <<>>
               ELSE IF n \in places THEN Append(d[n - 1], m[n]) ELSE d[n - 1]
  <2>1. TAKE n \in 0..last
  <2>2. CASE n = last
    BY <1>2, <2>2
  <2>3. CASE n # last /\ n # 0
    <3>1. n \in 1..Len(s) /\ n - 1 \in 0..Len(s) /\ n - 1 # last
      BY <1>2, <2>3
    <3>2. d[n] = c[n] /\ d[n - 1] = c[n - 1] /\ m[n] = s[n]
      BY <1>2, <2>3, <3>1
    <3>3. n \in before <=> n \in places
      BY <3>1
    <3> QED BY <1>3, <2>3, <3>1, <3>2, <3>3
  <2>4. CASE n = 0
    BY <1>2, <1>3, <2>4
  <2> QED BY <2>2, <2>3, <2>4
<1>5. Picks(d, m, places)
  <2>1. DOMAIN d = 0..Len(m) /\ d = [n \in 0..Len(m) |-> d[n]]
    BY <1>2
  <2> HIDE DEF d, m
  <2> QED BY <1>2, <1>4, <2>1 DEF Picks
<1>6. d[Len(m)] = IF last \in places THEN Append(c[Len(s)], e) ELSE c[Len(s)]
  BY <1>2
<1> HIDE DEF d, m
<1>7. Picked(m, places) = d[Len(m)] /\ Picked(s, before) = c[Len(s)]
  BY <1>1, <1>2, <1>5, PickedIs
<1> QED BY <1>5, <1>6, <1>7 DEF Walked, m

-----------------------------------------------------------------------------
(* The rows of a timeline by their type.                                   *)

Typed(l) == \A type : Walked(l, {n \in DOMAIN l : l[n].type = type})

LEMMA OfTypeEmpty == Typed(<<>>) /\ \A type : OfType(<<>>, type) = <<>>
BY WalkedEmpty DEF Typed, OfType

LEMMA OfTypeAppend ==
    ASSUME NEW S, NEW l \in Seq(S), NEW e, Typed(l)
    PROVE  /\ Typed(Append(l, e))
           /\ \A type : OfType(Append(l, e), type) =
                IF e.type = type THEN Append(OfType(l, type), e) ELSE OfType(l, type)
<1> DEFINE m == Append(l, e)
           Places(s, type) == {n \in DOMAIN s : s[n].type = type}
<1>1. SUFFICES ASSUME NEW type
               PROVE  /\ Walked(m, Places(m, type))
                      /\ Picked(m, Places(m, type)) =
                           IF e.type = type THEN Append(Picked(l, Places(l, type)), e)
                                            ELSE Picked(l, Places(l, type))
  BY DEF Typed, OfType
<1>2. /\ Len(l) \in Nat /\ DOMAIN l = 1..Len(l) /\ DOMAIN m = 1..(Len(l) + 1)
      /\ m[Len(l) + 1] = e /\ \A i \in 1..Len(l) : m[i] = l[i]
  <2>1. l \in Seq(S \cup {e}) /\ e \in S \cup {e}
    OBVIOUS
  <2> QED BY <2>1
<1>3. Places(l, type) \cap (1..Len(l)) = Places(m, type) \cap (1..Len(l))
  BY <1>2
<1>4. Len(l) + 1 \in Places(m, type) <=> e.type = type
  BY <1>2
<1>5. Walked(l, Places(l, type))
  BY DEF Typed
<1> HIDE DEF m, Places
<1>6. /\ Walked(Append(l, e), Places(m, type))
      /\ Picked(Append(l, e), Places(m, type)) =
           IF Len(l) + 1 \in Places(m, type) THEN Append(Picked(l, Places(l, type)), e)
                                             ELSE Picked(l, Places(l, type))
  BY <1>3, <1>5, WalkedAppend
<1> QED BY <1>4, <1>6 DEF m

\* The rows of a result with three observations, and with two.
LEMMA SixRows ==
    ASSUME NEW a, NEW b, NEW c, NEW d, NEW e, NEW f,
           a.type = "started", b.type = "evidence", c.type = "evidence",
           d.type = "evidence", e.type = "policy", f.type = "completed"
    PROVE  LET l == <<a, b, c, d, e, f>> IN
           /\ Typed(l) /\ OfType(l, "started") = <<a>> /\ OfType(l, "evidence") = <<b, c, d>>
           /\ OfType(l, "policy") = <<e>> /\ OfType(l, "completed") = <<f>>
           /\ OfType(l, "decision") = <<>>
<1> DEFINE S == {a, b, c, d, e, f}
           l0 == <<>>
           l1 == <<a>>
           l2 == <<a, b>>
           l3 == <<a, b, c>>
           l4 == <<a, b, c, d>>
           l5 == <<a, b, c, d, e>>
           l6 == <<a, b, c, d, e, f>>
           Are(l, x, y, z, u) ==
              /\ Typed(l) /\ OfType(l, "started") = x /\ OfType(l, "evidence") = y
              /\ OfType(l, "policy") = z /\ OfType(l, "completed") = u
              /\ OfType(l, "decision") = <<>>
<1>0. Are(l0, <<>>, <<>>, <<>>, <<>>)
  BY OfTypeEmpty
<1>1. Are(l1, <<a>>, <<>>, <<>>, <<>>)
  <2>1. l1 = Append(l0, a) /\ l0 \in Seq(S)
    OBVIOUS
  <2>2. <<a>> = Append(<<>>, a)
    OBVIOUS
  <2> HIDE DEF S, l0, l1, l2, l3, l4, l5, l6
  <2>3. /\ Typed(l1)
        /\ \A type : OfType(l1, type) =
             IF a.type = type THEN Append(OfType(l0, type), a) ELSE OfType(l0, type)
    BY <1>0, <2>1, OfTypeAppend
  <2> QED BY <1>0, <2>2, <2>3
<1>2. Are(l2, <<a>>, <<b>>, <<>>, <<>>)
  <2>1. l2 = Append(l1, b) /\ l1 \in Seq(S)
    OBVIOUS
  <2>2. <<b>> = Append(<<>>, b)
    OBVIOUS
  <2> HIDE DEF S, l0, l1, l2, l3, l4, l5, l6
  <2>3. /\ Typed(l2)
        /\ \A type : OfType(l2, type) =
             IF b.type = type THEN Append(OfType(l1, type), b) ELSE OfType(l1, type)
    BY <1>1, <2>1, OfTypeAppend
  <2> QED BY <1>1, <2>2, <2>3
<1>3. Are(l3, <<a>>, <<b, c>>, <<>>, <<>>)
  <2>1. l3 = Append(l2, c) /\ l2 \in Seq(S)
    OBVIOUS
  <2>2. <<b, c>> = Append(<<b>>, c)
    OBVIOUS
  <2> HIDE DEF S, l0, l1, l2, l3, l4, l5, l6
  <2>3. /\ Typed(l3)
        /\ \A type : OfType(l3, type) =
             IF c.type = type THEN Append(OfType(l2, type), c) ELSE OfType(l2, type)
    BY <1>2, <2>1, OfTypeAppend
  <2> QED BY <1>2, <2>2, <2>3
<1>4. Are(l4, <<a>>, <<b, c, d>>, <<>>, <<>>)
  <2>1. l4 = Append(l3, d) /\ l3 \in Seq(S)
    OBVIOUS
  <2>2. <<b, c, d>> = Append(<<b, c>>, d)
    OBVIOUS
  <2> HIDE DEF S, l0, l1, l2, l3, l4, l5, l6
  <2>3. /\ Typed(l4)
        /\ \A type : OfType(l4, type) =
             IF d.type = type THEN Append(OfType(l3, type), d) ELSE OfType(l3, type)
    BY <1>3, <2>1, OfTypeAppend
  <2> QED BY <1>3, <2>2, <2>3
<1>5. Are(l5, <<a>>, <<b, c, d>>, <<e>>, <<>>)
  <2>1. l5 = Append(l4, e) /\ l4 \in Seq(S)
    OBVIOUS
  <2>2. <<e>> = Append(<<>>, e)
    OBVIOUS
  <2> HIDE DEF S, l0, l1, l2, l3, l4, l5, l6
  <2>3. /\ Typed(l5)
        /\ \A type : OfType(l5, type) =
             IF e.type = type THEN Append(OfType(l4, type), e) ELSE OfType(l4, type)
    BY <1>4, <2>1, OfTypeAppend
  <2> QED BY <1>4, <2>2, <2>3
<1>6. Are(l6, <<a>>, <<b, c, d>>, <<e>>, <<f>>)
  <2>1. l6 = Append(l5, f) /\ l5 \in Seq(S)
    OBVIOUS
  <2>2. <<f>> = Append(<<>>, f)
    OBVIOUS
  <2> HIDE DEF S, l0, l1, l2, l3, l4, l5, l6
  <2>3. /\ Typed(l6)
        /\ \A type : OfType(l6, type) =
             IF f.type = type THEN Append(OfType(l5, type), f) ELSE OfType(l5, type)
    BY <1>5, <2>1, OfTypeAppend
  <2> QED BY <1>5, <2>2, <2>3
<1> QED BY <1>6

LEMMA FiveRows ==
    ASSUME NEW a, NEW b, NEW c, NEW e, NEW f,
           a.type = "started", b.type = "evidence", c.type = "evidence",
           e.type = "policy", f.type = "completed"
    PROVE  LET l == <<a, b, c, e, f>> IN
           /\ Typed(l) /\ OfType(l, "started") = <<a>> /\ OfType(l, "evidence") = <<b, c>>
           /\ OfType(l, "policy") = <<e>> /\ OfType(l, "completed") = <<f>>
           /\ OfType(l, "decision") = <<>>
<1> DEFINE S == {a, b, c, e, f}
           l0 == <<>>
           l1 == <<a>>
           l2 == <<a, b>>
           l3 == <<a, b, c>>
           l4 == <<a, b, c, e>>
           l5 == <<a, b, c, e, f>>
           Are(l, x, y, z, u) ==
              /\ Typed(l) /\ OfType(l, "started") = x /\ OfType(l, "evidence") = y
              /\ OfType(l, "policy") = z /\ OfType(l, "completed") = u
              /\ OfType(l, "decision") = <<>>
<1>0. Are(l0, <<>>, <<>>, <<>>, <<>>)
  BY OfTypeEmpty
<1>1. Are(l1, <<a>>, <<>>, <<>>, <<>>)
  <2>1. l1 = Append(l0, a) /\ l0 \in Seq(S)
    OBVIOUS
  <2>2. <<a>> = Append(<<>>, a)
    OBVIOUS
  <2> HIDE DEF S, l0, l1, l2, l3, l4, l5
  <2>3. /\ Typed(l1)
        /\ \A type : OfType(l1, type) =
             IF a.type = type THEN Append(OfType(l0, type), a) ELSE OfType(l0, type)
    BY <1>0, <2>1, OfTypeAppend
  <2> QED BY <1>0, <2>2, <2>3
<1>2. Are(l2, <<a>>, <<b>>, <<>>, <<>>)
  <2>1. l2 = Append(l1, b) /\ l1 \in Seq(S)
    OBVIOUS
  <2>2. <<b>> = Append(<<>>, b)
    OBVIOUS
  <2> HIDE DEF S, l0, l1, l2, l3, l4, l5
  <2>3. /\ Typed(l2)
        /\ \A type : OfType(l2, type) =
             IF b.type = type THEN Append(OfType(l1, type), b) ELSE OfType(l1, type)
    BY <1>1, <2>1, OfTypeAppend
  <2> QED BY <1>1, <2>2, <2>3
<1>3. Are(l3, <<a>>, <<b, c>>, <<>>, <<>>)
  <2>1. l3 = Append(l2, c) /\ l2 \in Seq(S)
    OBVIOUS
  <2>2. <<b, c>> = Append(<<b>>, c)
    OBVIOUS
  <2> HIDE DEF S, l0, l1, l2, l3, l4, l5
  <2>3. /\ Typed(l3)
        /\ \A type : OfType(l3, type) =
             IF c.type = type THEN Append(OfType(l2, type), c) ELSE OfType(l2, type)
    BY <1>2, <2>1, OfTypeAppend
  <2> QED BY <1>2, <2>2, <2>3
<1>4. Are(l4, <<a>>, <<b, c>>, <<e>>, <<>>)
  <2>1. l4 = Append(l3, e) /\ l3 \in Seq(S)
    OBVIOUS
  <2>2. <<e>> = Append(<<>>, e)
    OBVIOUS
  <2> HIDE DEF S, l0, l1, l2, l3, l4, l5
  <2>3. /\ Typed(l4)
        /\ \A type : OfType(l4, type) =
             IF e.type = type THEN Append(OfType(l3, type), e) ELSE OfType(l3, type)
    BY <1>3, <2>1, OfTypeAppend
  <2> QED BY <1>3, <2>2, <2>3
<1>5. Are(l5, <<a>>, <<b, c>>, <<e>>, <<f>>)
  <2>1. l5 = Append(l4, f) /\ l4 \in Seq(S)
    OBVIOUS
  <2>2. <<f>> = Append(<<>>, f)
    OBVIOUS
  <2> HIDE DEF S, l0, l1, l2, l3, l4, l5
  <2>3. /\ Typed(l5)
        /\ \A type : OfType(l5, type) =
             IF f.type = type THEN Append(OfType(l4, type), f) ELSE OfType(l4, type)
    BY <1>4, <2>1, OfTypeAppend
  <2> QED BY <1>4, <2>2, <2>3
<1> QED BY <1>5

-----------------------------------------------------------------------------
(* What passes the check before the store passes the one after it.         *)

LEMMA KindsAre ==
    ASSUME NEW scenario
    PROVE  KindsOf(scenario) = IF scenario = "live-github-source-ci"
                                 THEN <<"source", "ci">> ELSE <<"source", "ci", "deployed">>
<1> DEFINE s == EvidenceKinds   t == SubSeq(s, 1, 2)
<1>1. /\ s \in Seq({"source", "ci", "deployed"}) /\ Len(s) = 3 /\ s[1] = "source" /\ s[2] = "ci"
      /\ s = <<"source", "ci", "deployed">>
  BY DEF EvidenceKinds
<1> HIDE DEF s
<1>2. t \in Seq({"source", "ci", "deployed"}) /\ Len(t) = 2 /\ t[1] = s[1] /\ t[2] = s[2]
  BY <1>1
<1>3. t = <<t[1], t[2]>>
  <2> HIDE DEF t
  <2> QED BY <1>2
<1> QED BY <1>1, <1>2, <1>3 DEF KindsOf, s

LEMMA EvaluationRows ==
    ASSUME NEW scenario, NEW result, NEW parent, NEW o, result.observations = o
    PROVE  LET l == EvaluationEvents(scenario, result, parent) IN
           /\ o = <<o[1], o[2], o[3]>> =>
                l = <<Started(scenario, parent), Evidence(o[1]), Evidence(o[2]), Evidence(o[3]),
                      PolicyEvent(result.policy), Completed(result.calls)>>
           /\ o = <<o[1], o[2]>> =>
                l = <<Started(scenario, parent), Evidence(o[1]), Evidence(o[2]),
                      PolicyEvent(result.policy), Completed(result.calls)>>
<1> DEFINE x == Started(scenario, parent)   y == PolicyEvent(result.policy)
           z == Completed(result.calls)
           E == [i \in DOMAIN o |-> Evidence(o[i])]
           e1 == Evidence(o[1])   e2 == Evidence(o[2])   e3 == Evidence(o[3])
<1>1. EvaluationEvents(scenario, result, parent) = <<x>> \o E \o <<y, z>>
  BY DEF EvaluationEvents
<1>2. ASSUME o = <<o[1], o[2], o[3]>> PROVE E = <<e1, e2, e3>>
  <2>1. DOMAIN o = 1..3
    BY <1>2
  <2> HIDE DEF e1, e2, e3
  <2> QED BY <2>1 DEF e1, e2, e3
<1>3. ASSUME o = <<o[1], o[2]>> PROVE E = <<e1, e2>>
  <2>1. DOMAIN o = 1..2
    BY <1>3
  <2> QED BY <2>1
<1> HIDE DEF x, y, z, E, e1, e2, e3
<1>4. /\ <<x, e1, e2, e3>> = <<x>> \o <<e1, e2, e3>>
      /\ <<x, e1, e2, e3, y, z>> = <<x, e1, e2, e3>> \o <<y, z>>
  OBVIOUS
<1>5. /\ <<x, e1, e2>> = <<x>> \o <<e1, e2>>
      /\ <<x, e1, e2, y, z>> = <<x, e1, e2>> \o <<y, z>>
  OBVIOUS
<1> QED BY <1>1, <1>2, <1>3, <1>4, <1>5 DEF x, y, z, e1, e2, e3

\* A run's result that matches has the observations of its scenario in order.
LEMMA Observed ==
    ASSUME NEW scenario, NEW order, NEW world,
           ResultMatches(RunResult(scenario, order, world), scenario)
    PROVE  LET o == RunResult(scenario, order, world).observations IN
           /\ scenario = "live-github-source-ci" => o = <<o[1], o[2]>>
           /\ scenario # "live-github-source-ci" => o = <<o[1], o[2], o[3]>>
           /\ o[1].value = world["source"]
<1> DEFINE o == RunResult(scenario, order, world).observations
<1>1. o = [i \in DOMAIN order |-> [kind |-> order[i], value |-> world[order[i]]]]
  BY DEF RunResult, Observations
<1>2. [i \in DOMAIN o |-> o[i].kind] = KindsOf(scenario)
  BY DEF ResultMatches, KindsInOrder
<1>3. DOMAIN o = DOMAIN order /\ DOMAIN o = DOMAIN KindsOf(scenario)
      /\ \A i \in DOMAIN o : o[i].kind = KindsOf(scenario)[i] /\ o[i].value = world[o[i].kind]
  <2>1. DOMAIN o = DOMAIN order /\ \A i \in DOMAIN o : o[i].value = world[o[i].kind]
    BY <1>1
  <2> HIDE DEF o
  <2> QED BY <1>2, <2>1
<1>4. o = [i \in DOMAIN o |-> o[i]]
  BY <1>1
<1> HIDE DEF o
<1>5. CASE scenario = "live-github-source-ci"
  BY <1>3, <1>4, <1>5, KindsAre DEF o
<1>6. CASE scenario # "live-github-source-ci"
  BY <1>3, <1>4, <1>6, KindsAre DEF o
<1> QED BY <1>5, <1>6 DEF o

\* The rows of a result, and what is read back from them.
ReadsBack(scenario, result, parent, l) ==
    LET evidence == OfType(l, "evidence")
    IN /\ Typed(l)
       /\ Len(l) \in Nat /\ Len(l) > 0 /\ l = [i \in 1..Len(l) |-> l[i]]
       /\ \A i \in 1..Len(l) : l[i].type # "decision"
       /\ OfType(l, "started") = <<Started(scenario, parent)>>
       /\ [i \in DOMAIN evidence |-> evidence[i].observation] = result.observations
       /\ OfType(l, "policy") = <<PolicyEvent(result.policy)>>
       /\ OfType(l, "completed") = <<Completed(result.calls)>>
       /\ OfType(l, "decision") = <<>>

LEMMA ReadBack ==
    ASSUME NEW scenario, NEW order, NEW world, NEW parent,
           ResultMatches(RunResult(scenario, order, world), scenario)
    PROVE  LET result == RunResult(scenario, order, world) IN
           ReadsBack(scenario, result, parent, EvaluationEvents(scenario, result, parent))
<1> DEFINE result == RunResult(scenario, order, world)
           o == result.observations
           l == EvaluationEvents(scenario, result, parent)
           evidence == OfType(l, "evidence")
           x == Started(scenario, parent)   y == PolicyEvent(result.policy)
           z == Completed(result.calls)
           e1 == Evidence(o[1])   e2 == Evidence(o[2])   e3 == Evidence(o[3])
<1>1. /\ x.type = "started" /\ y.type = "policy" /\ z.type = "completed"
      /\ e1.type = "evidence" /\ e2.type = "evidence" /\ e3.type = "evidence"
      /\ e1.observation = o[1] /\ e2.observation = o[2] /\ e3.observation = o[3]
  BY DEF Started, PolicyEvent, Completed, Evidence
<1>2. /\ scenario = "live-github-source-ci" => o = <<o[1], o[2]>>
      /\ scenario # "live-github-source-ci" => o = <<o[1], o[2], o[3]>>
  BY Observed
<1>3. /\ o = <<o[1], o[2], o[3]>> => l = <<x, e1, e2, e3, y, z>>
      /\ o = <<o[1], o[2]>> => l = <<x, e1, e2, y, z>>
  <2> HIDE DEF result
  <2> QED BY EvaluationRows
<1> HIDE DEF result, o, l, x, y, z, e1, e2, e3
<1>4. CASE o = <<o[1], o[2], o[3]>>
  <2>1. l = <<x, e1, e2, e3, y, z>>
    BY <1>3, <1>4
  <2>2. /\ Typed(l) /\ OfType(l, "started") = <<x>> /\ evidence = <<e1, e2, e3>>
        /\ OfType(l, "policy") = <<y>> /\ OfType(l, "completed") = <<z>>
        /\ OfType(l, "decision") = <<>>
    BY <1>1, <2>1, SixRows
  <2>3. [i \in DOMAIN evidence |-> evidence[i].observation] = <<o[1], o[2], o[3]>>
    BY <1>1, <2>2
  <2>4. Len(l) = 6 /\ l = [i \in 1..6 |-> l[i]] /\ \A i \in 1..6 : l[i].type # "decision"
    BY <1>1, <2>1
  <2> QED BY <1>4, <2>2, <2>3, <2>4 DEF ReadsBack, l, result, x, y, z, o
<1>5. CASE o = <<o[1], o[2]>>
  <2>1. l = <<x, e1, e2, y, z>>
    BY <1>3, <1>5
  <2>2. /\ Typed(l) /\ OfType(l, "started") = <<x>> /\ evidence = <<e1, e2>>
        /\ OfType(l, "policy") = <<y>> /\ OfType(l, "completed") = <<z>>
        /\ OfType(l, "decision") = <<>>
    BY <1>1, <2>1, FiveRows
  <2>3. [i \in DOMAIN evidence |-> evidence[i].observation] = <<o[1], o[2]>>
    BY <1>1, <2>2
  <2>4. Len(l) = 5 /\ l = [i \in 1..5 |-> l[i]] /\ \A i \in 1..5 : l[i].type # "decision"
    BY <1>1, <2>1
  <2> QED BY <1>5, <2>2, <2>3, <2>4 DEF ReadsBack, l, result, x, y, z, o
<1> QED BY <1>2, <1>4, <1>5

LEMMA Numbered ==
    ASSUME NEW n \in Nat, NEW l, DOMAIN l = 1..n
    PROVE  DOMAIN l = 1..Cardinality(DOMAIN l)
<1>1. Cardinality(1..n) = n
  BY FS_Interval
<1> QED BY <1>1

LEMMA ResultProjects ==
    ASSUME NEW scenario, NEW order, NEW world, NEW parent,
           ResultMatches(RunResult(scenario, order, world), scenario)
    PROVE  LET result == RunResult(scenario, order, world) IN
           Projects(EvaluationRecord(scenario, result.candidate, parent),
                    EvaluationEvents(scenario, result, parent))
<1> DEFINE result == RunResult(scenario, order, world)
           record == EvaluationRecord(scenario, result.candidate, parent)
           l == EvaluationEvents(scenario, result, parent)
           evidence == OfType(l, "evidence")
           seen == [i \in DOMAIN evidence |-> evidence[i].observation]
           started == OfType(l, "started")[1]
           policy == OfType(l, "policy")[1].policy
           calls == OfType(l, "completed")[1].calls
<1>1. /\ Len(l) \in Nat /\ l = [i \in 1..Len(l) |-> l[i]]
      /\ OfType(l, "started") = <<Started(scenario, parent)>>
      /\ seen = result.observations
      /\ OfType(l, "policy") = <<PolicyEvent(result.policy)>>
      /\ OfType(l, "completed") = <<Completed(result.calls)>>
      /\ OfType(l, "decision") = <<>>
  BY ReadBack DEF ReadsBack
<1>2. result.observations[1].value = world["source"]
  BY Observed
<1>3. /\ record.scenario = scenario /\ record.parent = parent
      /\ record.candidate = Candidate(scenario, world)
  BY DEF EvaluationRecord, RunResult
<1>4. IsLive(scenario) => Candidate(scenario, world).commit = world["source"]
  BY DEF Candidate
<1>5. scenario = "live-release-verification" =>
         Candidate(scenario, world).url = "marker origin"
  BY DEF Candidate
<1> HIDE DEF result, record, l, evidence
<1>6. DOMAIN l = 1..Cardinality(DOMAIN l)
  <2>1. DOMAIN l = 1..Len(l)
    BY <1>1
  <2> QED BY <1>1, <2>1, Numbered
<1>7. /\ started.scenario = record.scenario /\ started.parent = record.parent
      /\ policy = result.policy /\ calls = result.calls
  BY <1>1, <1>3 DEF Started, PolicyEvent, Completed
<1>8. \A type \in {"started", "policy", "completed"} : Len(OfType(l, type)) = 1
  BY <1>1
<1>9. ResultMatches(result, scenario)
  BY DEF result
<1> HIDE DEF seen, started, policy, calls
<1>10. Len(OfType(l, "decision")) <= 1
  BY <1>1
<1>11. Projects(record, l)
  BY <1>1, <1>2, <1>3, <1>4, <1>5, <1>6, <1>7, <1>8, <1>9, <1>10, Zenon
     DEF Projects, ResultMatches, seen, evidence, started, policy, calls
<1> QED BY <1>11 DEF result, record, l

\* A decision that the verdict allows keeps a timeline readable.
LEMMA DecidedProjects ==
    ASSUME NEW record, NEW S, NEW l \in Seq(S), NEW decision, NEW child,
           Typed(l), Projects(record, l), OfType(l, "decision") = <<>>,
           Contains(Verdict(l).allowed, decision)
    PROVE  LET m == Append(l, DecisionEvent(decision, child)) IN
           /\ Typed(m) /\ Projects(record, m) /\ Verdict(m) = Verdict(l)
           /\ OfType(m, "decision") = <<DecisionEvent(decision, child)>>
<1> DEFINE e == DecisionEvent(decision, child)
           m == Append(l, e)
           Seen(s) == [i \in DOMAIN OfType(s, "evidence") |-> OfType(s, "evidence")[i].observation]
<1>1. e.type = "decision" /\ e.decision = decision
  BY DEF DecisionEvent
<1>2. Typed(m) /\ \A type : OfType(m, type) =
         IF e.type = type THEN Append(OfType(l, type), e) ELSE OfType(l, type)
  <2> HIDE DEF e
  <2> QED BY OfTypeAppend
<1>3. Len(l) \in Nat /\ DOMAIN m = 1..(Len(l) + 1)
  OBVIOUS
<1> HIDE DEF e
<1>4. <<e>> = Append(<<>>, e)
  OBVIOUS
<1> HIDE DEF m
<1>5. /\ \A type \in {"started", "policy", "completed", "evidence"} :
            OfType(m, type) = OfType(l, type)
      /\ OfType(m, "decision") = <<e>>
  BY <1>1, <1>2, <1>4
<1>6. Verdict(m) = Verdict(l) /\ Seen(m) = Seen(l)
  BY <1>5 DEF Verdict
<1>7. DOMAIN m = 1..Cardinality(DOMAIN m)
  BY <1>3, Numbered
<1>8. Len(OfType(m, "decision")) <= 1 /\ OfType(m, "decision")[1].decision = decision
  <2>1. Len(<<e>>) = 1 /\ <<e>>[1] = e
    OBVIOUS
  <2>2. OfType(m, "decision") = <<e>>
    BY <1>5
  <2>3. Len(OfType(m, "decision")) = 1 /\ OfType(m, "decision")[1] = e
    BY <2>1, <2>2, Zenon
  <2>4. \A n : n = 1 => n <= 1
    OBVIOUS
  <2> QED BY <1>1, <2>3, <2>4, Zenon
<1>9. Projects(record, m)
  <2>1. /\ OfType(m, "started") = OfType(l, "started")
        /\ OfType(m, "policy") = OfType(l, "policy")
        /\ OfType(m, "completed") = OfType(l, "completed")
        /\ OfType(m, "evidence") = OfType(l, "evidence")
    BY <1>5
  <2> QED BY <1>7, <1>8, <2>1, Zenon DEF Projects, Verdict
<1> QED BY <1>2, <1>5, <1>6, <1>9 DEF m, e

-----------------------------------------------------------------------------
(* The fixtures.                                                           *)

LEMMA FixtureResult ==
    ASSUME NEW scenario \in {"ready", "deployed-sha-mismatch"}
    PROVE  ResultMatches(RunResult(scenario, FixtureOrder, Fixture(scenario)), scenario)
<1> DEFINE w == Fixture(scenario)
           result == RunResult(scenario, FixtureOrder, w)
           o == result.observations
           o1 == [kind |-> "source", value |-> "A"]
           o2 == [kind |-> "ci", value |-> "success"]
           o3 == [kind |-> "deployed", value |-> w.deployed]
           P == {i \in DOMAIN EvidenceKinds : EvidenceKinds[i] \in Kinds(o)}
<1>1. FixtureOrder = <<"source", "ci", "deployed">> /\ EvidenceKinds = FixtureOrder
  BY DEF FixtureOrder, EvidenceKinds
<1>2. w["source"] = "A" /\ w["ci"] = "success" /\ w["deployed"] = w.deployed
  BY DEF Fixture
<1>3. o = <<o1, o2, o3>>
  <2>1. o = [i \in DOMAIN FixtureOrder |-> [kind |-> FixtureOrder[i], value |-> w[FixtureOrder[i]]]]
    BY DEF RunResult, Observations
  <2>2. /\ DOMAIN FixtureOrder = 1..3 /\ FixtureOrder[1] = "source" /\ FixtureOrder[2] = "ci"
        /\ FixtureOrder[3] = "deployed"
    BY <1>1
  <2> HIDE DEF o, w
  <2>3. o = [i \in 1..3 |-> IF i = 1 THEN o1 ELSE IF i = 2 THEN o2 ELSE o3]
    BY <1>2, <2>1, <2>2
  <2> HIDE DEF o1, o2, o3
  <2> QED BY <2>3
<1>4. Kinds(o) = {"source", "ci", "deployed"}
  <2> HIDE DEF o, w
  <2> QED BY <1>3 DEF Kinds
<1>5. Picked(EvidenceKinds, P) = <<"source", "ci", "deployed">>
  <2> DEFINE S == {"source", "ci", "deployed"}
             k1 == <<"source">>   k2 == <<"source", "ci">>   k3 == <<"source", "ci", "deployed">>
  <2>1. P = {1, 2, 3}
    <3> HIDE DEF o
    <3> QED BY <1>1, <1>4
  <2> HIDE DEF P, o, result
  <2>2. k1 = Append(<<>>, "source") /\ <<>> \in Seq(S) /\ Len(<<>>) = 0
    OBVIOUS
  <2>3. k2 = Append(k1, "ci") /\ k1 \in Seq(S) /\ Len(k1) = 1
    OBVIOUS
  <2>4. k3 = Append(k2, "deployed") /\ k2 \in Seq(S) /\ Len(k2) = 2
    OBVIOUS
  <2>5. Walked(<<>>, P) /\ Picked(<<>>, P) = <<>>
    BY WalkedEmpty
  <2> HIDE DEF k1, k2, k3, S
  <2>6. Walked(k1, P) /\ Picked(k1, P) = k1
    <3>1. /\ Walked(Append(<<>>, "source"), P)
          /\ Picked(Append(<<>>, "source"), P) =
               IF Len(<<>>) + 1 \in P THEN Append(Picked(<<>>, P), "source") ELSE Picked(<<>>, P)
      BY <2>2, <2>5, WalkedAppend, Zenon
    <3>2. Len(<<>>) + 1 \in P
      BY <2>1, <2>2
    <3> QED BY <2>2, <2>5, <3>1, <3>2, Zenon
  <2>7. Walked(k2, P) /\ Picked(k2, P) = k2
    <3>1. /\ Walked(Append(k1, "ci"), P)
          /\ Picked(Append(k1, "ci"), P) =
               IF Len(k1) + 1 \in P THEN Append(Picked(k1, P), "ci") ELSE Picked(k1, P)
      BY <2>3, <2>6, WalkedAppend, Zenon
    <3>2. Len(k1) + 1 \in P
      BY <2>1, <2>3
    <3> QED BY <2>3, <2>6, <3>1, <3>2, Zenon
  <2>8. Walked(k3, P) /\ Picked(k3, P) = k3
    <3>1. /\ Walked(Append(k2, "deployed"), P)
          /\ Picked(Append(k2, "deployed"), P) =
               IF Len(k2) + 1 \in P THEN Append(Picked(k2, P), "deployed") ELSE Picked(k2, P)
      BY <2>4, <2>7, WalkedAppend, Zenon
    <3>2. Len(k2) + 1 \in P
      BY <2>1, <2>4
    <3> QED BY <2>4, <2>7, <3>1, <3>2, Zenon
  <2> QED BY <1>1, <2>8 DEF k3
<1>6. /\ ValueOf("source", o) = "A" /\ ValueOf("ci", o) = "success"
      /\ ValueOf("deployed", o) = w.deployed
  <2> HIDE DEF o, w
  <2>1. /\ DOMAIN o = 1..3 /\ o[1].kind = "source" /\ o[2].kind = "ci" /\ o[3].kind = "deployed"
        /\ o[1].value = "A" /\ o[2].value = "success" /\ o[3].value = w.deployed
    BY <1>3
  <2> QED BY <2>1 DEF ValueOf
<1>7. w.deployed = IF scenario = "ready" THEN "A" ELSE "B"
  BY DEF Fixture
<1>8. /\ result.candidate.commit = "A"
      /\ result.policy = EvaluateReleaseMismatch("A", o)
      /\ result.calls = Receipts(FixtureOrder, w, FALSE)
  BY DEF RunResult, Candidate, IsLive
<1> HIDE DEF w, result, P
<1>9. /\ result.policy.outcome = IF scenario = "ready" THEN "Ready" ELSE "Needs decision"
      /\ result.policy.allowed = IF scenario = "ready" THEN <<>>
                                 ELSE <<"Reject", "Re-check requested">>
      /\ result.policy.evidence = <<"source", "ci", "deployed">>
  <2> DEFINE contradicted ==
               \/ "source" \in Kinds(o) /\ ValueOf("source", o) # "A"
               \/ "ci" \in Kinds(o) /\ ValueOf("ci", o) # "success"
             complete == \A i \in DOMAIN EvidenceKinds : EvidenceKinds[i] \in Kinds(o)
             verdict == IF contradicted \/ ~ complete THEN "Could not complete"
                        ELSE IF ValueOf("deployed", o) # "A" THEN "Needs decision" ELSE "Ready"
             none == <<>>
             some == <<"Reject", "Re-check requested">>
             allowed == IF verdict = "Needs decision" THEN some ELSE none
             evidence == Picked(EvidenceKinds, P)
  <2> HIDE DEF o
  <2>1. result.policy = [outcome |-> verdict, allowed |-> allowed, evidence |-> evidence]
    BY <1>8, Zenon DEF EvaluateReleaseMismatch, P
  <2>2. ~ contradicted /\ complete
    BY <1>1, <1>4, <1>6
  <2>3. verdict = IF scenario = "ready" THEN "Ready" ELSE "Needs decision"
    BY <1>6, <1>7, <2>2
  <2> HIDE DEF verdict, some, none, allowed, evidence
  <2>4. /\ result.policy.outcome = verdict /\ result.policy.allowed = allowed
        /\ result.policy.evidence = evidence
    BY <2>1
  <2>5. /\ scenario = "ready" => result.policy.allowed = none
        /\ scenario # "ready" => result.policy.allowed = some
    BY <2>3, <2>4 DEF allowed
  <2>6. result.policy.allowed = IF scenario = "ready" THEN <<>>
                                ELSE <<"Reject", "Re-check requested">>
    BY <2>5, Zenon DEF some, none
  <2> QED BY <1>5, <2>3, <2>4, <2>6, Zenon DEF evidence
<1>10. KindsInOrder(o) = <<"source", "ci", "deployed">>
  BY <1>3 DEF KindsInOrder
<1>11. ToolsInOrder(result.calls) = <<"source", "ci", "deployed">>
  BY <1>1, <1>8 DEF ToolsInOrder, Receipts, Receipt
<1>12. KindsOf(scenario) = <<"source", "ci", "deployed">>
  BY KindsAre
<1> QED BY <1>9, <1>10, <1>11, <1>12 DEF ResultMatches, VerdictFits, result, w


-----------------------------------------------------------------------------
(* The calls, the turns and the map of runs.                               *)

Fields == {"pc", "at", "kind", "target", "decision", "key", "next", "owner", "reply"}
Labels == {"new", "check", "commit", "building", "verifying", "joined", "done", "lost"}

Shape ==
    /\ DOMAIN call = Calls /\ \A c \in Calls : DOMAIN call[c] = Fields
    /\ DOMAIN turn = Processes
    /\ DOMAIN running = Processes /\ \A p \in Processes : DOMAIN running[p] = Releases
    /\ DOMAIN timeline = DOMAIN evaluations

\* What a call is, by how far it has come.
AskedInv(c) ==
    /\ call[c].pc \in Labels
    /\ call[c].pc \notin {"new", "lost"} => call[c].at \in Processes
    /\ call[c].pc # "done" => call[c].reply = NoReply
    /\ call[c].pc \in {"check", "commit", "building"} => call[c].kind = "decide"
    /\ call[c].pc \in {"verifying", "joined"} => call[c].kind = "verify" /\ call[c].key \in Releases
    /\ call[c].pc = "done" => call[c].kind \in {"decide", "verify"}
    /\ call[c].kind = "verify" => call[c].target = NoParent
    /\ call[c].kind = "decide" => call[c].decision \in Decisions

\* A call between two awaits has its process to itself.
TurnInv(c) == call[c].pc \in {"check", "commit"} => turn[call[c].at] = c

\* A call that joined a run waits for one that has the same to do.
OwnerInv(c) ==
    call[c].pc = "joined" =>
      LET owner == call[c].owner
      IN /\ owner \in Calls /\ call[owner].pc \in {"verifying", "done"}
         /\ call[owner].kind = "verify"
         /\ call[owner].at = call[c].at /\ call[owner].key = call[c].key

\* The map of runs holds exactly the calls that run the agent.
RunInv ==
    \A p \in Processes, k \in Releases, c \in Calls :
      call[c].at = p /\ call[c].key = k /\ call[c].pc = "verifying" <=> running[p][k] = c

Entries == \A p \in Processes, k \in Releases : running[p][k] \in Calls \cup {NoCall}

Control ==
    /\ Shape /\ Entries /\ RunInv
    /\ \A c \in Calls : AskedInv(c) /\ TurnInv(c) /\ OwnerInv(c)

LEMMA ControlInit == Init => Control
<1> SUFFICES ASSUME Init PROVE Control
  OBVIOUS
<1>1. \A c \in Calls : call[c] = Unsent
  BY DEF Init
<1>2. Shape
  BY DEF Init, LedgerInit, Shape, Unsent, Fields
<1>3. Entries /\ RunInv
  BY EvaluationAssumption, <1>1 DEF Init, Entries, RunInv, Unsent
<1>4. ASSUME NEW c \in Calls PROVE AskedInv(c) /\ TurnInv(c) /\ OwnerInv(c)
  BY <1>1 DEF AskedInv, TurnInv, OwnerInv, Unsent, Labels
<1> QED BY <1>2, <1>3, <1>4 DEF Control

\* The steps of a call, field by field.
Others(c) == \A d \in Calls : d # c => call'[d] = call[d]
SameAsk(c) ==
    /\ call'[c].at = call[c].at /\ call'[c].kind = call[c].kind
    /\ call'[c].target = call[c].target /\ call'[c].decision = call[c].decision
    /\ call'[c].key = call[c].key
AsksFor(c, p, kind, target, decision, key) ==
    /\ call'[c].at = p /\ call'[c].kind = kind /\ call'[c].target = target
    /\ call'[c].decision = decision /\ call'[c].key = key
CallsKept == DOMAIN call' = Calls /\ \A c \in Calls : DOMAIN call'[c] = Fields

LEMMA Answering ==
    ASSUME Shape, NEW c \in Calls, NEW reply, call' = Answered(c, reply)
    PROVE  /\ CallsKept /\ Others(c) /\ SameAsk(c)
           /\ call'[c].pc = "done" /\ call'[c].reply = reply
BY DEF Shape, Fields, Answered, CallsKept, Others, SameAsk

LEMMA DecisionArrives ==
    ASSUME Shape, NEW c \in Calls, NEW p \in Processes, NEW id, NEW decision, NEW key,
           ArriveDecision(c, p, id, decision, key)
    PROVE  LET at == <<<<"decide", id>>, key>>
               found == Lookup(at, decision) IN
           /\ CallsKept /\ Others(c) /\ AsksFor(c, p, "decide", id, decision, key)
           /\ call[c].pc = "new" /\ Free(p) /\ UNCHANGED <<ledgerVars, stage, running, restarts>>
           /\ found = "absent" => /\ call'[c].pc = "check" /\ call'[c].reply = NoReply
                                  /\ turn' = [turn EXCEPT ![p] = c]
           /\ found # "absent" =>
                /\ call'[c].pc = "done" /\ turn' = turn
                /\ call'[c].reply = IF found = "found"
                                      THEN Reply("replayed", idempotency[at].response)
                                      ELSE Reply("conflict", NoRecord)
<1> DEFINE at == <<<<"decide", id>>, key>>
           found == Lookup(at, decision)
           asked == Asked(c, p, "decide", id, decision, key)
           reply == IF found = "found" THEN Reply("replayed", idempotency[at].response)
                    ELSE Reply("conflict", NoRecord)
           checked == [asked EXCEPT !.pc = "check"]
           answered == [asked EXCEPT !.pc = "done", !.reply = reply]
<1>1. /\ call[c].pc = "new" /\ Free(p) /\ UNCHANGED <<ledgerVars, stage, running, restarts>>
      /\ found = "absent" => call' = [call EXCEPT ![c] = checked] /\ turn' = [turn EXCEPT ![p] = c]
      /\ found # "absent" => call' = [call EXCEPT ![c] = answered] /\ turn' = turn
  BY Zenon DEF ArriveDecision
<1> HIDE DEF found, reply
<1>2. /\ DOMAIN asked = Fields /\ asked.at = p /\ asked.kind = "decide" /\ asked.target = id
      /\ asked.decision = decision /\ asked.key = key /\ asked.reply = NoReply
  BY DEF Asked, Unsent, Fields
<1> HIDE DEF asked
<1>3. /\ DOMAIN checked = Fields /\ checked.at = p /\ checked.kind = "decide"
      /\ checked.target = id /\ checked.decision = decision /\ checked.key = key
      /\ checked.reply = NoReply /\ checked.pc = "check"
      /\ DOMAIN answered = Fields /\ answered.at = p /\ answered.kind = "decide"
      /\ answered.target = id /\ answered.decision = decision /\ answered.key = key
      /\ answered.reply = reply /\ answered.pc = "done"
  BY <1>2 DEF Fields
<1> HIDE DEF checked, answered
<1>4. CASE found = "absent"
  BY <1>1, <1>3, <1>4 DEF CallsKept, Others, AsksFor, Shape, found
<1>5. CASE found # "absent"
  BY <1>1, <1>3, <1>5 DEF CallsKept, Others, AsksFor, Shape, found, reply
<1> QED BY <1>4, <1>5

LEMMA DecisionIsChecked ==
    ASSUME Shape, NEW c \in Calls, CheckDecision(c)
    PROVE  LET refusal == Refusal(call[c].target, call[c].decision) IN
           /\ CallsKept /\ Others(c) /\ SameAsk(c)
           /\ call[c].pc = "check" /\ UNCHANGED <<ledgerVars, stage, running, restarts>>
           /\ refusal # "none" =>
                /\ call'[c].pc = "done" /\ call'[c].reply = Reply(refusal, NoRecord)
                /\ turn' = [turn EXCEPT ![call[c].at] = NoCall]
           /\ refusal = "none" =>
                /\ call'[c].pc = IF call[c].decision = "Reject" THEN "commit" ELSE "building"
                /\ call'[c].reply = call[c].reply
                /\ call'[c].next = Len(timeline[call[c].target]) + 1
                /\ turn' = [turn EXCEPT ![call[c].at] =
                              IF call[c].decision = "Reject" THEN c ELSE NoCall]
<1> DEFINE refusal == Refusal(call[c].target, call[c].decision)
           next == Len(timeline[call[c].target]) + 1
           pc == IF call[c].decision = "Reject" THEN "commit" ELSE "building"
<1>1. /\ call[c].pc = "check" /\ UNCHANGED <<ledgerVars, stage, running, restarts>>
      /\ refusal # "none" => /\ call' = Answered(c, Reply(refusal, NoRecord))
                             /\ turn' = [turn EXCEPT ![call[c].at] = NoCall]
      /\ refusal = "none" => /\ call' = [call EXCEPT ![c].next = next, ![c].pc = pc]
                             /\ turn' = [turn EXCEPT ![call[c].at] =
                                           IF call[c].decision = "Reject" THEN c ELSE NoCall]
  BY Zenon DEF CheckDecision
<1> HIDE DEF refusal, next
<1>2. CASE refusal # "none"
  BY <1>1, <1>2, Answering DEF refusal
<1>3. CASE refusal = "none"
  <2>1. call' = [call EXCEPT ![c].next = next, ![c].pc = pc]
    BY <1>1, <1>3
  <2> HIDE DEF pc
  <2>2. CallsKept /\ Others(c) /\ SameAsk(c) /\ call'[c].reply = call[c].reply
        /\ call'[c].pc = pc /\ call'[c].next = next
    BY <2>1 DEF Shape, Fields, CallsKept, Others, SameAsk
  <2> QED BY <1>1, <1>3, <2>2 DEF refusal, next, pc
<1> QED BY <1>2, <1>3

\* What a decision writes: its rows, and its answer.
DecisionEvents(c) == Added(DecisionRows(c), ChildEvents(c))
DecisionRecord(c) == [at |-> AnswerAt(c), request |-> Request(c), response |-> DecisionResponse(c)]

LEMMA DecisionCommits ==
    ASSUME Shape, NEW c \in Calls, CommitDecision(c)
    PROVE  LET result == CommitResult(ChildRecords(c), DecisionEvents(c), DecisionRecord(c)) IN
           /\ CallsKept /\ Others(c) /\ SameAsk(c)
           /\ \/ call[c].pc = "commit" /\ turn[call[c].at] = c
              \/ call[c].pc = "building" /\ Free(call[c].at)
           /\ Commit(ChildRecords(c), DecisionEvents(c), DecisionRecord(c))
           /\ call'[c].pc = "done"
           /\ call'[c].reply = CommitReply(result, DecisionResponse(c), AnswerAt(c))
           /\ turn' = [turn EXCEPT ![call[c].at] = NoCall]
           /\ UNCHANGED <<stage, running, restarts>>
<1> DEFINE result == CommitResult(ChildRecords(c), DecisionEvents(c), DecisionRecord(c))
           reply == CommitReply(result, DecisionResponse(c), AnswerAt(c))
<1>1. /\ \/ call[c].pc = "commit" /\ turn[call[c].at] = c
         \/ call[c].pc = "building" /\ Free(call[c].at)
      /\ Commit(ChildRecords(c), DecisionEvents(c), DecisionRecord(c))
      /\ call' = Answered(c, reply)
      /\ turn' = [turn EXCEPT ![call[c].at] = NoCall]
      /\ UNCHANGED <<stage, running, restarts>>
  BY Zenon DEF CommitDecision, DecisionEvents, DecisionRecord
<1> HIDE DEF reply, result
<1>2. CallsKept /\ Others(c) /\ SameAsk(c) /\ call'[c].pc = "done" /\ call'[c].reply = reply
  BY <1>1, Answering
<1> QED BY <1>1, <1>2, Zenon DEF reply, result

\* The map of runs names c for a key of a process.
Enters(p, key, c) == running' = [running EXCEPT ![p][key] = c]

LEMMA VerificationArrives ==
    ASSUME Shape, NEW c \in Calls, NEW p \in Processes, NEW key, ArriveVerification(c, p, key)
    PROVE  LET at == <<<<"verify", NoParent>>, key>> IN
           /\ CallsKept /\ Others(c) /\ AsksFor(c, p, "verify", NoParent, "none", key)
           /\ call[c].pc = "new" /\ Free(p) /\ UNCHANGED <<ledgerVars, stage, turn, restarts>>
           /\ \/ /\ running[p][key] # NoCall /\ call'[c].pc = "joined"
                 /\ call'[c].owner = running[p][key] /\ call'[c].reply = NoReply
                 /\ running' = running
              \/ /\ running[p][key] = NoCall /\ Lookup(at, "verify") = "found"
                 /\ call'[c].pc = "done" /\ running' = running
                 /\ call'[c].reply = Reply("replayed", idempotency[at].response)
              \/ /\ running[p][key] = NoCall /\ call'[c].pc = "verifying"
                 /\ call'[c].reply = NoReply /\ Enters(p, key, c)
<1> DEFINE at == <<<<"verify", NoParent>>, key>>
           owner == running[p][key]
           asked == Asked(c, p, "verify", NoParent, "none", key)
           run == Verifying(c, p, key)
           joined == [run EXCEPT !.pc = "joined", !.owner = owner]
           reply == Reply("replayed", idempotency[at].response)
           served == [run EXCEPT !.pc = "done", !.reply = reply]
           To(r) == call' = [call EXCEPT ![c] = r]
<1>1. /\ call[c].pc = "new" /\ Free(p) /\ UNCHANGED <<ledgerVars, stage, turn, restarts>>
      /\ \/ owner # NoCall /\ To(joined) /\ running' = running
         \/ owner = NoCall /\ Lookup(at, "verify") = "found" /\ To(served) /\ running' = running
         \/ owner = NoCall /\ To(run) /\ Enters(p, key, c)
  BY Zenon DEF ArriveVerification, Enters
<1> HIDE DEF owner, reply
<1>2. /\ DOMAIN asked = Fields /\ asked.at = p /\ asked.kind = "verify" /\ asked.target = NoParent
      /\ asked.decision = "none" /\ asked.key = key /\ asked.reply = NoReply
  BY DEF Asked, Unsent, Fields
<1>3. run = [asked EXCEPT !.pc = "verifying"]
  BY DEF Verifying
<1> HIDE DEF asked, run
<1>4. /\ DOMAIN run = Fields /\ run.at = p /\ run.kind = "verify" /\ run.target = NoParent
      /\ run.decision = "none" /\ run.key = key /\ run.reply = NoReply /\ run.pc = "verifying"
  BY <1>2, <1>3 DEF Fields
<1>5. /\ DOMAIN joined = Fields /\ joined.at = p /\ joined.kind = "verify"
      /\ joined.target = NoParent /\ joined.decision = "none" /\ joined.key = key
      /\ joined.reply = NoReply /\ joined.pc = "joined" /\ joined.owner = owner
  BY <1>4 DEF Fields
<1>6. /\ DOMAIN served = Fields /\ served.at = p /\ served.kind = "verify"
      /\ served.target = NoParent /\ served.decision = "none" /\ served.key = key
      /\ served.reply = reply /\ served.pc = "done"
  BY <1>4 DEF Fields
<1> HIDE DEF joined, served, To
<1>7. CASE owner # NoCall /\ To(joined) /\ running' = running
  BY <1>1, <1>5, <1>7 DEF CallsKept, Others, AsksFor, Shape, owner, To
<1>8. CASE owner = NoCall /\ Lookup(at, "verify") = "found" /\ To(served) /\ running' = running
  BY <1>1, <1>6, <1>8 DEF CallsKept, Others, AsksFor, Shape, owner, reply, To
<1>9. CASE owner = NoCall /\ To(run) /\ Enters(p, key, c)
  BY <1>1, <1>4, <1>9 DEF CallsKept, Others, AsksFor, Shape, owner, To
<1> QED BY <1>1, <1>7, <1>8, <1>9

\* What a verification writes of a result.
VerifiedRecords(c, result) ==
    Row(LiveId(c), EvaluationRecord("live-release-verification", result.candidate, NoParent))
VerifiedEvents(c, result) ==
    Row(LiveId(c), EvaluationEvents("live-release-verification", result, NoParent))
VerifiedAnswer(c) ==
    [at |-> AnswerAt(c), request |-> "verify", response |-> [evaluation |-> LiveId(c)]]

\* The result that came back was stored, or tried to be.
Stores(c, order, world) ==
    LET result == RunResult("live-release-verification", order, world) IN
    /\ ResultMatches(result, "live-release-verification")
    /\ Commit(VerifiedRecords(c, result), VerifiedEvents(c, result), VerifiedAnswer(c))
    /\ call'[c].reply =
         CommitReply(CommitResult(VerifiedRecords(c, result), VerifiedEvents(c, result),
                                  VerifiedAnswer(c)),
                     [evaluation |-> LiveId(c)], AnswerAt(c))

LEMMA VerificationIsBack ==
    ASSUME Shape, NEW c \in Calls, VerificationReturns(c)
    PROVE  /\ CallsKept /\ Others(c) /\ SameAsk(c)
           /\ call[c].pc = "verifying" /\ Free(call[c].at) /\ call'[c].pc = "done"
           /\ Enters(call[c].at, call[c].key, NoCall)
           /\ UNCHANGED <<stage, turn, restarts>>
           /\ \/ \E order, world : Stores(c, order, world)
              \/ UNCHANGED ledgerVars /\ call'[c].reply = Reply("failed", NoRecord)
<1>1. /\ call[c].pc = "verifying" /\ Free(call[c].at) /\ UNCHANGED <<stage, turn, restarts>>
      /\ \E order, world : StoreVerification(c, order, world) \/ DropVerification(c, order, world)
  BY Zenon DEF VerificationReturns
<1>2. PICK order, world : StoreVerification(c, order, world) \/ DropVerification(c, order, world)
  BY <1>1
<1>3. CASE StoreVerification(c, order, world)
  <2> DEFINE result == RunResult("live-release-verification", order, world)
             reply == CommitReply(CommitResult(VerifiedRecords(c, result),
                                    VerifiedEvents(c, result), VerifiedAnswer(c)),
                                  [evaluation |-> LiveId(c)], AnswerAt(c))
  <2>1. /\ ResultMatches(result, "live-release-verification")
        /\ Commit(VerifiedRecords(c, result), VerifiedEvents(c, result), VerifiedAnswer(c))
        /\ call' = Answered(c, reply)
        /\ running' = Settled(c, reply.status)
    BY <1>3, Zenon DEF StoreVerification, VerifiedRecords, VerifiedEvents, VerifiedAnswer
  <2> HIDE DEF reply
  <2>2. CallsKept /\ Others(c) /\ SameAsk(c) /\ call'[c].pc = "done" /\ call'[c].reply = reply
    BY <2>1, Answering
  <2>3. Stores(c, order, world)
    BY <2>1, <2>2, Zenon DEF Stores, reply
  <2> QED BY <1>1, <2>1, <2>2, <2>3 DEF Settled, Enters
<1>4. CASE DropVerification(c, order, world)
  <2>1. /\ call' = Answered(c, Reply("failed", NoRecord))
        /\ running' = Settled(c, "failed") /\ UNCHANGED ledgerVars
    BY <1>4, Zenon DEF DropVerification
  <2>2. /\ CallsKept /\ Others(c) /\ SameAsk(c) /\ call'[c].pc = "done"
        /\ call'[c].reply = Reply("failed", NoRecord)
    BY <2>1, Answering
  <2> QED BY <1>1, <2>1, <2>2 DEF Settled, Enters
<1> QED BY <1>2, <1>3, <1>4

LEMMA JoinedIsBack ==
    ASSUME Shape, NEW c \in Calls, JoinReturns(c)
    PROVE  LET reply == call[call[c].owner].reply IN
           /\ CallsKept /\ Others(c) /\ SameAsk(c)
           /\ call[c].pc = "joined" /\ call[call[c].owner].pc = "done" /\ call'[c].pc = "done"
           /\ call'[c].reply = IF reply.status = "failed" THEN reply
                               ELSE Reply("replayed", reply.response)
           /\ UNCHANGED <<ledgerVars, stage, turn, running, restarts>>
<1> DEFINE reply == call[call[c].owner].reply
           answer == IF reply.status = "failed" THEN reply ELSE Reply("replayed", reply.response)
<1>1. /\ call[c].pc = "joined" /\ call[call[c].owner].pc = "done"
      /\ call' = Answered(c, answer)
      /\ UNCHANGED <<ledgerVars, stage, turn, running, restarts>>
  BY Zenon DEF JoinReturns
<1> HIDE DEF answer
<1>2. CallsKept /\ Others(c) /\ SameAsk(c) /\ call'[c].pc = "done" /\ call'[c].reply = answer
  BY <1>1, Answering
<1> QED BY <1>1, <1>2 DEF answer

LEMMA ProcessCrashes ==
    ASSUME Shape, NEW p \in Processes, Crash(p)
    PROVE  /\ CallsKept /\ UNCHANGED ledgerVars
           /\ \A c \in Calls :
                IF call[c].at = p /\ call[c].pc # "done"
                  THEN SameAsk(c) /\ call'[c].pc = "lost" /\ call'[c].reply = call[c].reply
                  ELSE call'[c] = call[c]
           /\ turn' = [turn EXCEPT ![p] = NoCall]
           /\ running' = [running EXCEPT ![p] = [k \in Releases |-> NoCall]]
<1>1. /\ call' = [c \in Calls |-> IF call[c].at = p /\ call[c].pc # "done"
                                    THEN [call[c] EXCEPT !.pc = "lost"] ELSE call[c]]
      /\ turn' = [turn EXCEPT ![p] = NoCall] /\ UNCHANGED ledgerVars
      /\ running' = [running EXCEPT ![p] = [k \in Releases |-> NoCall]]
  BY Zenon DEF Crash
<1>2. \A c \in Calls : call'[c] = IF call[c].at = p /\ call[c].pc # "done"
                                    THEN [call[c] EXCEPT !.pc = "lost"] ELSE call[c]
  BY <1>1
<1>3. DOMAIN call' = Calls
  BY <1>1
<1>4. ASSUME NEW c \in Calls
      PROVE  /\ DOMAIN call'[c] = Fields
             /\ IF call[c].at = p /\ call[c].pc # "done"
                  THEN SameAsk(c) /\ call'[c].pc = "lost" /\ call'[c].reply = call[c].reply
                  ELSE call'[c] = call[c]
  BY <1>2, <1>4 DEF Shape, Fields, SameAsk
<1> QED BY <1>1, <1>3, <1>4 DEF CallsKept

-----------------------------------------------------------------------------
(* A batch, row by row.                                                    *)

\* The rows that are there stay as they are, except the timelines of those in ids.
RowsKept(ids) ==
    /\ DOMAIN evaluations \subseteq DOMAIN evaluations'
    /\ \A id \in DOMAIN evaluations : evaluations'[id] = evaluations[id]
    /\ \A id \in DOMAIN evaluations \ ids : timeline'[id] = timeline[id]

\* The answer of a batch is recorded, under a place that was free.
AnswerKept(record) ==
    /\ record.at \notin DOMAIN idempotency
    /\ DOMAIN idempotency' = DOMAIN idempotency \cup {record.at}
    /\ idempotency'[record.at] = [request |-> record.request, response |-> record.response]
    /\ \A at \in DOMAIN idempotency : idempotency'[at] = idempotency[at]

\* A batch that is committed.
Committed(new, events, record) ==
    /\ Insertable(new, events)
    /\ DOMAIN evaluations' = DOMAIN evaluations \cup DOMAIN new
    /\ DOMAIN timeline' = DOMAIN timeline \cup DOMAIN events
    /\ RowsKept(DOMAIN events)
    /\ \A id \in DOMAIN new : evaluations'[id] = new[id]
    /\ \A id \in DOMAIN events :
         timeline'[id] = IF id \in DOMAIN timeline THEN Added(timeline[id], events[id])
                         ELSE events[id]
    /\ IF record = NoRecord THEN UNCHANGED idempotency ELSE AnswerKept(record)

LEMMA CommitEffect ==
    ASSUME NEW new, NEW events, NEW record, Commit(new, events, record),
           DOMAIN timeline = DOMAIN evaluations
    PROVE  LET result == CommitResult(new, events, record) IN
           /\ result = "committed" => Committed(new, events, record)
           /\ result # "committed" => UNCHANGED ledgerVars
           /\ result = "replayed" => /\ record # NoRecord /\ record.at \in DOMAIN idempotency
                                     /\ idempotency[record.at].request = record.request
           /\ result = "conflict" => /\ record # NoRecord /\ record.at \in DOMAIN idempotency
                                     /\ idempotency[record.at].request # record.request
           /\ result = "failed" => /\ ~ Insertable(new, events)
                                   /\ record # NoRecord => record.at \notin DOMAIN idempotency
           /\ result \in {"committed", "replayed", "conflict", "failed"}
<1> DEFINE result == CommitResult(new, events, record)
<1>1. CASE result = "committed"
  <2>1. /\ evaluations' = Added(evaluations, new)
        /\ timeline' = [id \in DOMAIN timeline \cup DOMAIN events |->
                          IF id \notin DOMAIN events THEN timeline[id]
                          ELSE IF id \in DOMAIN timeline THEN Added(timeline[id], events[id])
                          ELSE events[id]]
        /\ idempotency' = IF record = NoRecord THEN idempotency
                          ELSE Added(idempotency, Row(record.at,
                                 [request |-> record.request, response |-> record.response]))
    BY <1>1, Zenon DEF Commit
  <2>2. Insertable(new, events) /\ (record # NoRecord => record.at \notin DOMAIN idempotency)
    BY <1>1 DEF CommitResult, Lookup
  <2>3. DOMAIN new \cap DOMAIN evaluations = {}
    BY <2>2 DEF Insertable
  <2>4. /\ DOMAIN evaluations' = DOMAIN evaluations \cup DOMAIN new
        /\ \A id \in DOMAIN evaluations : evaluations'[id] = evaluations[id]
        /\ \A id \in DOMAIN new : evaluations'[id] = new[id]
    BY <2>1, <2>3 DEF Added
  <2>5. /\ DOMAIN timeline' = DOMAIN timeline \cup DOMAIN events
        /\ \A id \in DOMAIN evaluations \ DOMAIN events : timeline'[id] = timeline[id]
        /\ \A id \in DOMAIN events :
             timeline'[id] = IF id \in DOMAIN timeline THEN Added(timeline[id], events[id])
                             ELSE events[id]
    BY <2>1
  <2>6. IF record = NoRecord THEN UNCHANGED idempotency ELSE AnswerKept(record)
    BY <2>1, <2>2 DEF AnswerKept, Added, Row
  <2> QED BY <1>1, <2>2, <2>4, <2>5, <2>6 DEF Committed, RowsKept
<1>2. CASE result # "committed"
  <2>1. UNCHANGED ledgerVars
    BY <1>2, Zenon DEF Commit
  <2> QED BY <1>2, <2>1 DEF CommitResult, Lookup
<1> QED BY <1>1, <1>2

\* What a step leaves of the tables, whoever commits it.
LEMMA SeedDomain ==
    ASSUME NEW p \in Processes, Shape, Seed(p)
    PROVE  DOMAIN timeline' = DOMAIN evaluations'
<1>1. Commit(SeedRecords(p), SeedEvents(p), NoRecord)
  BY Zenon DEF Seed
<1>2. DOMAIN SeedRecords(p) = DOMAIN SeedEvents(p)
  BY DEF SeedRecords, SeedEvents
<1>3. UNCHANGED ledgerVars \/ Committed(SeedRecords(p), SeedEvents(p), NoRecord)
  BY <1>1, CommitEffect DEF Shape
<1> QED BY <1>2, <1>3 DEF Committed, Shape, ledgerVars

LEMMA DecisionDomains ==
    ASSUME NEW c
    PROVE  /\ DOMAIN ChildRecords(c) = DOMAIN ChildEvents(c)
           /\ DOMAIN ChildEvents(c) = IF call[c].decision = "Reject" THEN {} ELSE {ChildId(c)}
           /\ DOMAIN DecisionEvents(c) = {call[c].target} \cup DOMAIN ChildEvents(c)
<1>1. DOMAIN <<>> = {}
  OBVIOUS
<1>2. \A key, value : DOMAIN Row(key, value) = {key}
  BY DEF Row
<1>3. /\ DOMAIN ChildRecords(c) = IF call[c].decision = "Reject" THEN {} ELSE {ChildId(c)}
      /\ DOMAIN ChildEvents(c) = IF call[c].decision = "Reject" THEN {} ELSE {ChildId(c)}
  BY <1>1, <1>2, Zenon DEF ChildRecords, ChildEvents
<1>4. DOMAIN DecisionRows(c) = {call[c].target}
  BY <1>2, Zenon DEF DecisionRows
<1>5. DOMAIN DecisionEvents(c) = DOMAIN DecisionRows(c) \cup DOMAIN ChildEvents(c)
  BY DEF DecisionEvents, Added
<1> QED BY <1>3, <1>4, <1>5

LEMMA DecisionDomain ==
    ASSUME NEW c \in Calls, Shape, CommitDecision(c)
    PROVE  DOMAIN timeline' = DOMAIN evaluations'
<1>1. Commit(ChildRecords(c), DecisionEvents(c), DecisionRecord(c))
  BY DecisionCommits
<1>2. \/ UNCHANGED ledgerVars
      \/ Committed(ChildRecords(c), DecisionEvents(c), DecisionRecord(c))
  BY <1>1, CommitEffect DEF Shape
<1>3. DOMAIN ChildRecords(c) \subseteq DOMAIN DecisionEvents(c)
  BY DecisionDomains
<1> QED BY <1>2, <1>3 DEF Committed, Insertable, Shape, ledgerVars

LEMMA VerificationDomain ==
    ASSUME NEW c \in Calls, Shape, NEW order, NEW world, Stores(c, order, world)
    PROVE  DOMAIN timeline' = DOMAIN evaluations'
<1> DEFINE result == RunResult("live-release-verification", order, world)
           new == VerifiedRecords(c, result)
           events == VerifiedEvents(c, result)
<1>1. Commit(new, events, VerifiedAnswer(c))
  BY Zenon DEF Stores
<1>2. DOMAIN new = DOMAIN events
  BY DEF VerifiedRecords, VerifiedEvents, Row
<1> HIDE DEF new, events
<1>3. UNCHANGED ledgerVars \/ Committed(new, events, VerifiedAnswer(c))
  BY <1>1, CommitEffect DEF Shape
<1> QED BY <1>2, <1>3 DEF Committed, Shape, ledgerVars

-----------------------------------------------------------------------------
(* The control of the calls is kept by every step.                         *)

LEMMA ControlDecision ==
    ASSUME Control, NEW c \in Calls, NEW p \in Processes, NEW id, NEW decision \in Decisions,
           NEW key, ArriveDecision(c, p, id, decision, key)
    PROVE  Control'
<1>1. /\ CallsKept /\ Others(c) /\ AsksFor(c, p, "decide", id, decision, key)
      /\ call[c].pc = "new" /\ Free(p) /\ UNCHANGED <<ledgerVars, stage, running, restarts>>
      /\ \/ /\ call'[c].pc = "check" /\ call'[c].reply = NoReply /\ turn' = [turn EXCEPT ![p] = c]
         \/ call'[c].pc = "done" /\ turn' = turn
  BY DecisionArrives, Zenon DEF Control
<1>2. Shape'
  BY <1>1 DEF Control, Shape, CallsKept, ledgerVars
<1>3. Entries' /\ RunInv'
  BY <1>1 DEF Control, Entries, RunInv, Others, AsksFor
<1>4. ASSUME NEW d \in Calls PROVE AskedInv(d)'
  BY <1>1, <1>4 DEF Control, AskedInv, Others, AsksFor, Labels, Decisions
<1>5. ASSUME NEW d \in Calls PROVE TurnInv(d)'
  <2>1. d # c => TurnInv(d) /\ (call[d].pc \in {"check", "commit"} => call[d].at # p)
    BY <1>1, EvaluationAssumption DEF Control, TurnInv, Free
  <2>2. CASE d = c
    BY <1>1, <2>2 DEF Control, Shape, TurnInv, AsksFor
  <2>3. CASE d # c
    <3>1. call'[d] = call[d]
      BY <1>1, <2>3 DEF Others
    <3>2. call[d].pc \in {"check", "commit"} => call[d].at \in Processes
      BY DEF Control, AskedInv
    <3>3. call[d].at \in Processes /\ call[d].at # p => turn'[call[d].at] = turn[call[d].at]
      BY <1>1 DEF Control, Shape
    <3> QED BY <2>1, <2>3, <3>1, <3>2, <3>3 DEF TurnInv
  <2> QED BY <2>2, <2>3
<1>6. ASSUME NEW d \in Calls PROVE OwnerInv(d)'
  BY <1>1, <1>6 DEF Control, OwnerInv, Others
<1> QED BY <1>2, <1>3, <1>4, <1>5, <1>6 DEF Control

LEMMA ControlCheck ==
    ASSUME Control, NEW c \in Calls, CheckDecision(c)
    PROVE  Control'
<1>1. /\ CallsKept /\ Others(c) /\ SameAsk(c)
      /\ call[c].pc = "check" /\ UNCHANGED <<ledgerVars, stage, running, restarts>>
      /\ \/ call'[c].pc = "done" /\ turn' = [turn EXCEPT ![call[c].at] = NoCall]
         \/ /\ call'[c].pc = "commit" /\ call'[c].reply = call[c].reply
            /\ turn' = [turn EXCEPT ![call[c].at] = c]
         \/ /\ call'[c].pc = "building" /\ call'[c].reply = call[c].reply
            /\ turn' = [turn EXCEPT ![call[c].at] = NoCall]
  BY DecisionIsChecked, Zenon DEF Control
<1>2. Shape'
  BY <1>1 DEF Control, Shape, CallsKept, ledgerVars
<1>3. Entries' /\ RunInv'
  BY <1>1 DEF Control, Entries, RunInv, Others
<1>4. call[c].at \in Processes /\ call[c].kind = "decide" /\ turn[call[c].at] = c
  BY <1>1 DEF Control, AskedInv, TurnInv
<1>5. ASSUME NEW d \in Calls PROVE AskedInv(d)'
  BY <1>1, <1>4, <1>5 DEF Control, AskedInv, Others, SameAsk, Labels
<1>6. ASSUME NEW d \in Calls PROVE TurnInv(d)'
  <2>1. d # c => TurnInv(d) /\ (call[d].pc \in {"check", "commit"} => call[d].at # call[c].at)
    BY <1>4 DEF Control, TurnInv
  <2>2. CASE d = c
    BY <1>1, <1>4, <2>2 DEF Control, Shape, TurnInv, SameAsk
  <2>3. CASE d # c
    <3>1. call'[d] = call[d]
      BY <1>1, <2>3 DEF Others
    <3>2. call[d].pc \in {"check", "commit"} => call[d].at \in Processes
      BY DEF Control, AskedInv
    <3>3. call[d].at \in Processes /\ call[d].at # call[c].at => turn'[call[d].at] = turn[call[d].at]
      BY <1>1 DEF Control, Shape
    <3> QED BY <2>1, <2>3, <3>1, <3>2, <3>3 DEF TurnInv
  <2> QED BY <2>2, <2>3
<1>7. ASSUME NEW d \in Calls PROVE OwnerInv(d)'
  BY <1>1, <1>7 DEF Control, OwnerInv, Others
<1> QED BY <1>2, <1>3, <1>5, <1>6, <1>7 DEF Control

LEMMA ControlCommit ==
    ASSUME Control, NEW c \in Calls, CommitDecision(c)
    PROVE  Control'
<1>1. /\ CallsKept /\ Others(c) /\ SameAsk(c)
      /\ \/ call[c].pc = "commit" /\ turn[call[c].at] = c
         \/ call[c].pc = "building" /\ Free(call[c].at)
      /\ call'[c].pc = "done" /\ turn' = [turn EXCEPT ![call[c].at] = NoCall]
      /\ UNCHANGED <<stage, running, restarts>>
  BY DecisionCommits, Zenon DEF Control
<1>2. Shape'
  BY <1>1, DecisionDomain DEF Control, Shape, CallsKept
<1>3. Entries' /\ RunInv'
  BY <1>1 DEF Control, Entries, RunInv, Others
<1>4. call[c].at \in Processes /\ call[c].kind = "decide"
  BY <1>1 DEF Control, AskedInv
<1>5. ASSUME NEW d \in Calls PROVE AskedInv(d)'
  BY <1>1, <1>4, <1>5 DEF Control, AskedInv, Others, SameAsk, Labels
<1>6. ASSUME NEW d \in Calls PROVE TurnInv(d)'
  <2>1. d # c => TurnInv(d) /\ (call[d].pc \in {"check", "commit"} => call[d].at # call[c].at)
    BY <1>1, EvaluationAssumption DEF Control, TurnInv, Free
  <2>2. CASE d = c
    BY <1>1, <1>4, <2>2 DEF Control, Shape, TurnInv, SameAsk
  <2>3. CASE d # c
    <3>1. call'[d] = call[d]
      BY <1>1, <2>3 DEF Others
    <3>2. call[d].pc \in {"check", "commit"} => call[d].at \in Processes
      BY DEF Control, AskedInv
    <3>3. call[d].at \in Processes /\ call[d].at # call[c].at => turn'[call[d].at] = turn[call[d].at]
      BY <1>1 DEF Control, Shape
    <3> QED BY <2>1, <2>3, <3>1, <3>2, <3>3 DEF TurnInv
  <2> QED BY <2>2, <2>3
<1>7. ASSUME NEW d \in Calls PROVE OwnerInv(d)'
  BY <1>1, <1>7 DEF Control, OwnerInv, Others
<1> QED BY <1>2, <1>3, <1>5, <1>6, <1>7 DEF Control

LEMMA ControlVerification ==
    ASSUME Control, NEW c \in Calls, NEW p \in Processes, NEW key \in Releases,
           ArriveVerification(c, p, key)
    PROVE  Control'
<1>1. /\ CallsKept /\ Others(c) /\ AsksFor(c, p, "verify", NoParent, "none", key)
      /\ call[c].pc = "new" /\ Free(p) /\ UNCHANGED <<ledgerVars, stage, turn, restarts>>
      /\ \/ /\ running[p][key] # NoCall /\ call'[c].pc = "joined"
            /\ call'[c].owner = running[p][key] /\ call'[c].reply = NoReply
            /\ running' = running
         \/ running[p][key] = NoCall /\ call'[c].pc = "done" /\ running' = running
         \/ /\ running[p][key] = NoCall /\ call'[c].pc = "verifying"
            /\ call'[c].reply = NoReply /\ Enters(p, key, c)
  BY VerificationArrives DEF Control
<1>2. Shape'
  BY <1>1 DEF Control, Shape, CallsKept, ledgerVars, Enters
<1>3. Entries'
  BY <1>1 DEF Control, Entries, Shape, Enters
<1>4. RunInv'
  <2>1. CASE running' = running /\ call'[c].pc # "verifying"
    BY <1>1, <2>1 DEF Control, RunInv, Others
  <2>2. CASE /\ running[p][key] = NoCall /\ call'[c].pc = "verifying"
             /\ Enters(p, key, c)
    <3>1. \A q \in Processes, k \in Releases :
            running'[q][k] = IF q = p /\ k = key THEN c ELSE running[q][k]
      BY <2>2 DEF Control, Shape, Enters
    <3>2. \A d \in Calls : running[p][key] # d
      BY <2>2, EvaluationAssumption
    <3> QED BY <1>1, <2>2, <3>1, <3>2 DEF Control, RunInv, Others, AsksFor
  <2> QED BY <1>1, <2>1, <2>2
<1>5. ASSUME NEW d \in Calls PROVE AskedInv(d)'
  BY <1>1, <1>5 DEF Control, AskedInv, Others, AsksFor, Labels
<1>6. ASSUME NEW d \in Calls PROVE TurnInv(d)'
  BY <1>1, <1>6 DEF Control, TurnInv, Others
<1>7. running[p][key] # NoCall =>
         LET owner == running[p][key]
         IN /\ owner \in Calls /\ call[owner].pc = "verifying" /\ call[owner].kind = "verify"
            /\ call[owner].at = p /\ call[owner].key = key
  BY DEF Control, Entries, RunInv, AskedInv
<1>8. ASSUME NEW d \in Calls PROVE OwnerInv(d)'
  <2>1. CASE d = c
    BY <1>1, <1>7, <2>1 DEF OwnerInv, Others, AsksFor
  <2>2. CASE d # c
    BY <1>1, <1>8, <2>2 DEF Control, OwnerInv, Others
  <2> QED BY <2>1, <2>2
<1> QED BY <1>2, <1>3, <1>4, <1>5, <1>6, <1>8 DEF Control

LEMMA ControlReturn ==
    ASSUME Control, NEW c \in Calls, VerificationReturns(c)
    PROVE  Control'
<1>1. /\ CallsKept /\ Others(c) /\ SameAsk(c)
      /\ call[c].pc = "verifying" /\ call'[c].pc = "done"
      /\ Enters(call[c].at, call[c].key, NoCall)
      /\ UNCHANGED <<stage, turn, restarts>>
      /\ (\E order, world : Stores(c, order, world)) \/ UNCHANGED ledgerVars
  BY VerificationIsBack, Zenon DEF Control
<1>2. call[c].at \in Processes /\ call[c].key \in Releases /\ call[c].kind = "verify"
  BY <1>1 DEF Control, AskedInv
<1>3. DOMAIN timeline' = DOMAIN evaluations'
  BY <1>1, VerificationDomain DEF Control, Shape, ledgerVars
<1>4. Shape'
  BY <1>1, <1>3 DEF Control, Shape, CallsKept, Enters
<1>5. \A q \in Processes, k \in Releases :
        running'[q][k] = IF q = call[c].at /\ k = call[c].key THEN NoCall ELSE running[q][k]
  BY <1>1 DEF Control, Shape, Enters
<1>6. Entries'
  BY <1>5 DEF Control, Entries
<1>7. running[call[c].at][call[c].key] = c /\ \A d \in Calls : d # NoCall
  BY <1>1, <1>2, EvaluationAssumption DEF Control, RunInv
<1>8. RunInv'
  BY <1>1, <1>5, <1>7 DEF Control, RunInv, Others, SameAsk
<1>9. ASSUME NEW d \in Calls PROVE AskedInv(d)' /\ TurnInv(d)' /\ OwnerInv(d)'
  <2>1. AskedInv(d)'
    BY <1>1, <1>2 DEF Control, AskedInv, Others, SameAsk, Labels
  <2>2. TurnInv(d)'
    BY <1>1 DEF Control, TurnInv, Others
  <2>3. OwnerInv(d)'
    BY <1>1 DEF Control, OwnerInv, Others, SameAsk
  <2> QED BY <2>1, <2>2, <2>3
<1> QED BY <1>4, <1>6, <1>8, <1>9 DEF Control

LEMMA ControlJoined ==
    ASSUME Control, NEW c \in Calls, JoinReturns(c)
    PROVE  Control'
<1>1. /\ CallsKept /\ Others(c) /\ SameAsk(c)
      /\ call[c].pc = "joined" /\ call'[c].pc = "done"
      /\ UNCHANGED <<ledgerVars, stage, turn, running, restarts>>
  BY JoinedIsBack, Zenon DEF Control
<1>2. Shape'
  BY <1>1 DEF Control, Shape, CallsKept, ledgerVars
<1>3. Entries' /\ RunInv'
  BY <1>1 DEF Control, Entries, RunInv, Others
<1>4. ASSUME NEW d \in Calls PROVE AskedInv(d)' /\ TurnInv(d)' /\ OwnerInv(d)'
  <2>1. AskedInv(d)'
    BY <1>1 DEF Control, AskedInv, Others, SameAsk, Labels
  <2>2. TurnInv(d)'
    BY <1>1 DEF Control, TurnInv, Others
  <2>3. OwnerInv(d)'
    BY <1>1 DEF Control, OwnerInv, Others, SameAsk
  <2> QED BY <2>1, <2>2, <2>3
<1> QED BY <1>2, <1>3, <1>4 DEF Control

LEMMA ControlCrash ==
    ASSUME Control, NEW p \in Processes, Crash(p)
    PROVE  Control'
<1>1. /\ CallsKept /\ UNCHANGED ledgerVars
      /\ \A c \in Calls :
           IF call[c].at = p /\ call[c].pc # "done"
             THEN SameAsk(c) /\ call'[c].pc = "lost" /\ call'[c].reply = call[c].reply
             ELSE call'[c] = call[c]
      /\ turn' = [turn EXCEPT ![p] = NoCall]
      /\ running' = [running EXCEPT ![p] = [k \in Releases |-> NoCall]]
  BY ProcessCrashes DEF Control
<1>2. \A q \in Processes : running'[q] = IF q = p THEN [k \in Releases |-> NoCall] ELSE running[q]
  BY <1>1 DEF Control, Shape
<1>3. Shape'
  BY <1>1, <1>2 DEF Control, Shape, CallsKept, ledgerVars
<1>4. \A q \in Processes, k \in Releases :
        running'[q][k] = IF q = p THEN NoCall ELSE running[q][k]
  BY <1>2
<1>5. Entries'
  BY <1>4 DEF Control, Entries
<1>6. RunInv'
  BY <1>1, <1>4, EvaluationAssumption DEF Control, RunInv, SameAsk
<1>7. ASSUME NEW d \in Calls PROVE AskedInv(d)' /\ TurnInv(d)' /\ OwnerInv(d)'
  <2>1. AskedInv(d)'
    BY <1>1 DEF Control, AskedInv, SameAsk, Labels
  <2>2. TurnInv(d)'
    <3>1. call'[d].pc \in {"check", "commit"} =>
            call'[d] = call[d] /\ call[d].at # p /\ call[d].at \in Processes
      BY <1>1 DEF Control, AskedInv
    <3> QED BY <1>1, <3>1 DEF Control, Shape, TurnInv
  <2>3. OwnerInv(d)'
    <3>1. call'[d].pc = "joined" =>
            /\ call'[d] = call[d] /\ call[d].at # p
            /\ call[d].owner \in Calls /\ call[call[d].owner].at = call[d].at
      BY <1>1 DEF Control, OwnerInv
    <3> QED BY <1>1, <3>1 DEF Control, OwnerInv
  <2> QED BY <2>1, <2>2, <2>3
<1> QED BY <1>3, <1>5, <1>6, <1>7 DEF Control

LEMMA ControlSame ==
    ASSUME Control, UNCHANGED <<turn, running, call>>, DOMAIN timeline' = DOMAIN evaluations'
    PROVE  Control'
<1>1. Shape' /\ Entries' /\ RunInv'
  BY DEF Control, Shape, Entries, RunInv
<1>2. ASSUME NEW c \in Calls PROVE AskedInv(c)' /\ TurnInv(c)' /\ OwnerInv(c)'
  BY <1>2 DEF Control, AskedInv, TurnInv, OwnerInv
<1> QED BY <1>1, <1>2 DEF Control

LEMMA ControlStep ==
    ASSUME Control, [Next]_vars
    PROVE  Control'
<1>1. ASSUME NEW p \in Processes, CheckInbox(p) PROVE Control'
  BY <1>1, ControlSame DEF CheckInbox, Control, Shape, ledgerVars
<1>2. ASSUME NEW p \in Processes, Seed(p) PROVE Control'
  BY <1>2, ControlSame, SeedDomain DEF Seed, Control
<1>3. ASSUME NEW p \in Processes, Crash(p) PROVE Control'
  BY <1>3, ControlCrash
<1>4. ASSUME NEW c \in Calls, CallStep(c) PROVE Control'
  BY <1>4, ControlCheck, ControlCommit, ControlReturn, ControlJoined DEF CallStep
<1>5. ASSUME NEW c \in Calls, NEW p \in Processes, Arrive(c, p) PROVE Control'
  BY <1>5, ControlDecision, ControlVerification DEF Arrive
<1>6. CASE UNCHANGED vars
  BY <1>6, ControlSame DEF vars, serviceVars, ledgerVars, Control, Shape
<1>7. CASE Quiescent
  BY <1>7, <1>6 DEF Quiescent
<1> QED BY <1>1, <1>2, <1>3, <1>4, <1>5, <1>6, <1>7 DEF Next

\* One run of the agent at a time for a key in a process, and a call that joined
\* a run has it to wait for (#liveReleaseRuns of startLiveReleaseVerification).
THEOREM OneRunAtATimeHolds == Spec => []OneRunAtATime
<1>1. Control => OneRunAtATime
  <2> SUFFICES ASSUME Control PROVE OneRunAtATime
    OBVIOUS
  <2>1. ASSUME NEW p \in Processes, NEW k \in Releases
        PROVE  {c \in Calls : call[c].at = p /\ call[c].key = k /\ call[c].pc = "verifying"}
                 = {running[p][k]} \ {NoCall}
    BY <2>1, EvaluationAssumption DEF Control, RunInv, Entries
  <2>2. \A c \in Calls : call[c].pc = "joined" =>
          /\ call[call[c].owner].pc \in {"verifying", "done"}
          /\ call[call[c].owner].at = call[c].at
    BY DEF Control, OwnerInv
  <2> QED BY <2>1, <2>2 DEF OneRunAtATime
<1> QED BY ControlInit, ControlStep, <1>1, PTL DEF Spec

-----------------------------------------------------------------------------
(* The answers.                                                            *)

Recorded(c) == call[c].pc = "done" /\ call[c].reply.status = "recorded"

\* Behind every recorded answer there is the call it was recorded for.
RecordInv ==
    \A at \in DOMAIN idempotency :
      \E c \in Calls :
        /\ Recorded(c) /\ AnswerAt(c) = at /\ Request(c) = idempotency[at].request
        /\ call[c].reply.response = idempotency[at].response

\* A success is what the record says, and its evaluation is there.
SuccessInv ==
    \A c \in Calls : Succeeded(c) =>
      /\ AnswerAt(c) \in DOMAIN idempotency
      /\ call[c].reply.response = idempotency[AnswerAt(c)].response
      /\ Stored(call[c].reply.response.evaluation)

\* A verification never meets a record of another request.
VerifyInv ==
    \A c \in Calls : call[c].pc = "done" /\ call[c].kind = "verify" =>
      call[c].reply.status \in {"recorded", "replayed", "failed"}

Answers == Control /\ RecordInv /\ SuccessInv /\ VerifyInv

\* What a step makes of a call it does not record an answer for.
Silent(c) ==
    /\ call[c].pc # "done" /\ ~ Succeeded(c)'
    /\ call'[c].pc = "done" /\ call'[c].kind = "verify" => call'[c].reply.status = "failed"
Repeats(c) ==
    /\ call[c].pc # "done" /\ call'[c].pc = "done" /\ call'[c].reply.status = "replayed"
    /\ AnswerAt(c)' \in DOMAIN idempotency
    /\ call'[c].reply.response = idempotency[AnswerAt(c)'].response

\* The steps, by what they make of the tables.
Quiet ==
    /\ UNCHANGED ledgerVars
    /\ \A c \in Calls : call'[c] = call[c] \/ Silent(c) \/ Repeats(c)

Seeds(p) == UNCHANGED call /\ Committed(SeedRecords(p), SeedEvents(p), NoRecord)

Records(c, response) ==
    /\ Others(c) /\ SameAsk(c) /\ call'[c].pc = "done"
    /\ call'[c].reply = Reply("recorded", response)

Decides(c) ==
    /\ call[c].pc \in {"commit", "building"} /\ Records(c, DecisionResponse(c))
    /\ Committed(ChildRecords(c), DecisionEvents(c), DecisionRecord(c))

Verifies(c, order, world) ==
    LET result == RunResult("live-release-verification", order, world)
    IN /\ call[c].pc = "verifying" /\ Records(c, [evaluation |-> LiveId(c)])
       /\ ResultMatches(result, "live-release-verification")
       /\ Committed(VerifiedRecords(c, result), VerifiedEvents(c, result), VerifiedAnswer(c))

LEMMA CommitReplies ==
    ASSUME NEW result \in {"committed", "replayed", "conflict", "failed"},
           NEW response, NEW at
    PROVE  LET reply == CommitReply(result, response, at) IN
           /\ result = "committed" => reply = Reply("recorded", response)
           /\ result = "replayed" => reply = Reply("replayed", idempotency[at].response)
           /\ result \notin {"committed", "replayed"} => reply = Reply(result, NoRecord)
BY DEF CommitReply

LEMMA Replies ==
    ASSUME NEW status, NEW response
    PROVE  Reply(status, response).status = status /\ Reply(status, response).response = response
BY DEF Reply

LEMMA SameAnswerAt ==
    ASSUME NEW c, SameAsk(c)
    PROVE  AnswerAt(c)' = AnswerAt(c) /\ Request(c)' = Request(c)
BY DEF SameAsk, AnswerAt, Request

LEMMA DecisionSteps ==
    ASSUME Control, NEW c \in Calls, CommitDecision(c)
    PROVE  Quiet \/ Decides(c)
<1> DEFINE result == CommitResult(ChildRecords(c), DecisionEvents(c), DecisionRecord(c))
           at == AnswerAt(c)
<1>1. /\ Others(c) /\ SameAsk(c) /\ call[c].pc \in {"commit", "building"}
      /\ Commit(ChildRecords(c), DecisionEvents(c), DecisionRecord(c))
      /\ call'[c].pc = "done"
      /\ call'[c].reply = CommitReply(result, DecisionResponse(c), at)
  BY DecisionCommits, Zenon DEF Control
<1>2. DecisionRecord(c).at = at
  BY DEF DecisionRecord
<1> HIDE DEF at
<1>3. /\ result = "committed" =>
           Committed(ChildRecords(c), DecisionEvents(c), DecisionRecord(c))
      /\ result # "committed" => UNCHANGED ledgerVars
      /\ result = "replayed" => at \in DOMAIN idempotency
      /\ result \in {"committed", "replayed", "conflict", "failed"}
  BY <1>1, <1>2, CommitEffect DEF Control, Shape
<1> HIDE DEF result
<1>4. call[c].kind = "decide" /\ call'[c].kind = "decide"
  BY <1>1 DEF Control, AskedInv, SameAsk
<1>5. AnswerAt(c)' = at
  BY <1>1, SameAnswerAt DEF at
<1>6. CASE result = "committed"
  <2>1. call'[c].reply = Reply("recorded", DecisionResponse(c))
    BY <1>1, <1>3, <1>6, CommitReplies
  <2> QED BY <1>1, <1>3, <1>6, <2>1 DEF Decides, Records
<1>7. CASE result = "replayed"
  <2>1. call'[c].reply = Reply("replayed", idempotency[at].response)
    BY <1>1, <1>3, <1>7, CommitReplies
  <2>2. Repeats(c)
    BY <1>1, <1>3, <1>5, <1>7, <2>1, Replies DEF Repeats
  <2> QED BY <1>1, <1>3, <1>7, <2>2 DEF Quiet, Others
<1>8. CASE result \in {"conflict", "failed"}
  <2>1. call'[c].reply = Reply(result, NoRecord)
    BY <1>1, <1>3, <1>8, CommitReplies
  <2>2. Silent(c)
    BY <1>1, <1>4, <1>8, <2>1, Replies DEF Silent, Succeeded
  <2> QED BY <1>1, <1>3, <1>8, <2>2 DEF Quiet, Others
<1> QED BY <1>3, <1>6, <1>7, <1>8

LEMMA VerificationSteps ==
    ASSUME Answers, NEW c \in Calls, VerificationReturns(c)
    PROVE  Quiet \/ \E order, world : Verifies(c, order, world)
<1>1. /\ Others(c) /\ SameAsk(c) /\ call[c].pc = "verifying" /\ call'[c].pc = "done"
      /\ \/ \E order, world : Stores(c, order, world)
         \/ UNCHANGED ledgerVars /\ call'[c].reply = Reply("failed", NoRecord)
  BY VerificationIsBack, Zenon DEF Answers, Control
<1>2. call[c].kind = "verify" /\ call'[c].kind = "verify"
  BY <1>1 DEF Answers, Control, AskedInv, SameAsk
<1>3. CASE UNCHANGED ledgerVars /\ call'[c].reply = Reply("failed", NoRecord)
  <2>1. Silent(c)
    BY <1>1, <1>3, Replies DEF Silent, Succeeded
  <2> QED BY <1>1, <1>3, <2>1 DEF Quiet, Others
<1>4. ASSUME NEW order, NEW world, Stores(c, order, world)
      PROVE  Quiet \/ Verifies(c, order, world)
  <2> DEFINE run == RunResult("live-release-verification", order, world)
             new == VerifiedRecords(c, run)
             events == VerifiedEvents(c, run)
             record == VerifiedAnswer(c)
             result == CommitResult(new, events, record)
             at == AnswerAt(c)
             response == [evaluation |-> LiveId(c)]
  <2>1. /\ ResultMatches(run, "live-release-verification") /\ Commit(new, events, record)
        /\ call'[c].reply = CommitReply(result, response, at)
    BY <1>4, Zenon DEF Stores
  <2>2. record.at = at /\ record.request = "verify" /\ Request(c) = "verify"
    BY <1>2 DEF VerifiedAnswer, Request
  <2>3. AnswerAt(c)' = at
    BY <1>1, SameAnswerAt
  <2> HIDE DEF new, events, record, at, response, run
  <2>4. /\ result = "committed" => Committed(new, events, record)
        /\ result # "committed" => UNCHANGED ledgerVars
        /\ result = "replayed" => at \in DOMAIN idempotency
        /\ result = "conflict" => at \in DOMAIN idempotency /\ idempotency[at].request # "verify"
        /\ result \in {"committed", "replayed", "conflict", "failed"}
    BY <2>1, <2>2, CommitEffect DEF Answers, Control, Shape
  <2> HIDE DEF result
  <2>5. result # "conflict"
    <3>1. SUFFICES ASSUME at \in DOMAIN idempotency, idempotency[at].request # "verify"
                   PROVE  FALSE
      BY <2>4
    <3>2. PICK d \in Calls : AnswerAt(d) = at /\ Request(d) = idempotency[at].request
      BY <3>1 DEF Answers, RecordInv
    <3>3. call[d].kind = "verify"
      BY <1>2, <3>2 DEF AnswerAt, at
    <3> QED BY <3>1, <3>2, <3>3 DEF Request
  <2>6. CASE result = "committed"
    <3>1. call'[c].reply = Reply("recorded", response)
      BY <2>1, <2>4, <2>6, CommitReplies
    <3>2. Committed(new, events, record)
      BY <2>4, <2>6
    <3> QED BY <1>1, <2>1, <3>1, <3>2
            DEF Verifies, Records, new, events, record, response, run
  <2>7. CASE result = "replayed"
    <3>1. call'[c].reply = Reply("replayed", idempotency[at].response)
      BY <2>1, <2>4, <2>7, CommitReplies
    <3>2. Repeats(c)
      BY <1>1, <2>3, <2>4, <2>7, <3>1, Replies DEF Repeats
    <3> QED BY <1>1, <2>4, <2>7, <3>2 DEF Quiet, Others
  <2>8. CASE result = "failed"
    <3>1. call'[c].reply = Reply("failed", NoRecord)
      BY <2>1, <2>4, <2>8, CommitReplies
    <3>2. Silent(c)
      BY <1>1, <1>2, <3>1, Replies DEF Silent, Succeeded
    <3> QED BY <1>1, <2>4, <2>8, <3>2 DEF Quiet, Others
  <2> QED BY <2>4, <2>5, <2>6, <2>7, <2>8
<1> QED BY <1>1, <1>3, <1>4

LEMMA JoinedSteps ==
    ASSUME Answers, NEW c \in Calls, JoinReturns(c)
    PROVE  Quiet
<1> DEFINE owner == call[c].owner
           reply == call[owner].reply
<1>1. /\ Others(c) /\ SameAsk(c) /\ UNCHANGED ledgerVars
      /\ call[c].pc = "joined" /\ call[owner].pc = "done" /\ call'[c].pc = "done"
      /\ call'[c].reply = IF reply.status = "failed" THEN reply
                          ELSE Reply("replayed", reply.response)
  BY JoinedIsBack, Zenon DEF Answers, Control
<1>2. /\ owner \in Calls /\ call[owner].kind = "verify" /\ call[owner].key = call[c].key
      /\ call[c].kind = "verify" /\ call[c].target = NoParent /\ call[owner].target = NoParent
  BY <1>1 DEF Answers, Control, AskedInv, OwnerInv
<1>3. AnswerAt(owner) = AnswerAt(c) /\ AnswerAt(c)' = AnswerAt(c)
  <2>1. AnswerAt(owner) = AnswerAt(c)
    BY <1>2 DEF AnswerAt
  <2> QED BY <1>1, <2>1, SameAnswerAt
<1>4. reply.status \in {"recorded", "replayed", "failed"}
  BY <1>1, <1>2 DEF Answers, VerifyInv
<1> HIDE DEF owner
<1>5. CASE reply.status = "failed"
  <2>1. Silent(c)
    BY <1>1, <1>5 DEF Silent, Succeeded
  <2> QED BY <1>1, <2>1 DEF Quiet, Others
<1>6. CASE reply.status # "failed"
  <2>1. Succeeded(owner)
    BY <1>1, <1>4, <1>6 DEF Succeeded
  <2>2. AnswerAt(c) \in DOMAIN idempotency /\ reply.response = idempotency[AnswerAt(c)].response
    BY <1>2, <1>3, <2>1 DEF Answers, SuccessInv
  <2>3. Repeats(c)
    BY <1>1, <1>3, <1>6, <2>2, Replies DEF Repeats
  <2> QED BY <1>1, <2>3 DEF Quiet, Others
<1> QED BY <1>5, <1>6

LEMMA ArrivalSteps ==
    ASSUME Control, NEW c \in Calls, NEW p \in Processes, Arrive(c, p)
    PROVE  Quiet
<1>1. ASSUME NEW id, NEW decision \in Decisions, NEW key, ArriveDecision(c, p, id, decision, key)
      PROVE  Quiet
  <2> DEFINE at == <<<<"decide", id>>, key>>
             found == Lookup(at, decision)
  <2>1. /\ Others(c) /\ AsksFor(c, p, "decide", id, decision, key)
        /\ call[c].pc = "new" /\ UNCHANGED ledgerVars
        /\ found = "absent" => call'[c].pc = "check"
        /\ found = "found" => /\ call'[c].pc = "done"
                              /\ call'[c].reply = Reply("replayed", idempotency[at].response)
        /\ found \notin {"absent", "found"} => /\ call'[c].pc = "done"
                                               /\ call'[c].reply = Reply("conflict", NoRecord)
    BY <1>1, DecisionArrives DEF Control
  <2>2. AnswerAt(c)' = at /\ call'[c].kind = "decide"
    BY <2>1 DEF AnswerAt, AsksFor
  <2>3. found = "found" => at \in DOMAIN idempotency
    BY DEF Lookup
  <2> HIDE DEF found, at
  <2>4. Silent(c) \/ Repeats(c)
    BY <2>1, <2>2, <2>3, Replies DEF Silent, Repeats, Succeeded
  <2> QED BY <2>1, <2>4 DEF Quiet, Others
<1>2. ASSUME NEW key, ArriveVerification(c, p, key)
      PROVE  Quiet
  <2> DEFINE at == <<<<"verify", NoParent>>, key>>
  <2>1. /\ Others(c) /\ AsksFor(c, p, "verify", NoParent, "none", key)
        /\ call[c].pc = "new" /\ UNCHANGED ledgerVars
        /\ \/ call'[c].pc \in {"joined", "verifying"}
           \/ /\ Lookup(at, "verify") = "found" /\ call'[c].pc = "done"
              /\ call'[c].reply = Reply("replayed", idempotency[at].response)
    BY <1>2, VerificationArrives DEF Control
  <2>2. AnswerAt(c)' = at
    BY <2>1 DEF AnswerAt, AsksFor
  <2>3. Lookup(at, "verify") = "found" => at \in DOMAIN idempotency
    BY DEF Lookup
  <2> HIDE DEF at
  <2>4. Silent(c) \/ Repeats(c)
    BY <2>1, <2>2, <2>3, Replies DEF Silent, Repeats, Succeeded
  <2> QED BY <2>1, <2>4 DEF Quiet, Others
<1> QED BY <1>1, <1>2 DEF Arrive

LEMMA CheckSteps ==
    ASSUME Control, NEW c \in Calls, CheckDecision(c)
    PROVE  Quiet
<1> DEFINE refusal == Refusal(call[c].target, call[c].decision)
<1>1. /\ Others(c) /\ SameAsk(c) /\ call[c].pc = "check" /\ UNCHANGED ledgerVars
      /\ \/ call'[c].pc = "done" /\ call'[c].reply = Reply(refusal, NoRecord)
         \/ call'[c].pc \in {"commit", "building"}
  BY DecisionIsChecked DEF Control
<1>2. refusal \in {"unknown", "failed", "resolved", "refused", "none"}
  BY DEF Refusal
<1> HIDE DEF refusal
<1>3. call'[c].kind = "decide"
  BY <1>1 DEF Control, AskedInv, SameAsk
<1>4. Silent(c)
  BY <1>1, <1>2, <1>3, Replies DEF Silent, Succeeded
<1> QED BY <1>1, <1>4 DEF Quiet, Others

LEMMA CrashSteps ==
    ASSUME Control, NEW p \in Processes, Crash(p)
    PROVE  Quiet
<1>1. /\ UNCHANGED ledgerVars
      /\ \A c \in Calls :
           IF call[c].at = p /\ call[c].pc # "done" THEN call'[c].pc = "lost"
                                                    ELSE call'[c] = call[c]
  BY ProcessCrashes DEF Control
<1> QED BY <1>1 DEF Quiet, Silent, Succeeded

LEMMA Steps ==
    ASSUME Answers, [Next]_vars
    PROVE  \/ Quiet
           \/ \E p \in Processes : Seeds(p)
           \/ \E c \in Calls : Decides(c)
           \/ \E c \in Calls : \E order, world : Verifies(c, order, world)
<1> USE DEF Answers
<1>1. ASSUME NEW p \in Processes, CheckInbox(p) PROVE Quiet
  BY <1>1 DEF CheckInbox, Quiet
<1>2. ASSUME NEW p \in Processes, Seed(p) PROVE Quiet \/ Seeds(p)
  <2>1. Commit(SeedRecords(p), SeedEvents(p), NoRecord) /\ UNCHANGED call
    BY <1>2, Zenon DEF Seed
  <2>2. UNCHANGED ledgerVars \/ Committed(SeedRecords(p), SeedEvents(p), NoRecord)
    BY <2>1, CommitEffect DEF Control, Shape
  <2> QED BY <2>1, <2>2 DEF Quiet, Seeds
<1>3. ASSUME NEW p \in Processes, Crash(p) PROVE Quiet
  BY <1>3, CrashSteps
<1>4. ASSUME NEW c \in Calls, CallStep(c)
      PROVE  Quiet \/ Decides(c) \/ \E order, world : Verifies(c, order, world)
  BY <1>4, CheckSteps, DecisionSteps, VerificationSteps, JoinedSteps DEF CallStep
<1>5. ASSUME NEW c \in Calls, NEW p \in Processes, Arrive(c, p) PROVE Quiet
  BY <1>5, ArrivalSteps
<1>6. CASE UNCHANGED vars \/ Quiescent
  BY <1>6 DEF vars, serviceVars, Quiescent, Quiet
<1> QED BY <1>1, <1>2, <1>3, <1>4, <1>5, <1>6 DEF Next

-----------------------------------------------------------------------------
(* The answers agree.                                                      *)

\* What is recorded for a call.
LEMMA Recording ==
    ASSUME NEW c \in Calls, NEW new, NEW events, NEW record, NEW response,
           Records(c, response), Committed(new, events, record),
           record.at = AnswerAt(c), record.request = Request(c), record.response = response,
           record # NoRecord
    PROVE  /\ Recorded(c)' /\ AnswerAt(c)' = AnswerAt(c)
           /\ call'[c].reply.response = response
           /\ DOMAIN idempotency' = DOMAIN idempotency \cup {AnswerAt(c)}
           /\ AnswerAt(c) \notin DOMAIN idempotency
           /\ Request(c)' = idempotency'[AnswerAt(c)].request
           /\ idempotency'[AnswerAt(c)].response = response
<1>1. /\ call'[c].pc = "done" /\ call'[c].reply.status = "recorded"
      /\ call'[c].reply.response = response
  BY Replies DEF Records
<1>2. AnswerAt(c)' = AnswerAt(c) /\ Request(c)' = Request(c)
  BY SameAnswerAt DEF Records
<1>3. /\ record.at \notin DOMAIN idempotency
      /\ DOMAIN idempotency' = DOMAIN idempotency \cup {record.at}
      /\ idempotency'[record.at] = [request |-> record.request, response |-> record.response]
  BY DEF Committed, AnswerKept
<1> QED BY <1>1, <1>2, <1>3 DEF Recorded

\* A call that was answered says what it said.
LEMMA SameCall ==
    ASSUME NEW c, call'[c] = call[c]
    PROVE  /\ AnswerAt(c)' = AnswerAt(c) /\ Request(c)' = Request(c)
           /\ Recorded(c)' = Recorded(c) /\ Succeeded(c)' = Succeeded(c)
BY DEF AnswerAt, Request, Recorded, Succeeded

\* The invariants of the answers, when one is recorded.
LEMMA AnswersRecorded ==
    ASSUME Answers, Control', NEW c \in Calls, NEW new, NEW events, NEW record, NEW response,
           call[c].pc # "done", Records(c, response), Committed(new, events, record),
           record.at = AnswerAt(c), record.request = Request(c), record.response = response,
           record # NoRecord, response.evaluation \in DOMAIN new \cup DOMAIN events
    PROVE  Answers'
<1> DEFINE here == AnswerAt(c)
<1>1. /\ Recorded(c)' /\ AnswerAt(c)' = here /\ call'[c].reply.response = response
      /\ DOMAIN idempotency' = DOMAIN idempotency \cup {here} /\ here \notin DOMAIN idempotency
      /\ Request(c)' = idempotency'[here].request /\ idempotency'[here].response = response
  BY Recording
<1> HIDE DEF here
<1>2. \A at \in DOMAIN idempotency : idempotency'[at] = idempotency[at]
  BY DEF Committed, AnswerKept
<1>3. \A d \in Calls : d # c => call'[d] = call[d]
  BY DEF Records, Others
<1>4. RecordInv'
  <2>1. SUFFICES ASSUME NEW at \in DOMAIN idempotency'
                 PROVE  \E d \in Calls :
                          /\ Recorded(d)' /\ AnswerAt(d)' = at
                          /\ Request(d)' = idempotency'[at].request
                          /\ call'[d].reply.response = idempotency'[at].response
    BY DEF RecordInv
  <2>2. CASE at = here
    BY <1>1, <2>2
  <2>3. CASE at \in DOMAIN idempotency
    <3>1. PICK d \in Calls :
            /\ Recorded(d) /\ AnswerAt(d) = at /\ Request(d) = idempotency[at].request
            /\ call[d].reply.response = idempotency[at].response
      BY <2>3 DEF Answers, RecordInv
    <3>2. call'[d] = call[d]
      BY <1>3, <3>1 DEF Recorded
    <3> QED BY <1>2, <2>3, <3>1, <3>2, SameCall
  <2> QED BY <1>1, <2>2, <2>3
<1>5. \A id : Stored(id) => Stored(id)'
  BY DEF Committed, Stored
<1>6. SuccessInv'
  <2>1. SUFFICES ASSUME NEW d \in Calls, Succeeded(d)'
                 PROVE  /\ AnswerAt(d)' \in DOMAIN idempotency'
                        /\ call'[d].reply.response = idempotency'[AnswerAt(d)'].response
                        /\ Stored(call[d].reply.response.evaluation)'
    BY DEF SuccessInv
  <2>2. CASE d = c
    <3>1. response.evaluation \in DOMAIN evaluations'
      BY DEF Committed, Insertable
    <3> QED BY <1>1, <2>2, <3>1 DEF Stored
  <2>3. CASE d # c
    <3>1. call'[d] = call[d]
      BY <1>3, <2>3
    <3>2. Succeeded(d) /\ AnswerAt(d)' = AnswerAt(d)
      BY <2>1, <3>1, SameCall
    <3>3. /\ AnswerAt(d) \in DOMAIN idempotency
          /\ call[d].reply.response = idempotency[AnswerAt(d)].response
          /\ Stored(call[d].reply.response.evaluation)
      BY <3>2 DEF Answers, SuccessInv
    <3>4. Stored(call[d].reply.response.evaluation)'
      BY <1>5, <3>1, <3>3 DEF Stored
    <3> QED BY <1>1, <1>2, <3>1, <3>2, <3>3, <3>4
  <2> QED BY <2>2, <2>3
<1>7. VerifyInv'
  BY <1>1, <1>3 DEF Answers, VerifyInv, Recorded
<1> QED BY <1>4, <1>6, <1>7 DEF Answers

\* And when none is.
LEMMA AnswersQuiet ==
    ASSUME Answers, Control', UNCHANGED idempotency, \A id : Stored(id) => Stored(id)',
           \A c \in Calls : call'[c] = call[c] \/ Silent(c) \/ Repeats(c)
    PROVE  Answers'
<1>1. \A c \in Calls : call[c].pc = "done" => call'[c] = call[c]
  BY DEF Silent, Repeats
<1>2. RecordInv'
  <2>1. SUFFICES ASSUME NEW at \in DOMAIN idempotency
                 PROVE  \E d \in Calls :
                          /\ Recorded(d)' /\ AnswerAt(d)' = at
                          /\ Request(d)' = idempotency[at].request
                          /\ call'[d].reply.response = idempotency[at].response
    BY DEF RecordInv
  <2>2. PICK d \in Calls :
          /\ Recorded(d) /\ AnswerAt(d) = at /\ Request(d) = idempotency[at].request
          /\ call[d].reply.response = idempotency[at].response
    BY DEF Answers, RecordInv
  <2>3. call'[d] = call[d]
    BY <1>1, <2>2 DEF Recorded
  <2> QED BY <2>2, <2>3, SameCall
<1>3. SuccessInv'
  <2>1. SUFFICES ASSUME NEW d \in Calls, Succeeded(d)'
                 PROVE  /\ AnswerAt(d)' \in DOMAIN idempotency
                        /\ call'[d].reply.response = idempotency[AnswerAt(d)'].response
                        /\ Stored(call[d].reply.response.evaluation)'
    BY DEF SuccessInv
  <2>2. CASE call'[d] = call[d]
    <3>1. Succeeded(d) /\ AnswerAt(d)' = AnswerAt(d)
      BY <2>1, <2>2, SameCall
    <3>2. /\ AnswerAt(d) \in DOMAIN idempotency
          /\ call[d].reply.response = idempotency[AnswerAt(d)].response
          /\ Stored(call[d].reply.response.evaluation)
      BY <3>1 DEF Answers, SuccessInv
    <3>3. Stored(call[d].reply.response.evaluation)'
      BY <2>2, <3>2 DEF Stored
    <3> QED BY <2>2, <3>1, <3>2, <3>3
  <2>3. CASE Repeats(d)
    <3>1. /\ AnswerAt(d)' \in DOMAIN idempotency
          /\ call'[d].reply.response = idempotency[AnswerAt(d)'].response
      BY <2>3 DEF Repeats
    <3> DEFINE at == AnswerAt(d)'
    <3>2. PICK e \in Calls :
            Recorded(e) /\ AnswerAt(e) = at /\ call[e].reply.response = idempotency[at].response
      BY <3>1 DEF Answers, RecordInv
    <3>3. Stored(idempotency[at].response.evaluation)
      BY <3>2 DEF Answers, SuccessInv, Recorded, Succeeded
    <3>4. Stored(call[d].reply.response.evaluation)'
      BY <3>1, <3>3 DEF Stored
    <3> QED BY <3>1, <3>4
  <2>4. CASE Silent(d)
    BY <2>1, <2>4 DEF Silent
  <2> QED BY <2>2, <2>3, <2>4
<1>4. VerifyInv'
  BY DEF Answers, VerifyInv, Silent, Repeats
<1> QED BY <1>2, <1>3, <1>4 DEF Answers

LEMMA DecisionIsRecorded ==
    ASSUME NEW c \in Calls, Decides(c)
    PROVE  LET record == DecisionRecord(c)
               response == DecisionResponse(c) IN
           /\ call[c].pc # "done" /\ Records(c, response)
           /\ Committed(ChildRecords(c), DecisionEvents(c), record)
           /\ record.at = AnswerAt(c) /\ record.request = Request(c)
           /\ record.response = response /\ record # NoRecord
           /\ response.evaluation \in DOMAIN DecisionEvents(c)
<1>1. /\ DecisionRecord(c).at = AnswerAt(c) /\ DecisionRecord(c).request = Request(c)
      /\ DecisionRecord(c).response = DecisionResponse(c) /\ DecisionRecord(c) # NoRecord
  BY DEF DecisionRecord, NoRecord
<1>2. DecisionResponse(c).evaluation \in DOMAIN DecisionEvents(c)
  BY DecisionDomains DEF DecisionResponse
<1> QED BY <1>1, <1>2 DEF Decides

LEMMA VerificationIsRecorded ==
    ASSUME Control, NEW c \in Calls, NEW order, NEW world, Verifies(c, order, world)
    PROVE  LET result == RunResult("live-release-verification", order, world)
               record == VerifiedAnswer(c)
               response == [evaluation |-> LiveId(c)] IN
           /\ call[c].pc # "done" /\ Records(c, response)
           /\ Committed(VerifiedRecords(c, result), VerifiedEvents(c, result), record)
           /\ record.at = AnswerAt(c) /\ record.request = Request(c)
           /\ record.response = response /\ record # NoRecord
           /\ response.evaluation \in DOMAIN VerifiedRecords(c, result)
<1> DEFINE result == RunResult("live-release-verification", order, world)
<1>1. /\ call[c].pc = "verifying" /\ Records(c, [evaluation |-> LiveId(c)])
      /\ Committed(VerifiedRecords(c, result), VerifiedEvents(c, result), VerifiedAnswer(c))
  BY Zenon DEF Verifies
<1>2. call[c].kind = "verify"
  BY <1>1 DEF Control, AskedInv
<1>3. /\ VerifiedAnswer(c).at = AnswerAt(c) /\ VerifiedAnswer(c).request = Request(c)
      /\ VerifiedAnswer(c).response = [evaluation |-> LiveId(c)] /\ VerifiedAnswer(c) # NoRecord
  BY <1>2 DEF VerifiedAnswer, NoRecord, Request
<1> HIDE DEF result
<1>4. LiveId(c) \in DOMAIN VerifiedRecords(c, result)
  BY DEF VerifiedRecords, Row
<1> QED BY <1>1, <1>3, <1>4 DEF result

LEMMA AnswersInit == Init => Answers
<1> SUFFICES ASSUME Init PROVE Answers
  OBVIOUS
<1>1. DOMAIN idempotency = {} /\ \A c \in Calls : call[c].pc = "new"
  BY DEF Init, LedgerInit, Unsent
<1> QED BY <1>1, ControlInit DEF Answers, RecordInv, SuccessInv, VerifyInv, Succeeded

LEMMA AnswersStep ==
    ASSUME Answers, [Next]_vars
    PROVE  Answers'
<1>1. Control'
  BY ControlStep DEF Answers
<1>2. CASE Quiet
  BY <1>1, <1>2, AnswersQuiet DEF Quiet, ledgerVars, Stored
<1>3. ASSUME NEW p \in Processes, Seeds(p) PROVE Answers'
  BY <1>1, <1>3, AnswersQuiet DEF Seeds, Committed, Stored
<1>4. ASSUME NEW c \in Calls, Decides(c) PROVE Answers'
  BY <1>1, <1>4, DecisionIsRecorded, AnswersRecorded
<1>5. ASSUME NEW c \in Calls, NEW order, NEW world, Verifies(c, order, world) PROVE Answers'
  BY <1>1, <1>5, VerificationIsRecorded, AnswersRecorded DEF Answers
<1> QED BY <1>2, <1>3, <1>4, <1>5, Steps

-----------------------------------------------------------------------------
(* Where evaluations come from.                                            *)

\* An evaluation was seeded, asked for by a recorded decision or verified for a
\* recorded answer.
OriginInv ==
    \A id \in DOMAIN evaluations :
      \/ \E p \in Processes : id \in SeedIds(p)
      \/ \E c \in Calls : id = ChildId(c) /\ Recorded(c)
      \/ \E c \in Calls : /\ id = LiveId(c) /\ Recorded(c) /\ call[c].kind = "verify"
                          /\ call[c].reply.response = [evaluation |-> LiveId(c)]

Origins == Answers /\ OriginInv

LEMMA OriginsInit == Init => Origins
BY AnswersInit DEF Init, LedgerInit, Origins, OriginInv

LEMMA OriginsStep ==
    ASSUME Origins, [Next]_vars
    PROVE  Origins'
<1>1. Answers' /\ Answers /\ Control
  BY AnswersStep DEF Origins, Answers
<1>2. ASSUME NEW id \in DOMAIN evaluations, \A c \in Calls : Recorded(c) => call'[c] = call[c]
      PROVE  \/ \E p \in Processes : id \in SeedIds(p)
             \/ \E c \in Calls : id = ChildId(c) /\ Recorded(c)'
             \/ \E c \in Calls : /\ id = LiveId(c) /\ Recorded(c)' /\ call'[c].kind = "verify"
                                 /\ call'[c].reply.response = [evaluation |-> LiveId(c)]
  BY <1>2 DEF Origins, OriginInv, Recorded
<1>3. CASE Quiet
  <2>1. \A c \in Calls : Recorded(c) => call'[c] = call[c]
    BY <1>3 DEF Quiet, Silent, Repeats, Recorded
  <2>2. evaluations' = evaluations
    BY <1>3 DEF Quiet, ledgerVars
  <2> QED BY <1>1, <1>2, <2>1, <2>2 DEF Origins, OriginInv, SeedIds, ChildId, LiveId
<1>4. ASSUME NEW p \in Processes, Seeds(p) PROVE Origins'
  <2>1. DOMAIN evaluations' = DOMAIN evaluations \cup SeedIds(p) /\ UNCHANGED call
    BY <1>4 DEF Seeds, Committed, SeedRecords
  <2> QED BY <1>1, <1>2, <2>1 DEF Origins, OriginInv, SeedIds, ChildId, LiveId
<1>5. ASSUME NEW c \in Calls, NEW response, call[c].pc # "done", Records(c, response)
      PROVE  /\ \A d \in Calls : Recorded(d) => call'[d] = call[d]
             /\ Recorded(c)' /\ call'[c].kind = call[c].kind
             /\ call'[c].reply.response = response
  BY <1>5, Replies DEF Records, Others, SameAsk, Recorded
<1>6. ASSUME NEW c \in Calls, Decides(c) PROVE Origins'
  <2>1. DOMAIN evaluations' \subseteq DOMAIN evaluations \cup {ChildId(c)}
    BY <1>6, DecisionDomains DEF Decides, Committed
  <2>2. /\ Recorded(c)' /\ \A d \in Calls : Recorded(d) => call'[d] = call[d]
    BY <1>5, <1>6, DecisionIsRecorded
  <2> QED BY <1>1, <1>2, <2>1, <2>2 DEF Origins, OriginInv, SeedIds, ChildId, LiveId
<1>7. ASSUME NEW c \in Calls, NEW order, NEW world, Verifies(c, order, world) PROVE Origins'
  <2>1. DOMAIN evaluations' \subseteq DOMAIN evaluations \cup {LiveId(c)}
    BY <1>7 DEF Verifies, Committed, VerifiedRecords, Row
  <2>2. /\ call[c].pc # "done" /\ Records(c, [evaluation |-> LiveId(c)])
        /\ call[c].kind = "verify"
    BY <1>1, <1>7 DEF Verifies, Control, AskedInv
  <2>3. /\ Recorded(c)' /\ \A d \in Calls : Recorded(d) => call'[d] = call[d]
        /\ call'[c].kind = "verify" /\ call'[c].reply.response = [evaluation |-> LiveId(c)]
    BY <1>5, <2>2
  <2> QED BY <1>1, <1>2, <2>1, <2>3 DEF Origins, OriginInv, SeedIds, ChildId, LiveId
<1> QED BY <1>1, <1>3, <1>4, <1>6, <1>7, Steps

LEMMA OriginsHold == Spec => []Origins
BY OriginsInit, OriginsStep, PTL DEF Spec

\* The names of the three sorts of evaluations differ.
LEMMA NamesDiffer ==
    /\ \A c, d : (LiveId(c) = LiveId(d) \/ ChildId(c) = ChildId(d)) => c = d
    /\ \A c, d : LiveId(c) # ChildId(d) /\ LiveId(c) # NoParent /\ ChildId(c) # NoParent
    /\ \A c, p : LiveId(c) \notin SeedIds(p)
    /\ \A c \in Calls, p \in Processes : ChildId(c) \notin SeedIds(p)
    /\ \A p : NoParent \notin SeedIds(p)
BY EvaluationAssumption DEF LiveId, ChildId, SeedIds, NoParent

\* Successful answers to one key agree with each other and the record
\* (commit's lookup and the replays of recordDecision and
\* startLiveReleaseVerification), and nothing is left of what was not recorded.
THEOREM AnswersAgreeHolds == Spec => []AnswersAgree
<1>1. Origins => AnswersAgree
  <2> SUFFICES ASSUME Origins PROVE AnswersAgree
    OBVIOUS
  <2>1. ASSUME NEW id \in DOMAIN evaluations, id[1] \in Calls
        PROVE  call[id[1]].reply.status = "recorded"
    <3>1. \A p \in Processes : id \notin SeedIds(p)
      BY <2>1, EvaluationAssumption DEF SeedIds
    <3>2. \A c : ChildId(c)[1] = c /\ LiveId(c)[1] = c
      BY DEF ChildId, LiveId
    <3>3. PICK c \in Calls : (id = ChildId(c) \/ id = LiveId(c)) /\ Recorded(c)
      BY <3>1, Zenon DEF Origins, OriginInv
    <3>4. id[1] = c
      BY <3>2, <3>3
    <3> QED BY <3>3, <3>4 DEF Recorded
  <2> QED BY <2>1 DEF AnswersAgree, Origins, Answers, SuccessInv
<1> QED BY OriginsHold, <1>1, PTL

\* However many processes ran the agent for a key, the ledger has one evaluation
\* of it (the idempotency record of #storeEvaluation).
THEOREM VerifiedOnceHolds == Spec => []VerifiedOnce
<1>1. Origins => VerifiedOnce
  <2> SUFFICES ASSUME Origins, NEW c \in Calls, NEW d \in Calls,
                      Stored(LiveId(c)), Stored(LiveId(d)), call[c].key = call[d].key
               PROVE  c = d
    BY DEF VerifiedOnce
  <2>1. ASSUME NEW e \in Calls, Stored(LiveId(e))
        PROVE  /\ Succeeded(e) /\ call[e].kind = "verify" /\ call[e].target = NoParent
               /\ call[e].reply.response = [evaluation |-> LiveId(e)]
    <3>1. PICK f \in Calls : /\ LiveId(e) = LiveId(f) /\ Recorded(f) /\ call[f].kind = "verify"
                             /\ call[f].reply.response = [evaluation |-> LiveId(f)]
      BY <2>1, NamesDiffer DEF Origins, OriginInv, Stored
    <3>2. e = f
      BY <3>1, NamesDiffer
    <3> QED BY <3>1, <3>2 DEF Origins, Answers, Control, AskedInv, Recorded, Succeeded
  <2>2. AnswerAt(c) = AnswerAt(d)
    BY <2>1 DEF AnswerAt
  <2>3. call[c].reply.response = call[d].reply.response
    BY <2>1, <2>2 DEF Origins, Answers, SuccessInv
  <2>4. [evaluation |-> LiveId(c)].evaluation = [evaluation |-> LiveId(d)].evaluation
    BY <2>1, <2>3
  <2> QED BY <2>4, NamesDiffer
<1> QED BY OriginsHold, <1>1, PTL

-----------------------------------------------------------------------------
(* The timelines.                                                          *)

\* A timeline that is read back, whatever is appended to it next.
Legible(record, l) ==
    /\ Typed(l) /\ Projects(record, l) /\ \E S : l \in Seq(S)
    /\ Decided(l) \/ OfType(l, "decision") = <<>>

LEMMA NewIsLegible ==
    ASSUME NEW scenario, NEW order, NEW world, NEW parent,
           ResultMatches(RunResult(scenario, order, world), scenario)
    PROVE  LET result == RunResult(scenario, order, world)
               l == EvaluationEvents(scenario, result, parent) IN
           /\ Legible(EvaluationRecord(scenario, result.candidate, parent), l)
           /\ ~ Decided(l)
<1> DEFINE result == RunResult(scenario, order, world)
           l == EvaluationEvents(scenario, result, parent)
<1>1. ReadsBack(scenario, result, parent, l)
  BY ReadBack, Zenon
<1>2. Projects(EvaluationRecord(scenario, result.candidate, parent), l)
  BY ResultProjects
<1> DEFINE S == {l[i] : i \in 1..Len(l)}
<1> HIDE DEF result, l
<1>3. l \in [1..Len(l) -> S]
  BY <1>1 DEF ReadsBack
<1>4. l \in Seq(S)
  <2> HIDE DEF S
  <2>1. \A n \in Nat : [1..n -> S] \subseteq Seq(S)
    OBVIOUS
  <2> QED BY <1>1, <1>3, <2>1 DEF ReadsBack
<1>5. ~ Decided(l)
  <2>1. DOMAIN l = 1..Len(l)
    BY <1>1 DEF ReadsBack
  <2>2. \A i \in 1..Len(l) : l[i].type # "decision"
    BY <1>1 DEF ReadsBack
  <2> QED BY <2>1, <2>2 DEF Decided
<1>6. Typed(l) /\ OfType(l, "decision") = <<>>
  BY <1>1 DEF ReadsBack
<1> QED BY <1>2, <1>4, <1>5, <1>6 DEF Legible, result, l

LEMMA FromOne ==
    ASSUME NEW first \in Nat, NEW e
    PROVE  DOMAIN From(first, <<e>>) = {first} /\ From(first, <<e>>)[first] = e
<1>1. Len(<<e>>) = 1 /\ <<e>>[1] = e
  OBVIOUS
<1>2. first..(first + 1 - 1) = {first} /\ first - first + 1 = 1
  OBVIOUS
<1> QED BY <1>1, <1>2 DEF From

LEMMA AddedAppend ==
    ASSUME NEW S, NEW l \in Seq(S), NEW e, NEW rows,
           DOMAIN rows = {Len(l) + 1}, rows[Len(l) + 1] = e
    PROVE  Added(l, rows) = Append(l, e)
<1> DEFINE T == S \cup {e}   m == Append(l, e)
<1>1. l \in Seq(T) /\ e \in T /\ Len(l) \in Nat /\ DOMAIN l = 1..Len(l)
  OBVIOUS
<1>2. /\ m \in Seq(T) /\ Len(m) = Len(l) + 1 /\ m[Len(l) + 1] = e
      /\ DOMAIN m = 1..(Len(l) + 1) /\ \A i \in 1..Len(l) : m[i] = l[i]
  BY <1>1
<1>3. m = [i \in DOMAIN m |-> m[i]]
  <2> HIDE DEF m, T
  <2>1. m \in [1..Len(m) -> T]
    BY <1>2
  <2> QED BY <2>1
<1> HIDE DEF m, T
<1>4. m = [i \in DOMAIN l \cup DOMAIN rows |-> IF i \in DOMAIN l THEN l[i] ELSE rows[i]]
  <2>1. DOMAIN m = DOMAIN l \cup DOMAIN rows
    BY <1>1, <1>2
  <2>2. \A i \in DOMAIN m : m[i] = IF i \in DOMAIN l THEN l[i] ELSE rows[i]
    BY <1>1, <1>2
  <2> QED BY <1>3, <2>1, <2>2
<1> QED BY <1>4 DEF Added, m

TimelinesInv == \A id \in DOMAIN evaluations : Legible(evaluations[id], timeline[id])

\* A decision that waits may be taken, and has read the end of the timeline
\* unless another one has been written since.
AwaitInv(c) ==
    call[c].pc \in {"commit", "building"} =>
      LET l == timeline[call[c].target]
      IN /\ Stored(call[c].target) /\ Contains(Verdict(l).allowed, call[c].decision)
         /\ call[c].next \in Nat /\ (Decided(l) \/ call[c].next = Len(l) + 1)

\* Lineage, with parents that are there.
LineageInv ==
    /\ LineageIsExact
    /\ \A id \in DOMAIN evaluations : evaluations[id].parent \in DOMAIN evaluations \cup {NoParent}

Tables ==
    /\ Origins /\ TimelinesInv /\ LineageInv
    /\ \A c \in Calls : AwaitInv(c)

\* Evaluations that are born without a parent.
Births(ids) ==
    /\ ids \cap DOMAIN evaluations = {} /\ DOMAIN evaluations' = DOMAIN evaluations \cup ids
    /\ RowsKept({})
    /\ \A id \in ids : /\ Legible(evaluations[id], timeline[id])'
                       /\ ~ Decided(timeline'[id]) /\ evaluations'[id].parent = NoParent

LEMMA SeedsAreBirths ==
    ASSUME Control, NEW p \in Processes, Seeds(p)
    PROVE  Births(SeedIds(p)) /\ UNCHANGED idempotency
<1>1. Committed(SeedRecords(p), SeedEvents(p), NoRecord)
  BY DEF Seeds
<1>2. DOMAIN SeedRecords(p) = SeedIds(p) /\ DOMAIN SeedEvents(p) = SeedIds(p)
  BY DEF SeedRecords, SeedEvents
<1>3. /\ SeedIds(p) \cap DOMAIN evaluations = {}
      /\ DOMAIN evaluations' = DOMAIN evaluations \cup SeedIds(p)
      /\ \A id \in SeedIds(p) : /\ evaluations'[id] = SeedRecords(p)[id]
                                /\ timeline'[id] = SeedEvents(p)[id]
      /\ UNCHANGED idempotency
  BY <1>1, <1>2 DEF Committed, Insertable, Control, Shape
<1>4. RowsKept({})
  BY <1>1, <1>2, <1>3 DEF Committed, RowsKept
<1>5. ASSUME NEW id \in SeedIds(p)
      PROVE  /\ Legible(evaluations[id], timeline[id])'
             /\ ~ Decided(timeline'[id]) /\ evaluations'[id].parent = NoParent
  <2> DEFINE scenario == id[2]
             result == RunResult(scenario, FixtureOrder, Fixture(scenario))
  <2>1. scenario \in {"ready", "deployed-sha-mismatch"}
    BY DEF SeedIds
  <2>2. /\ evaluations'[id] = EvaluationRecord(scenario, result.candidate, NoParent)
        /\ timeline'[id] = EvaluationEvents(scenario, result, NoParent)
    BY <1>3 DEF SeedRecords, SeedEvents, SeedResult
  <2> HIDE DEF scenario
  <2>3. ResultMatches(result, scenario)
    BY <2>1, FixtureResult
  <2>4. /\ Legible(EvaluationRecord(scenario, result.candidate, NoParent),
                   EvaluationEvents(scenario, result, NoParent))
        /\ ~ Decided(EvaluationEvents(scenario, result, NoParent))
    BY <2>3, NewIsLegible
  <2>5. EvaluationRecord(scenario, result.candidate, NoParent).parent = NoParent
    BY DEF EvaluationRecord
  <2> QED BY <2>2, <2>4, <2>5
<1> QED BY <1>3, <1>4, <1>5 DEF Births

LEMMA VerifiedIsBirth ==
    ASSUME Control, NEW c \in Calls, NEW order, NEW world, Verifies(c, order, world)
    PROVE  Births({LiveId(c)})
<1> DEFINE scenario == "live-release-verification"
           result == RunResult(scenario, order, world)
           new == VerifiedRecords(c, result)
           events == VerifiedEvents(c, result)
           id == LiveId(c)
<1>1. Committed(new, events, VerifiedAnswer(c)) /\ ResultMatches(result, scenario)
  BY Zenon DEF Verifies
<1>2. /\ DOMAIN new = {id} /\ DOMAIN events = {id}
      /\ new[id] = EvaluationRecord(scenario, result.candidate, NoParent)
      /\ events[id] = EvaluationEvents(scenario, result, NoParent)
  BY DEF VerifiedRecords, VerifiedEvents, Row
<1>3. /\ Legible(EvaluationRecord(scenario, result.candidate, NoParent),
                 EvaluationEvents(scenario, result, NoParent))
      /\ ~ Decided(EvaluationEvents(scenario, result, NoParent))
  BY <1>1, NewIsLegible
<1>4. EvaluationRecord(scenario, result.candidate, NoParent).parent = NoParent
  BY DEF EvaluationRecord
<1> HIDE DEF scenario, result, new, events, id
<1>5. /\ {id} \cap DOMAIN evaluations = {}
      /\ DOMAIN evaluations' = DOMAIN evaluations \cup {id}
      /\ evaluations'[id] = new[id] /\ timeline'[id] = events[id]
  BY <1>1, <1>2 DEF Committed, Insertable, Control, Shape
<1>6. RowsKept({})
  BY <1>1, <1>2, <1>5 DEF Committed, RowsKept
<1> QED BY <1>2, <1>3, <1>4, <1>5, <1>6 DEF Births, id

\* What a decision does to the tables.
DecisionOn(c) == DecisionEvent(call[c].decision, Child(c))

LEMMA DecisionEffect ==
    ASSUME Tables, NEW c \in Calls, Decides(c)
    PROVE  LET t == call[c].target   l == timeline[t]   child == ChildId(c) IN
           /\ Stored(t) /\ ~ Decided(l) /\ Contains(Verdict(l).allowed, call[c].decision)
           /\ timeline'[t] = Append(l, DecisionOn(c)) /\ RowsKept({t})
           /\ IF call[c].decision = "Reject"
                THEN DOMAIN evaluations' = DOMAIN evaluations
                ELSE /\ ~ Stored(child) /\ DOMAIN evaluations' = DOMAIN evaluations \cup {child}
                     /\ Legible(evaluations[child], timeline[child])'
                     /\ ~ Decided(timeline'[child]) /\ evaluations'[child].parent = t
<1> DEFINE t == call[c].target   l == timeline[t]   child == ChildId(c)
           events == DecisionEvents(c)   new == ChildRecords(c)   e == DecisionOn(c)
           next == call[c].next
<1>1. /\ Stored(t) /\ Contains(Verdict(l).allowed, call[c].decision)
      /\ next \in Nat /\ (Decided(l) \/ next = Len(l) + 1)
  BY DEF Tables, AwaitInv, Decides
<1>2. /\ DOMAIN new = IF call[c].decision = "Reject" THEN {} ELSE {child}
      /\ DOMAIN events = {t} \cup DOMAIN new
  BY DecisionDomains
<1>3. Committed(new, events, DecisionRecord(c)) /\ Insertable(new, events)
  BY DEF Decides, Committed
<1>4. DOMAIN new \cap DOMAIN evaluations = {} /\ DOMAIN timeline = DOMAIN evaluations
  BY <1>3 DEF Insertable, Tables, Origins, Answers, Control, Shape
<1>5. events[t] = From(next, <<e>>)
  <2>1. DOMAIN DecisionRows(c) = {t} /\ DecisionRows(c)[t] = From(next, <<e>>)
    BY DEF DecisionRows, Row, DecisionOn
  <2> QED BY <2>1 DEF DecisionEvents, Added
<1>6. DOMAIN events[t] = {next} /\ events[t][next] = e /\ e.type = "decision"
  <2>1. e.type = "decision"
    BY DEF DecisionOn, DecisionEvent
  <2> HIDE DEF e, next, events
  <2> QED BY <1>1, <1>5, <2>1, FromOne
<1> HIDE DEF events, new, e, next
<1>7. ~ Decided(l)
  BY <1>1, <1>2, <1>3, <1>4, <1>6 DEF Insertable, Decided, Stored
<1>8. timeline'[t] = Added(l, events[t])
  BY <1>1, <1>2, <1>3, <1>4 DEF Committed, Stored
<1>9. PICK S : l \in Seq(S)
  BY <1>1 DEF Tables, TimelinesInv, Legible, Stored
<1>10. timeline'[t] = Append(l, e)
  BY <1>1, <1>6, <1>7, <1>8, <1>9, AddedAppend
<1>11. RowsKept({t}) /\ DOMAIN evaluations' = DOMAIN evaluations \cup DOMAIN new
  BY <1>2, <1>3, <1>4 DEF Committed, RowsKept
<1>12. ASSUME call[c].decision # "Reject"
       PROVE  /\ Legible(evaluations[child], timeline[child])'
              /\ ~ Decided(timeline'[child]) /\ evaluations'[child].parent = t
  <2> DEFINE scenario == "deployed-sha-mismatch"
             result == RunResult(scenario, FixtureOrder, Fixture(scenario))
  <2>1. ResultMatches(result, scenario)
    BY FixtureResult
  <2>2. /\ Legible(EvaluationRecord(scenario, result.candidate, t),
                   EvaluationEvents(scenario, result, t))
        /\ ~ Decided(EvaluationEvents(scenario, result, t))
    BY <2>1, NewIsLegible
  <2>3. /\ new[child] = EvaluationRecord(scenario, result.candidate, t)
        /\ ChildEvents(c)[child] = EvaluationEvents(scenario, result, t)
        /\ DOMAIN ChildEvents(c) = {child}
    BY <1>12 DEF ChildRecords, ChildEvents, ChildResult, Row, new
  <2>4. child # t /\ child \in DOMAIN new /\ child \notin DOMAIN timeline
    BY <1>1, <1>2, <1>4, <1>12 DEF Stored
  <2>5. events[child] = ChildEvents(c)[child]
    <3>1. DOMAIN DecisionRows(c) = {t}
      BY DEF DecisionRows, Row
    <3> QED BY <2>3, <2>4, <3>1 DEF events, DecisionEvents, Added
  <2>6. evaluations'[child] = new[child] /\ timeline'[child] = events[child]
    BY <1>2, <1>3, <2>4 DEF Committed
  <2>7. EvaluationRecord(scenario, result.candidate, t).parent = t
    BY DEF EvaluationRecord
  <2> HIDE DEF scenario, result, child
  <2> QED BY <2>2, <2>3, <2>5, <2>6, <2>7
<1> QED BY <1>1, <1>2, <1>4, <1>7, <1>10, <1>11, <1>12 DEF Stored, e

\* The calls whose decision waits for its commit: those that did, and one that
\* has just been checked.
LEMMA AwaitSteps ==
    ASSUME Control, [Next]_vars, NEW c \in Calls, call'[c].pc \in {"commit", "building"}
    PROVE  call'[c] = call[c] \/ CheckDecision(c)
<1>1. ASSUME NEW d \in Calls, Others(d), call'[d].pc \notin {"commit", "building"}
      PROVE  call'[c] = call[c]
  BY <1>1 DEF Others
<1>2. ASSUME NEW p \in Processes, CheckInbox(p) \/ Seed(p) PROVE call'[c] = call[c]
  BY <1>2 DEF CheckInbox, Seed
<1>3. ASSUME NEW p \in Processes, Crash(p) PROVE call'[c] = call[c]
  <2>1. \/ call'[c] = call[c]
        \/ call'[c].pc = "lost"
    BY <1>3, ProcessCrashes DEF Control
  <2> QED BY <2>1
<1>4. ASSUME NEW d \in Calls, CallStep(d) PROVE call'[c] = call[c] \/ CheckDecision(c)
  <2>1. CASE CheckDecision(d)
    BY <2>1, DecisionIsChecked DEF Control, Others
  <2>2. CASE CommitDecision(d)
    BY <1>1, <2>2, DecisionCommits DEF Control
  <2>3. CASE VerificationReturns(d)
    BY <1>1, <2>3, VerificationIsBack DEF Control
  <2>4. CASE JoinReturns(d)
    BY <1>1, <2>4, JoinedIsBack DEF Control
  <2> QED BY <1>4, <2>1, <2>2, <2>3, <2>4 DEF CallStep
<1>5. ASSUME NEW d \in Calls, NEW p \in Processes, Arrive(d, p) PROVE call'[c] = call[c]
  <2>1. ASSUME NEW id, NEW decision, NEW key, ArriveDecision(d, p, id, decision, key)
        PROVE  call'[c] = call[c]
    BY <1>1, <2>1, DecisionArrives DEF Control
  <2>2. ASSUME NEW key, ArriveVerification(d, p, key) PROVE call'[c] = call[c]
    BY <1>1, <2>2, VerificationArrives DEF Control
  <2> QED BY <1>5, <2>1, <2>2 DEF Arrive
<1>6. CASE UNCHANGED vars \/ Quiescent
  BY <1>6 DEF vars, serviceVars, Quiescent
<1> QED BY <1>2, <1>3, <1>4, <1>5, <1>6 DEF Next

\* A decision is checked against the timeline it is then numbered from.
LEMMA CheckedAwaits ==
    ASSUME Tables, NEW c \in Calls, CheckDecision(c), call'[c].pc \in {"commit", "building"}
    PROVE  AwaitInv(c)' /\ UNCHANGED ledgerVars
<1> DEFINE t == call[c].target
           decision == call[c].decision
           refusal == Refusal(t, decision)
<1>1. /\ SameAsk(c) /\ UNCHANGED ledgerVars
      /\ refusal # "none" => call'[c].pc = "done"
      /\ refusal = "none" => call'[c].next = Len(timeline[t]) + 1
  BY DecisionIsChecked DEF Tables, Origins, Answers, Control
<1>2. refusal = "none"
  BY <1>1
<1>3. Stored(t) /\ Contains(Verdict(timeline[t]).allowed, decision)
  BY <1>2 DEF Refusal
<1>4. Len(timeline[t]) \in Nat
  BY <1>3 DEF Tables, TimelinesInv, Legible, Stored
<1> QED BY <1>1, <1>2, <1>3, <1>4 DEF AwaitInv, SameAsk, Stored, ledgerVars

\* What a decision that waits has found stays true while its timeline does.
LEMMA AwaitKept ==
    ASSUME NEW c, AwaitInv(c), call'[c] = call[c],
           Stored(call[c].target) => Stored(call[c].target)'
                                     /\ timeline'[call[c].target] = timeline[call[c].target]
    PROVE  AwaitInv(c)'
BY DEF AwaitInv

LEMMA TablesInit == Init => Tables
<1> SUFFICES ASSUME Init PROVE Tables
  OBVIOUS
<1>1. DOMAIN evaluations = {} /\ \A c \in Calls : call[c].pc = "new"
  BY DEF Init, LedgerInit, Unsent
<1> QED BY <1>1, OriginsInit DEF Tables, TimelinesInv, LineageInv, LineageIsExact, AwaitInv

LEMMA TablesQuiet ==
    ASSUME Tables, [Next]_vars, Quiet
    PROVE  Tables'
<1>1. Origins' /\ Control /\ UNCHANGED <<evaluations, timeline>>
  BY OriginsStep DEF Tables, Origins, Answers, Quiet, ledgerVars
<1>2. TimelinesInv' /\ LineageInv'
  BY <1>1 DEF Tables, TimelinesInv, LineageInv, LineageIsExact, Legible, Stored
<1>3. ASSUME NEW c \in Calls PROVE AwaitInv(c)'
  <2>1. SUFFICES ASSUME call'[c].pc \in {"commit", "building"} PROVE AwaitInv(c)'
    BY DEF AwaitInv
  <2>2. CASE call'[c] = call[c]
    BY <1>1, <2>2, AwaitKept DEF Tables, Stored
  <2>3. CASE CheckDecision(c)
    BY <2>1, <2>3, CheckedAwaits
  <2> QED BY <1>1, <2>1, <2>2, <2>3, AwaitSteps
<1> QED BY <1>1, <1>2, <1>3 DEF Tables

\* Births leave the lineage of the others as it is.
LEMMA LineageBorn ==
    ASSUME Tables, NEW ids, Births(ids)
    PROVE  LineageInv'
<1>1. /\ DOMAIN evaluations' = DOMAIN evaluations \cup ids /\ ids \cap DOMAIN evaluations = {}
      /\ \A id \in DOMAIN evaluations : /\ evaluations'[id] = evaluations[id]
                                        /\ timeline'[id] = timeline[id]
      /\ \A id \in ids : ~ Decided(timeline'[id]) /\ evaluations'[id].parent = NoParent
  BY DEF Births, RowsKept
<1>2a. ASSUME NEW id \in DOMAIN evaluations, evaluations[id].parent # NoParent
      PROVE  \E n \in DOMAIN timeline[evaluations[id].parent] :
               timeline[evaluations[id].parent][n] = DecisionEvent("Re-check requested", id)
  BY <1>2a DEF Tables, LineageInv, LineageIsExact
<1>2b. ASSUME NEW id \in DOMAIN evaluations, NEW n \in DOMAIN timeline[id],
              timeline[id][n].type = "decision", timeline[id][n].child # NoParent
       PROVE  LET child == timeline[id][n].child IN
              child \in DOMAIN evaluations /\ evaluations[child].parent = id
  BY <1>2b DEF Tables, LineageInv, LineageIsExact, Stored
<1>2c. \A id \in DOMAIN evaluations :
         evaluations[id].parent \in DOMAIN evaluations \cup {NoParent}
  BY DEF Tables, LineageInv
<1>3. ASSUME NEW id \in DOMAIN evaluations'
      PROVE  evaluations'[id].parent \in DOMAIN evaluations' \cup {NoParent}
  BY <1>1, <1>2c
<1>4. ASSUME NEW id \in DOMAIN evaluations', evaluations'[id].parent # NoParent
      PROVE  \E n \in DOMAIN timeline'[evaluations'[id].parent] :
               timeline'[evaluations'[id].parent][n] = DecisionEvent("Re-check requested", id)
  <2>1. id \in DOMAIN evaluations /\ evaluations[id].parent \in DOMAIN evaluations
    BY <1>1, <1>2c, <1>4
  <2>2. /\ evaluations'[id].parent = evaluations[id].parent
        /\ timeline'[evaluations[id].parent] = timeline[evaluations[id].parent]
    BY <1>1, <2>1
  <2> QED BY <1>2a, <1>4, <2>1, <2>2
<1>5. ASSUME NEW id \in DOMAIN evaluations', NEW n \in DOMAIN timeline'[id],
             timeline'[id][n].type = "decision", timeline'[id][n].child # NoParent
      PROVE  LET child == timeline'[id][n].child IN
             child \in DOMAIN evaluations' /\ evaluations'[child].parent = id
  <2>1. id \in DOMAIN evaluations
    BY <1>1, <1>5 DEF Decided
  <2>2. timeline'[id] = timeline[id]
    BY <1>1, <2>1
  <2>3. LET child == timeline[id][n].child IN
        child \in DOMAIN evaluations /\ evaluations[child].parent = id
    BY <1>2b, <1>5, <2>1, <2>2
  <2> QED BY <1>1, <2>2, <2>3
<1> QED BY <1>3, <1>4, <1>5 DEF LineageInv, LineageIsExact, Stored

LEMMA TablesBorn ==
    ASSUME Tables, [Next]_vars, NEW ids, Births(ids),
           \A c \in Calls : call'[c].pc \in {"commit", "building"} => call'[c] = call[c]
    PROVE  Tables'
<1>1. /\ DOMAIN evaluations' = DOMAIN evaluations \cup ids
      /\ \A id \in DOMAIN evaluations : /\ evaluations'[id] = evaluations[id]
                                        /\ timeline'[id] = timeline[id]
      /\ \A id \in ids : Legible(evaluations[id], timeline[id])'
  BY DEF Births, RowsKept
<1>2. Origins'
  BY OriginsStep DEF Tables
<1>3. TimelinesInv'
  <2>1. ASSUME NEW id \in DOMAIN evaluations PROVE Legible(evaluations[id], timeline[id])'
    BY <1>1, <2>1 DEF Tables, TimelinesInv
  <2> QED BY <1>1, <2>1 DEF TimelinesInv
<1>4. ASSUME NEW c \in Calls PROVE AwaitInv(c)'
  <2>1. SUFFICES ASSUME call'[c].pc \in {"commit", "building"} PROVE AwaitInv(c)'
    BY DEF AwaitInv
  <2>2. call'[c] = call[c]
    BY <2>1
  <2> QED BY <1>1, <2>2, AwaitKept DEF Tables, Stored
<1> QED BY <1>2, <1>3, <1>4, LineageBorn DEF Tables

\* A decision is the last row of its timeline.
LEMMA DecisionAppended ==
    ASSUME Tables, NEW c \in Calls, Decides(c)
    PROVE  LET t == call[c].target   l == timeline[t]   m == timeline'[t] IN
           /\ Legible(evaluations'[t], timeline'[t]) /\ Decided(m) /\ Verdict(m) = Verdict(l)
           /\ Len(l) \in Nat /\ DOMAIN l = 1..Len(l) /\ DOMAIN m = 1..(Len(l) + 1)
           /\ \A n \in 1..Len(l) : m[n] = l[n] /\ l[n].type # "decision"
           /\ m[Len(l) + 1] = DecisionOn(c)
<1> DEFINE t == call[c].target   l == timeline[t]   e == DecisionOn(c)
           m == Append(l, e)
<1>1. /\ Stored(t) /\ ~ Decided(l) /\ Contains(Verdict(l).allowed, call[c].decision)
      /\ timeline'[t] = m /\ evaluations'[t] = evaluations[t]
  <2>1. /\ Stored(t) /\ ~ Decided(l) /\ Contains(Verdict(l).allowed, call[c].decision)
        /\ timeline'[t] = m /\ RowsKept({t})
    BY DecisionEffect
  <2> QED BY <2>1 DEF RowsKept, Stored
<1>2. Typed(l) /\ Projects(evaluations[t], l) /\ OfType(l, "decision") = <<>>
  BY <1>1 DEF Tables, TimelinesInv, Legible, Stored
<1>3. PICK S : l \in Seq(S)
  BY <1>1 DEF Tables, TimelinesInv, Legible, Stored
<1>4. Typed(m) /\ Projects(evaluations[t], m) /\ Verdict(m) = Verdict(l)
  BY <1>1, <1>2, <1>3, DecidedProjects DEF DecisionOn
<1>5. e.type = "decision"
  BY DEF DecisionOn, DecisionEvent
<1> HIDE DEF e, l
<1>6. /\ Len(l) \in Nat /\ DOMAIN l = 1..Len(l) /\ DOMAIN m = 1..(Len(l) + 1)
      /\ \A n \in 1..Len(l) : m[n] = l[n]
      /\ m[Len(l) + 1] = e /\ m \in Seq(S \cup {e})
  <2>1. l \in Seq(S \cup {e}) /\ e \in S \cup {e}
    BY <1>3
  <2> QED BY <1>3, <2>1
<1> HIDE DEF m
<1>7. Decided(m)
  BY <1>5, <1>6 DEF Decided
<1>8. \A n \in 1..Len(l) : l[n].type # "decision"
  BY <1>1, <1>6 DEF Decided
<1>9. Legible(evaluations'[t], timeline'[t])
  <2>1. \E T : m \in Seq(T)
    BY <1>6
  <2> QED BY <1>1, <1>4, <1>7, <2>1 DEF Legible
<1> QED BY <1>1, <1>4, <1>6, <1>7, <1>8, <1>9 DEF l, e

LEMMA LineageDecided ==
    ASSUME Tables, NEW c \in Calls, Decides(c)
    PROVE  LineageInv'
<1> DEFINE t == call[c].target   l == timeline[t]   m == timeline'[t]   child == ChildId(c)
           e == DecisionOn(c)    last == Len(l) + 1
<1>1. /\ Stored(t) /\ t \in DOMAIN evaluations
      /\ \A id \in DOMAIN evaluations : /\ id \in DOMAIN evaluations'
                                        /\ evaluations'[id] = evaluations[id]
                                        /\ id # t => timeline'[id] = timeline[id]
      /\ IF call[c].decision = "Reject"
           THEN DOMAIN evaluations' = DOMAIN evaluations
           ELSE /\ ~ Stored(child) /\ DOMAIN evaluations' = DOMAIN evaluations \cup {child}
                /\ ~ Decided(timeline'[child]) /\ evaluations'[child].parent = t
  BY DecisionEffect DEF RowsKept, Stored
<1>2. /\ Len(l) \in Nat /\ DOMAIN l = 1..Len(l) /\ DOMAIN m = 1..last
      /\ \A n \in 1..Len(l) : m[n] = l[n] /\ l[n].type # "decision"
      /\ m[last] = e
  BY DecisionAppended
<1>3a. ASSUME NEW id \in DOMAIN evaluations, evaluations[id].parent # NoParent
      PROVE  \E n \in DOMAIN timeline[evaluations[id].parent] :
               timeline[evaluations[id].parent][n] = DecisionEvent("Re-check requested", id)
  BY <1>3a DEF Tables, LineageInv, LineageIsExact
<1>3b. ASSUME NEW id \in DOMAIN evaluations, NEW n \in DOMAIN timeline[id],
              timeline[id][n].type = "decision", timeline[id][n].child # NoParent
       PROVE  LET recheck == timeline[id][n].child IN
              recheck \in DOMAIN evaluations /\ evaluations[recheck].parent = id
  BY <1>3b DEF Tables, LineageInv, LineageIsExact, Stored
<1>3c. \A id \in DOMAIN evaluations :
         evaluations[id].parent \in DOMAIN evaluations \cup {NoParent}
  BY DEF Tables, LineageInv
<1>4. /\ e.child = IF call[c].decision = "Reject" THEN NoParent ELSE child
      /\ call[c].decision # "Reject" => e = DecisionEvent("Re-check requested", child)
  <2>1. call[c].decision \in {"Reject", "Re-check requested"}
    BY DEF Decides, Tables, Origins, Answers, Control, AskedInv, Decisions
  <2> QED BY <2>1 DEF DecisionOn, DecisionEvent, Child
<1> HIDE DEF t, l, m, child, e, last
<1>5. ASSUME NEW id \in DOMAIN evaluations'
      PROVE  evaluations'[id].parent \in DOMAIN evaluations' \cup {NoParent}
  BY <1>1, <1>3c
<1>6. ASSUME NEW id \in DOMAIN evaluations', evaluations'[id].parent # NoParent
      PROVE  \E n \in DOMAIN timeline'[evaluations'[id].parent] :
               timeline'[evaluations'[id].parent][n] = DecisionEvent("Re-check requested", id)
  <2>1. CASE id \in DOMAIN evaluations
    <3> DEFINE parent == evaluations[id].parent
    <3>1. parent \in DOMAIN evaluations /\ evaluations'[id].parent = parent /\ parent # NoParent
      BY <1>1, <1>3c, <1>6, <2>1
    <3>2. PICK n \in DOMAIN timeline[parent] :
            timeline[parent][n] = DecisionEvent("Re-check requested", id)
      BY <1>3a, <2>1, <3>1
    <3>3. n \in DOMAIN timeline'[parent] /\ timeline'[parent][n] = timeline[parent][n]
      <4> HIDE DEF parent
      <4>1. CASE parent = t
        <5>1. n \in DOMAIN l
          BY <4>1 DEF l
        <5>2. n \in 1..Len(l) /\ n \in 1..last
          BY <1>2, <5>1 DEF last
        <5>3. m[n] = l[n] /\ n \in DOMAIN m
          BY <1>2, <5>2
        <5> QED BY <4>1, <5>3 DEF l, m
      <4>2. CASE parent # t
        BY <1>1, <3>1, <3>2, <4>2
      <4> QED BY <4>1, <4>2
    <3> QED BY <3>1, <3>2, <3>3
  <2>2. CASE id \notin DOMAIN evaluations
    <3>1. id = child /\ call[c].decision # "Reject" /\ evaluations'[id].parent = t
      BY <1>1, <2>2
    <3>2. last \in 1..last
      BY <1>2 DEF last
    <3> QED BY <1>2, <1>4, <3>1, <3>2 DEF m
  <2> QED BY <2>1, <2>2
<1>7. ASSUME NEW id \in DOMAIN evaluations', NEW n \in DOMAIN timeline'[id],
             timeline'[id][n].type = "decision", timeline'[id][n].child # NoParent
      PROVE  LET kid == timeline'[id][n].child IN
             kid \in DOMAIN evaluations' /\ evaluations'[kid].parent = id
  <2>1. CASE id = t
    <3>1. n = last
      BY <1>2, <1>7, <2>1 DEF m, last
    <3>2. call[c].decision # "Reject" /\ timeline'[id][n].child = child
      BY <1>2, <1>4, <1>7, <2>1, <3>1 DEF m
    <3> QED BY <1>1, <2>1, <3>2
  <2>2. CASE id # t /\ id \in DOMAIN evaluations
    <3>1. timeline'[id] = timeline[id]
      BY <1>1, <2>2
    <3>2. LET kid == timeline[id][n].child IN
          kid \in DOMAIN evaluations /\ evaluations[kid].parent = id
      BY <1>3b, <1>7, <2>2, <3>1
    <3> QED BY <1>1, <3>1, <3>2
  <2>3. CASE id \notin DOMAIN evaluations
    <3>1. ~ Decided(timeline'[id])
      BY <1>1, <2>3
    <3> QED BY <1>7, <3>1 DEF Decided
  <2> QED BY <2>1, <2>2, <2>3
<1> QED BY <1>5, <1>6, <1>7 DEF LineageInv, LineageIsExact, Stored

LEMMA TablesDecided ==
    ASSUME Tables, [Next]_vars, NEW c \in Calls, Decides(c)
    PROVE  Tables'
<1> DEFINE t == call[c].target
<1>1. /\ Stored(t) /\ RowsKept({t})
      /\ IF call[c].decision = "Reject"
           THEN DOMAIN evaluations' = DOMAIN evaluations
           ELSE /\ DOMAIN evaluations' = DOMAIN evaluations \cup {ChildId(c)}
                /\ Legible(evaluations[ChildId(c)], timeline[ChildId(c)])'
  BY DecisionEffect
<1>2. /\ Legible(evaluations'[t], timeline'[t]) /\ Decided(timeline'[t])
      /\ Verdict(timeline'[t]) = Verdict(timeline[t])
  BY DecisionAppended
<1>3. Origins'
  BY OriginsStep DEF Tables
<1>4. TimelinesInv'
  <2>1. ASSUME NEW id \in DOMAIN evaluations, id # t
        PROVE  Legible(evaluations[id], timeline[id])'
    BY <1>1, <2>1 DEF Tables, TimelinesInv, RowsKept
  <2>2. ASSUME NEW id \in DOMAIN evaluations' PROVE Legible(evaluations[id], timeline[id])'
    <3>1. CASE id = t
      BY <1>2, <3>1
    <3>2. CASE id # t /\ id \in DOMAIN evaluations
      BY <2>1, <3>2
    <3>3. CASE id \notin DOMAIN evaluations
      BY <1>1, <2>2, <3>3
    <3> QED BY <3>1, <3>2, <3>3
  <2> QED BY <2>2 DEF TimelinesInv
<1>5. ASSUME NEW d \in Calls PROVE AwaitInv(d)'
  <2>1. SUFFICES ASSUME call'[d].pc \in {"commit", "building"} PROVE AwaitInv(d)'
    BY DEF AwaitInv
  <2>2. d # c /\ call'[d] = call[d]
    BY <2>1 DEF Decides, Records, Others
  <2>3. AwaitInv(d) /\ Stored(call[d].target)
    BY <2>1, <2>2 DEF Tables, AwaitInv
  <2>4. Stored(call[d].target)'
    BY <1>1, <2>2, <2>3 DEF RowsKept, Stored
  <2>5. CASE call[d].target = t
    BY <1>2, <2>1, <2>2, <2>3, <2>4, <2>5 DEF AwaitInv
  <2>6. CASE call[d].target # t
    BY <1>1, <2>2, <2>3, <2>4, <2>6, AwaitKept DEF RowsKept, Stored
  <2> QED BY <2>5, <2>6
<1> QED BY <1>3, <1>4, <1>5, LineageDecided DEF Tables

LEMMA TablesStep ==
    ASSUME Tables, [Next]_vars
    PROVE  Tables'
<1>1. Answers /\ Control
  BY DEF Tables, Origins, Answers
<1>2. CASE Quiet
  BY <1>2, TablesQuiet
<1>3. ASSUME NEW p \in Processes, Seeds(p) PROVE Tables'
  <2>1. Births(SeedIds(p)) /\ UNCHANGED call
    BY <1>1, <1>3, SeedsAreBirths DEF Seeds
  <2> QED BY <2>1, TablesBorn
<1>4. ASSUME NEW c \in Calls, Decides(c) PROVE Tables'
  BY <1>4, TablesDecided
<1>5. ASSUME NEW c \in Calls, NEW order, NEW world, Verifies(c, order, world) PROVE Tables'
  <2>1. Births({LiveId(c)})
    BY <1>1, <1>5, VerifiedIsBirth
  <2>2. \A d \in Calls : call'[d].pc \in {"commit", "building"} => call'[d] = call[d]
    BY <1>5 DEF Verifies, Records, Others
  <2> QED BY <2>1, <2>2, TablesBorn
<1> QED BY <1>1, <1>2, <1>3, <1>4, <1>5, Steps

LEMMA TablesHold == Spec => []Tables
BY TablesInit, TablesStep, PTL DEF Spec

\* Lineage: an evaluation has a parent exactly when that parent's one decision
\* asked for it (the batch of recordDecision, and the await of its child).
THEOREM LineageIsExactHolds == Spec => []LineageIsExact
<1>1. Tables => LineageIsExact
  BY DEF Tables, LineageInv
<1> QED BY TablesHold, <1>1, PTL

\* What the two validations let into the tables, projectEvaluation accepts:
\* whatever a model called and the providers said, every evaluation is readable.
THEOREM EveryEvaluationProjectsHolds == Spec => []EveryEvaluationProjects
<1>1. StorableProjects
  <2> SUFFICES ASSUME NEW scenario \in Scenarios, NEW attempted \in AgentCalls,
                      NEW world \in Worlds \cup {Fixture("ready"), Fixture("deployed-sha-mismatch")}
               PROVE  LET order  == Budgeted(attempted, ToSet(KindsOf(scenario)))
                          result == RunResult(scenario, order, world)
                      IN Returns(scenario, order) /\ ResultMatches(result, scenario) =>
                           Projects(EvaluationRecord(scenario, result.candidate, NoParent),
                                    EvaluationEvents(scenario, result, NoParent))
    BY Zenon DEF StorableProjects
  <2> QED BY ResultProjects, Zenon
<1>2. Tables => EveryEvaluationProjects
  BY <1>1 DEF Tables, TimelinesInv, Legible, EveryEvaluationProjects, Readable, Stored
<1> QED BY TablesHold, <1>2, PTL

-----------------------------------------------------------------------------
(* A retry is never answered with a failure.                               *)

Refused(c) == call[c].pc = "done" /\ call[c].reply.status \in {"failed", "resolved"}

\* A decision that was refused came after another one, which is not the same
\* request of the same process; nor is one of those while it is checked.
RetryInv(c) ==
    call[c].kind = "decide" =>
      /\ Refused(c) => Stored(call[c].target) /\ Decided(timeline[call[c].target])
      /\ call[c].pc = "check" \/ Refused(c) =>
           \A d \in Calls :
             Recorded(d) /\ call[d].kind = "decide" /\ call[d].at = call[c].at =>
               AnswerAt(c) # AnswerAt(d)

Retries == Tables /\ \A c \in Calls : RetryInv(c)

\* A commit that fails has met the decision of another call.
LEMMA FailsDecided ==
    ASSUME Tables, NEW c \in Calls, call[c].pc \in {"commit", "building"},
           ~ Insertable(ChildRecords(c), DecisionEvents(c))
    PROVE  Stored(call[c].target) /\ Decided(timeline[call[c].target])
<1> DEFINE t == call[c].target   l == timeline[t]   child == ChildId(c)
           events == DecisionEvents(c)   new == ChildRecords(c)   e == DecisionOn(c)
           next == call[c].next
<1>1. Stored(t) /\ next \in Nat /\ (Decided(l) \/ next = Len(l) + 1)
  BY DEF Tables, AwaitInv
<1>2. SUFFICES ASSUME ~ Decided(l) PROVE Insertable(new, events)
  BY <1>1
<1>3. /\ DOMAIN new = IF call[c].decision = "Reject" THEN {} ELSE {child}
      /\ DOMAIN events = {t} \cup DOMAIN new
  BY DecisionDomains
<1>4. child \notin DOMAIN evaluations
  <2>1. \A p \in Processes : child \notin SeedIds(p)
    BY NamesDiffer
  <2>2. \A d : child # LiveId(d) /\ (child = ChildId(d) => d = c)
    BY NamesDiffer
  <2>3. ~ Recorded(c)
    BY DEF Recorded
  <2> QED BY <2>1, <2>2, <2>3 DEF Tables, Origins, OriginInv
<1>5. DOMAIN events[t] = {next}
  <2>1. DOMAIN DecisionRows(c) = {t} /\ DecisionRows(c)[t] = From(next, <<e>>)
    BY DEF DecisionRows, Row, DecisionOn
  <2>2. events[t] = From(next, <<e>>)
    BY <2>1 DEF DecisionEvents, Added
  <2> HIDE DEF e, next, events
  <2> QED BY <1>1, <2>2, FromOne
<1>6. \A id \in DOMAIN new : new[id].parent = t
  <2>1. ASSUME call[c].decision # "Reject" PROVE new[child].parent = t
    BY <2>1 DEF ChildRecords, Row, EvaluationRecord
  <2> QED BY <1>3, <2>1
<1>7. DOMAIN l = 1..Len(l) /\ Len(l) \in Nat
  BY <1>1 DEF Tables, TimelinesInv, Legible, Stored
<1>8. DOMAIN timeline = DOMAIN evaluations
  BY DEF Tables, Origins, Answers, Control, Shape
<1> HIDE DEF t, l, child, events, new, next
<1>9. DOMAIN events[t] \cap DOMAIN l = {} /\ ~ \E n \in DOMAIN l : l[n].type = "decision"
  BY <1>1, <1>2, <1>5, <1>7 DEF Decided
<1>10. DOMAIN events \cap DOMAIN timeline = {t} /\ DOMAIN new \cap DOMAIN evaluations = {}
  BY <1>1, <1>3, <1>4, <1>8 DEF Stored
<1> QED BY <1>1, <1>3, <1>6, <1>9, <1>10 DEF Insertable, Stored, l

\* How a decision comes to be checked, and to be refused.
LEMMA RefusalSteps ==
    ASSUME Tables, [Next]_vars, NEW c \in Calls, call'[c].kind = "decide",
           call'[c].pc = "check" \/ Refused(c)', call'[c] # call[c]
    PROVE  /\ UNCHANGED ledgerVars
           /\ \/ call'[c].pc = "check" /\ AnswerAt(c)' \notin DOMAIN idempotency
              \/ /\ Refused(c)' /\ SameAsk(c)
                 /\ Stored(call[c].target) /\ Decided(timeline[call[c].target])
                 /\ call[c].pc = "check" \/ AnswerAt(c) \notin DOMAIN idempotency
<1> DEFINE Goal == /\ UNCHANGED ledgerVars
                   /\ \/ call'[c].pc = "check" /\ AnswerAt(c)' \notin DOMAIN idempotency
                      \/ /\ Refused(c)' /\ SameAsk(c)
                         /\ Stored(call[c].target) /\ Decided(timeline[call[c].target])
                         /\ call[c].pc = "check" \/ AnswerAt(c) \notin DOMAIN idempotency
<1> HIDE DEF Goal
<1>0. Control /\ Shape
  BY DEF Tables, Origins, Answers, Control
<1>1. \A d \in Calls : Others(d) => d = c
  BY DEF Others
<1>2. ASSUME NEW p \in Processes, CheckInbox(p) \/ Seed(p) PROVE Goal
  BY <1>2 DEF CheckInbox, Seed
<1>3. ASSUME NEW p \in Processes, Crash(p) PROVE Goal
  <2>1. call'[c].pc = "lost"
    BY <1>0, <1>3, ProcessCrashes
  <2> QED BY <2>1 DEF Refused
<1>4. ASSUME CheckDecision(c) PROVE Goal
  <2> DEFINE refusal == Refusal(call[c].target, call[c].decision)
             t == call[c].target
  <2>1. /\ SameAsk(c) /\ call[c].pc = "check" /\ UNCHANGED ledgerVars
        /\ refusal # "none" =>
             call'[c].pc = "done" /\ call'[c].reply = Reply(refusal, NoRecord)
        /\ refusal = "none" => call'[c].pc \in {"commit", "building"}
    BY <1>0, <1>4, DecisionIsChecked
  <2>2. refusal \in {"failed", "resolved"} /\ Refused(c)'
    BY <2>1, Replies DEF Refused
  <2>3. Stored(t) <=> Readable(t)
    BY DEF Tables, TimelinesInv, Legible, Readable, Stored
  <2>4. Stored(t) /\ Decided(timeline[t])
    BY <2>2, <2>3 DEF Refusal
  <2> QED BY <2>1, <2>2, <2>4 DEF Goal
<1>5. ASSUME CommitDecision(c) PROVE Goal
  <2> DEFINE result == CommitResult(ChildRecords(c), DecisionEvents(c), DecisionRecord(c))
             at == AnswerAt(c)
  <2>1. /\ SameAsk(c) /\ call[c].pc \in {"commit", "building"}
        /\ Commit(ChildRecords(c), DecisionEvents(c), DecisionRecord(c))
        /\ call'[c].pc = "done"
        /\ call'[c].reply = CommitReply(result, DecisionResponse(c), at)
    BY <1>0, <1>5, DecisionCommits
  <2>2. DecisionRecord(c).at = at /\ DecisionRecord(c) # NoRecord
    BY DEF DecisionRecord, NoRecord
  <2> HIDE DEF at
  <2>3. /\ result # "committed" => UNCHANGED ledgerVars
        /\ result = "failed" => /\ ~ Insertable(ChildRecords(c), DecisionEvents(c))
                                /\ at \notin DOMAIN idempotency
        /\ result \in {"committed", "replayed", "conflict", "failed"}
    BY <1>0, <2>1, <2>2, CommitEffect DEF Shape
  <2> HIDE DEF result
  <2>4. call'[c].reply.status = IF result = "committed" THEN "recorded" ELSE result
    BY <2>1, <2>3, CommitReplies, Replies
  <2>5. result = "failed" /\ Refused(c)'
    BY <2>1, <2>3, <2>4 DEF Refused
  <2>6. Stored(call[c].target) /\ Decided(timeline[call[c].target])
    BY <2>1, <2>3, <2>5, FailsDecided
  <2> QED BY <2>1, <2>3, <2>5, <2>6 DEF Goal, at
<1>6. ASSUME NEW d \in Calls, CallStep(d) PROVE Goal
  <2>1. CASE CheckDecision(d)
    BY <1>0, <1>1, <1>4, <2>1, DecisionIsChecked
  <2>2. CASE CommitDecision(d)
    BY <1>0, <1>1, <1>5, <2>2, DecisionCommits
  <2>3. CASE VerificationReturns(d)
    <3>1. d = c /\ SameAsk(c) /\ call[c].pc = "verifying"
      BY <1>0, <1>1, <2>3, VerificationIsBack
    <3> QED BY <1>0, <3>1 DEF SameAsk, Control, AskedInv
  <2>4. CASE JoinReturns(d)
    <3>1. d = c /\ SameAsk(c) /\ call[c].pc = "joined"
      BY <1>0, <1>1, <2>4, JoinedIsBack
    <3> QED BY <1>0, <3>1 DEF SameAsk, Control, AskedInv
  <2> QED BY <1>6, <2>1, <2>2, <2>3, <2>4 DEF CallStep
<1>7. ASSUME NEW d \in Calls, NEW p \in Processes, Arrive(d, p) PROVE Goal
  <2>1. ASSUME NEW id, NEW decision, NEW key, ArriveDecision(d, p, id, decision, key)
        PROVE  Goal
    <3> DEFINE at == <<<<"decide", id>>, key>>
               found == Lookup(at, decision)
    <3>1. /\ Others(d) /\ AsksFor(d, p, "decide", id, decision, key)
          /\ UNCHANGED ledgerVars
          /\ found = "found" => /\ call'[d].pc = "done"
                                /\ call'[d].reply = Reply("replayed", idempotency[at].response)
          /\ found \notin {"absent", "found"} => /\ call'[d].pc = "done"
                                                 /\ call'[d].reply = Reply("conflict", NoRecord)
          /\ found = "absent" => call'[d].pc = "check"
      BY <1>0, <2>1, DecisionArrives
    <3>2. d = c /\ AnswerAt(d)' = at
      BY <1>1, <3>1 DEF AsksFor, AnswerAt
    <3>3. found = "absent"
      BY <3>1, <3>2, Replies DEF Refused
    <3>4. at \notin DOMAIN idempotency
      BY <3>3 DEF Lookup
    <3> QED BY <3>1, <3>2, <3>3, <3>4 DEF Goal
  <2>2. ASSUME NEW key, ArriveVerification(d, p, key) PROVE Goal
    <3>1. Others(d) /\ AsksFor(d, p, "verify", NoParent, "none", key)
      BY <1>0, <2>2, VerificationArrives
    <3> QED BY <1>1, <3>1 DEF AsksFor
  <2> QED BY <1>7, <2>1, <2>2 DEF Arrive
<1>8. ASSUME UNCHANGED vars \/ Quiescent PROVE Goal
  BY <1>8 DEF vars, serviceVars, Quiescent
<1>9. Goal
  BY <1>2, <1>3, <1>6, <1>7, <1>8 DEF Next
<1> QED BY <1>9 DEF Goal

\* A timeline that is decided stays so.
LEMMA DecidedStays ==
    ASSUME Tables, [Next]_vars, NEW id, Stored(id), Decided(timeline[id])
    PROVE  Stored(id)' /\ Decided(timeline'[id])
<1>0. Answers /\ Control
  BY DEF Tables, Origins, Answers
<1>1. CASE Quiet
  BY <1>1 DEF Quiet, ledgerVars, Stored
<1>2. ASSUME NEW ids, Births(ids) PROVE Stored(id)' /\ Decided(timeline'[id])
  BY <1>2 DEF Births, RowsKept, Stored
<1>3. ASSUME NEW p \in Processes, Seeds(p) PROVE \E ids : Births(ids)
  BY <1>0, <1>3, SeedsAreBirths
<1>4. ASSUME NEW c \in Calls, NEW order, NEW world, Verifies(c, order, world)
      PROVE  \E ids : Births(ids)
  BY <1>0, <1>4, VerifiedIsBirth
<1>5. ASSUME NEW c \in Calls, Decides(c) PROVE Stored(id)' /\ Decided(timeline'[id])
  <2>1. RowsKept({call[c].target}) /\ ~ Decided(timeline[call[c].target])
    BY <1>5, DecisionEffect
  <2> QED BY <2>1 DEF RowsKept, Stored
<1> QED BY <1>0, <1>1, <1>2, <1>3, <1>4, <1>5, Steps

\* A decision is only ever recorded by its commit.
LEMMA RecordedBy ==
    ASSUME Tables, [Next]_vars, NEW d \in Calls, Recorded(d)', call'[d].kind = "decide",
           call'[d] # call[d]
    PROVE  Decides(d)
<1>0. Answers /\ Control
  BY DEF Tables, Origins, Answers
<1>1. CASE Quiet
  BY <1>1 DEF Quiet, Silent, Repeats, Recorded, Succeeded
<1>2. ASSUME NEW p \in Processes, Seeds(p) PROVE FALSE
  BY <1>2 DEF Seeds
<1>3. ASSUME NEW c \in Calls, Decides(c) PROVE Decides(d)
  BY <1>3 DEF Decides, Records, Others
<1>4. ASSUME NEW c \in Calls, NEW order, NEW world, Verifies(c, order, world) PROVE FALSE
  <2>1. c = d /\ SameAsk(c) /\ call[c].pc = "verifying"
    BY <1>4 DEF Verifies, Records, Others
  <2> QED BY <1>0, <2>1 DEF Control, AskedInv, SameAsk
<1> QED BY <1>0, <1>1, <1>2, <1>3, <1>4, Steps

\* A decision is committed by a process that is not checking another one.
LEMMA DecidesInTurn ==
    ASSUME Tables, [Next]_vars, NEW d \in Calls, Decides(d),
           NEW c \in Calls, call[c].pc = "check"
    PROVE  call[c].at # call[d].at
<1>1. Shape /\ Control
  BY DEF Tables, Origins, Answers, Control
<1>2. call[d].pc \in {"commit", "building"} /\ call'[d].pc = "done"
      /\ call'[d].reply.status = "recorded" /\ call'[d].kind = "decide"
  BY <1>1, Replies DEF Decides, Records, SameAsk, Control, AskedInv
<1>3. \/ call[d].pc = "commit" /\ turn[call[d].at] = d
      \/ call[d].pc = "building" /\ turn[call[d].at] = NoCall
  <2>1. \A e \in Calls : Others(e) => e = d
    BY <1>2 DEF Others
  <2>2. ASSUME NEW p \in Processes, CheckInbox(p) \/ Seed(p) \/ Crash(p)
        PROVE  CommitDecision(d)
    <3>1. CASE CheckInbox(p) \/ Seed(p)
      BY <1>2, <3>1 DEF CheckInbox, Seed
    <3>2. CASE Crash(p)
      BY <1>1, <1>2, <3>2, ProcessCrashes
    <3> QED BY <2>2, <3>1, <3>2
  <2>3. ASSUME NEW e \in Calls, CallStep(e) PROVE CommitDecision(d)
    <3>1. CASE CheckDecision(e)
      BY <1>1, <1>2, <2>1, <3>1, DecisionIsChecked
    <3>2. CASE CommitDecision(e)
      BY <1>1, <2>1, <3>2, DecisionCommits
    <3>3. CASE VerificationReturns(e)
      BY <1>1, <1>2, <2>1, <3>3, VerificationIsBack
    <3>4. CASE JoinReturns(e)
      BY <1>1, <1>2, <2>1, <3>4, JoinedIsBack
    <3> QED BY <2>3, <3>1, <3>2, <3>3, <3>4 DEF CallStep
  <2>4. ASSUME NEW e \in Calls, NEW p \in Processes, Arrive(e, p) PROVE CommitDecision(d)
    <3>1. ASSUME NEW id, NEW decision, NEW key, ArriveDecision(e, p, id, decision, key)
          PROVE  FALSE
      BY <1>1, <1>2, <2>1, <3>1, DecisionArrives
    <3>2. ASSUME NEW key, ArriveVerification(e, p, key) PROVE FALSE
      BY <1>1, <1>2, <2>1, <3>2, VerificationArrives
    <3> QED BY <2>4, <3>1, <3>2 DEF Arrive
  <2>5. ASSUME UNCHANGED vars \/ Quiescent PROVE CommitDecision(d)
    BY <1>2, <2>5 DEF vars, serviceVars, Quiescent
  <2>6. CommitDecision(d)
    BY <2>2, <2>3, <2>4, <2>5 DEF Next
  <2> QED BY <1>1, <2>6, DecisionCommits DEF Free
<1>4. turn[call[c].at] = c
  BY <1>1 DEF Control, TurnInv
<1> QED BY <1>2, <1>3, <1>4, EvaluationAssumption

LEMMA RetriesInit == Init => Retries
<1> SUFFICES ASSUME Init PROVE Retries
  OBVIOUS
<1>1. \A c \in Calls : call[c].kind = "none"
  BY DEF Init, Unsent
<1> QED BY <1>1, TablesInit DEF Retries, RetryInv

LEMMA RetriesStep ==
    ASSUME Retries, [Next]_vars
    PROVE  Retries'
<1>0. Tables /\ Tables'
  BY TablesStep DEF Retries
<1>1. \A d \in Calls : Recorded(d) => AnswerAt(d) \in DOMAIN idempotency
  BY <1>0 DEF Tables, Origins, Answers, SuccessInv, Recorded, Succeeded
<1>2. ASSUME NEW c \in Calls, call'[c].kind = "decide", Refused(c)'
      PROVE  Stored(call[c].target)' /\ Decided(timeline[call[c].target])'
  <2>1. Stored(call[c].target) /\ Decided(timeline[call[c].target])
        /\ call'[c].target = call[c].target
    <3>1. CASE call'[c] = call[c]
      BY <1>2, <3>1 DEF Retries, RetryInv, Refused
    <3>2. CASE call'[c] # call[c]
      BY <1>0, <1>2, <3>2, RefusalSteps DEF Refused, SameAsk
    <3> QED BY <3>1, <3>2
  <2> QED BY <1>0, <2>1, DecidedStays DEF Stored
<1>3. ASSUME NEW c \in Calls, call'[c].kind = "decide", call'[c].pc = "check" \/ Refused(c)',
             NEW d \in Calls, Recorded(d)', call'[d].kind = "decide", call'[d].at = call'[c].at
      PROVE  AnswerAt(c)' # AnswerAt(d)'
  <2>1. CASE call'[d] # call[d]
    <3>1. Decides(d)
      BY <1>0, <1>3, <2>1, RecordedBy
    <3>2. /\ Others(d) /\ SameAsk(d) /\ AnswerAt(d)' = AnswerAt(d)
      BY <3>1, SameAnswerAt DEF Decides, Records
    <3>3. c # d
      BY <1>3 DEF Refused, Recorded
    <3>4. call'[c] = call[c] /\ AnswerAt(c)' = AnswerAt(c)
      BY <3>2, <3>3, SameCall DEF Others
    <3>5. call[c].pc # "check"
      BY <1>0, <1>3, <3>1, <3>2, <3>4, DecidesInTurn DEF SameAsk
    <3>6. Decided(timeline[call[c].target])
      BY <1>3, <3>4, <3>5 DEF Retries, RetryInv, Refused
    <3>7. ~ Decided(timeline[call[d].target])
      BY <1>0, <3>1, DecisionEffect
    <3>8. call[c].target # call[d].target
      BY <3>6, <3>7
    <3>9. AnswerAt(c) # AnswerAt(d)
      BY <3>8 DEF AnswerAt
    <3> QED BY <3>2, <3>4, <3>9
  <2>2. CASE call'[d] = call[d]
    <3>1. Recorded(d) /\ AnswerAt(d)' = AnswerAt(d) /\ AnswerAt(d) \in DOMAIN idempotency
      BY <1>1, <1>3, <2>2, SameCall
    <3>2. CASE call'[c] = call[c]
      <4>1. AnswerAt(c)' = AnswerAt(c)
        BY <3>2, SameCall
      <4>2. AnswerAt(c) # AnswerAt(d)
        BY <1>3, <2>2, <3>1, <3>2 DEF Retries, RetryInv, Refused
      <4> QED BY <3>1, <4>1, <4>2
    <3>3. CASE call'[c] # call[c]
      <4>1. \/ AnswerAt(c)' \notin DOMAIN idempotency
            \/ SameAsk(c) /\ call[c].pc = "check"
            \/ SameAsk(c) /\ AnswerAt(c) \notin DOMAIN idempotency
        BY <1>0, <1>3, <3>3, RefusalSteps
      <4>2. SameAsk(c) => AnswerAt(c)' = AnswerAt(c)
        BY SameAnswerAt
      <4>3. ASSUME SameAsk(c), call[c].pc = "check" PROVE AnswerAt(c) # AnswerAt(d)
        BY <1>3, <2>2, <3>1, <4>3 DEF Retries, RetryInv, SameAsk
      <4> QED BY <3>1, <4>1, <4>2, <4>3
    <3> QED BY <3>2, <3>3
  <2> QED BY <2>1, <2>2
<1> QED BY <1>0, <1>2, <1>3 DEF Retries, RetryInv

LEMMA RetriesHold == Spec => []Retries
BY RetriesInit, RetriesStep, PTL DEF Spec

\* In a process that recorded a decision, an identical retry is always a replay:
\* what is answered with a failure or another's precedence (findIdempotency
\* before the checks of recordDecision) was never recorded for its key and request.
THEOREM RetryIsNotAFailureHolds == Spec => []RetryIsNotAFailure
<1>1. Retries => RetryIsNotAFailure
  BY DEF Retries, RetryInv, Refused, Recorded, Succeeded, RetryIsNotAFailure
<1> QED BY RetriesHold, <1>1, PTL


-----------------------------------------------------------------------------
(* The refinement of the register.                                         *)

LEMMA RegisterInit == Init => Register!Init
<1> SUFFICES ASSUME Init PROVE Register!Init
  OBVIOUS
<1>1. DOMAIN evaluations = {} /\ DOMAIN timeline = {} /\ DOMAIN idempotency = {}
  BY DEF Init, LedgerInit
<1>2. DecidedIds = {}
  BY <1>1 DEF DecidedIds
<1>3. \A f : f = [x \in {} |-> f[x]] => f = <<>>
  OBVIOUS
<1>4. Parents = <<>> /\ Taken = <<>> /\ Responses = <<>>
  BY <1>1, <1>2, <1>3 DEF Parents, Taken, Responses
<1> QED BY <1>4 DEF Register!Init

\* Where an answer is recorded, the register's answers gain it.
LEMMA ResponsesGrow ==
    ASSUME NEW record, AnswerKept(record)
    PROVE  /\ record.at \in DOMAIN Responses' \ DOMAIN Responses
           /\ Responses'[record.at] = record.response
           /\ Responses' = Register!With(Responses, record.at, record.response)
<1>1. /\ DOMAIN Responses = DOMAIN idempotency /\ DOMAIN Responses' = DOMAIN idempotency'
      /\ \A at \in DOMAIN idempotency : Responses[at] = idempotency[at].response
      /\ \A at \in DOMAIN idempotency' : Responses'[at] = idempotency'[at].response
  BY DEF Responses
<1>2. /\ record.at \notin DOMAIN idempotency
      /\ DOMAIN idempotency' = DOMAIN idempotency \cup {record.at}
      /\ idempotency'[record.at].response = record.response
      /\ \A at \in DOMAIN idempotency : idempotency'[at] = idempotency[at]
  BY DEF AnswerKept
<1>3. Responses' = [at \in DOMAIN idempotency' |-> Responses'[at]]
  BY <1>1 DEF Responses
<1> QED BY <1>1, <1>2, <1>3 DEF Register!With

\* What nobody decided about is born without a parent.
LEMMA BornInRegister ==
    ASSUME Control, Control', NEW ids, Births(ids)
    PROVE  /\ Taken' = Taken
           /\ ids \subseteq DOMAIN Parents' \ DOMAIN Parents
           /\ Parents' = [id \in DOMAIN Parents \cup ids |->
                            IF id \in ids THEN NoParent ELSE Parents[id]]
<1>1. /\ DOMAIN timeline = DOMAIN evaluations /\ DOMAIN timeline' = DOMAIN evaluations'
      /\ DOMAIN evaluations' = DOMAIN evaluations \cup ids /\ ids \cap DOMAIN evaluations = {}
      /\ \A id \in DOMAIN evaluations : /\ evaluations'[id] = evaluations[id]
                                        /\ timeline'[id] = timeline[id]
      /\ \A id \in ids : ~ Decided(timeline'[id]) /\ evaluations'[id].parent = NoParent
  BY DEF Control, Shape, Births, RowsKept
<1>2. DecidedIds' = DecidedIds /\ DecidedIds \subseteq DOMAIN evaluations
  BY <1>1 DEF DecidedIds
<1>3. \A id \in DecidedIds : DecisionOf(id)' = DecisionOf(id)
  BY <1>1, <1>2 DEF DecisionOf
<1>4. Taken' = Taken
  BY <1>2, <1>3 DEF Taken
<1>5. Parents' = [id \in DOMAIN Parents \cup ids |->
                    IF id \in ids THEN NoParent ELSE Parents[id]]
  BY <1>1 DEF Parents
<1>6. ids \subseteq DOMAIN Parents' \ DOMAIN Parents
  BY <1>1 DEF Parents
<1> QED BY <1>4, <1>5, <1>6

\* The decision of a timeline is the one that was appended.
LEMMA DecisionTaken ==
    ASSUME Tables, Tables', NEW c \in Calls, Decides(c)
    PROVE  /\ call[c].target \in DOMAIN Parents \ DOMAIN Taken
           /\ Taken' = Register!With(Taken, call[c].target,
                                     [decision |-> call[c].decision, child |-> Child(c)])
<1>0. PICK t : t = call[c].target
  OBVIOUS
<1> DEFINE l == timeline[t]   m == timeline'[t]
<1>1. /\ Stored(t) /\ ~ Decided(l) /\ RowsKept({t})
      /\ IF call[c].decision = "Reject"
           THEN DOMAIN evaluations' = DOMAIN evaluations
           ELSE /\ DOMAIN evaluations' = DOMAIN evaluations \cup {ChildId(c)}
                /\ ~ Decided(timeline'[ChildId(c)])
  BY <1>0, DecisionEffect
<1>2. /\ Decided(m) /\ Len(l) \in Nat /\ DOMAIN m = 1..(Len(l) + 1)
      /\ \A n \in 1..Len(l) : m[n] = l[n] /\ l[n].type # "decision"
      /\ m[Len(l) + 1] = DecisionOn(c)
  BY <1>0, DecisionAppended
<1>3. /\ DOMAIN timeline = DOMAIN evaluations /\ DOMAIN timeline' = DOMAIN evaluations'
  BY DEF Tables, Origins, Answers, Control, Shape
<1>4. DecisionOf(t)' = DecisionOn(c)
  <2>1. DecisionOn(c).type = "decision"
    BY DEF DecisionOn, DecisionEvent
  <2> HIDE DEF m, l
  <2>2. \A n \in DOMAIN m : m[n].type = "decision" <=> n = Len(l) + 1
    BY <1>2, <2>1
  <2>3. Len(l) + 1 \in DOMAIN m
    BY <1>2
  <2>4. (CHOOSE n \in DOMAIN m : m[n].type = "decision") = Len(l) + 1
    BY <2>2, <2>3
  <2>5. DecisionOf(t)' = m[CHOOSE n \in DOMAIN m : m[n].type = "decision"]
    BY DEF DecisionOf, m
  <2> QED BY <1>2, <2>4, <2>5
<1>5. t \notin DecidedIds /\ t \in DOMAIN evaluations
  BY <1>1 DEF DecidedIds, Stored
<1>6. DecidedIds' = DecidedIds \cup {t}
  BY <1>1, <1>2, <1>3, <1>5 DEF DecidedIds, RowsKept
<1>7. \A id \in DecidedIds : DecisionOf(id)' = DecisionOf(id)
  <2>1. \A id \in DecidedIds : timeline'[id] = timeline[id]
    BY <1>1, <1>3, <1>5 DEF DecidedIds, RowsKept
  <2> QED BY <2>1 DEF DecisionOf
<1>8. DecisionOn(c).decision = call[c].decision /\ DecisionOn(c).child = Child(c)
  BY DEF DecisionOn, DecisionEvent
<1>9. Taken' = Register!With(Taken, t, [decision |-> call[c].decision, child |-> Child(c)])
  <2>1. DOMAIN Taken = DecidedIds
    BY DEF Taken
  <2>2. \A id \in DecidedIds :
          Taken[id] = [decision |-> DecisionOf(id).decision, child |-> DecisionOf(id).child]
    BY DEF Taken
  <2>3. Taken' = [id \in DecidedIds' |-> [decision |-> DecisionOf(id)'.decision,
                                          child    |-> DecisionOf(id)'.child]]
    BY DEF Taken
  <2> DEFINE taken == [decision |-> call[c].decision, child |-> Child(c)]
             made(id) == [decision |-> DecisionOf(id)'.decision, child |-> DecisionOf(id)'.child]
  <2>4. made(t) = taken
    BY <1>4, <1>8
  <2>5. \A id \in DecidedIds : made(id) = Taken[id]
    BY <1>7, <2>2
  <2>6. Taken' = [id \in DecidedIds \cup {t} |-> made(id)]
    BY <1>6, <2>3
  <2> HIDE DEF taken, made
  <2>7. Taken' = [id \in DecidedIds \cup {t} |-> IF id = t THEN taken ELSE Taken[id]]
    BY <1>5, <2>4, <2>5, <2>6
  <2> QED BY <2>1, <2>7 DEF Register!With, taken
<1>10. t \in DOMAIN Parents \ DOMAIN Taken
  BY <1>5 DEF Parents, Taken
<1> QED BY <1>0, <1>9, <1>10

LEMMA DecidesInRegister ==
    ASSUME Tables, Tables', NEW c \in Calls, Decides(c)
    PROVE  Register!DecidedOnce
<1> DEFINE t == call[c].target   at == AnswerAt(c)   response == DecisionResponse(c)
<1>1. /\ t \in DOMAIN Parents \ DOMAIN Taken
      /\ Taken' = Register!With(Taken, t, [decision |-> call[c].decision, child |-> Child(c)])
  BY DecisionTaken
<1>2. AnswerKept(DecisionRecord(c)) /\ DecisionRecord(c).at = at
      /\ DecisionRecord(c).response = response
  <2>1. DecisionRecord(c) # NoRecord
    BY DecisionIsRecorded
  <2> QED BY <2>1 DEF Decides, Committed, DecisionRecord
<1>3. /\ at \in DOMAIN Responses' \ DOMAIN Responses /\ Responses'[at] = response
      /\ Responses' = Register!With(Responses, at, response)
  BY <1>2, ResponsesGrow
<1>4. /\ response.evaluation = t /\ response.decision = call[c].decision
      /\ response.child = Child(c)
  BY DEF DecisionResponse
<1>5. IF call[c].decision = "Re-check requested"
        THEN Child(c) \notin DOMAIN Parents /\ Parents' = Register!With(Parents, Child(c), t)
        ELSE Child(c) = NoParent /\ UNCHANGED Parents
  <2>1. call[c].decision \in {"Reject", "Re-check requested"}
    BY DEF Tables, Origins, Answers, Control, AskedInv, Decides, Decisions
  <2>2. /\ RowsKept({t})
        /\ IF call[c].decision = "Reject"
             THEN DOMAIN evaluations' = DOMAIN evaluations
             ELSE /\ ~ Stored(ChildId(c))
                  /\ DOMAIN evaluations' = DOMAIN evaluations \cup {ChildId(c)}
                  /\ evaluations'[ChildId(c)].parent = t
    BY DecisionEffect
  <2> HIDE DEF t
  <2>3. \A id \in DOMAIN evaluations : evaluations'[id] = evaluations[id]
    BY <2>2 DEF RowsKept
  <2>4. CASE call[c].decision = "Reject"
    BY <2>2, <2>3, <2>4 DEF Child, Parents
  <2>5. CASE call[c].decision = "Re-check requested"
    BY <2>2, <2>3, <2>5 DEF Child, Parents, Stored, Register!With
  <2> QED BY <2>1, <2>4, <2>5
<1> HIDE DEF t, at, response
<1> QED BY <1>1, <1>3, <1>4, <1>5 DEF Register!DecidedOnce

LEMMA RegisterNext ==
    ASSUME Tables, Tables', [Next]_vars
    PROVE  [Register!Next]_Register!vars
<1>1. Answers /\ Control /\ Control'
  BY DEF Tables, Origins, Answers
<1>2. CASE Quiet
  BY <1>2 DEF Quiet, ledgerVars, Parents, Taken, Responses, DecidedIds, DecisionOf, Register!vars
<1>3. ASSUME NEW p \in Processes, Seeds(p) PROVE Register!BornTogether
  <2>1. Births(SeedIds(p)) /\ UNCHANGED idempotency
    BY <1>1, <1>3, SeedsAreBirths
  <2>2. UNCHANGED <<Taken, Responses>>
    BY <1>1, <2>1, BornInRegister DEF Responses
  <2>3. SeedIds(p) # {}
    BY DEF SeedIds
  <2>4. /\ SeedIds(p) \subseteq DOMAIN Parents' \ DOMAIN Parents
        /\ Parents' = [id \in DOMAIN Parents \cup SeedIds(p) |->
                         IF id \in SeedIds(p) THEN NoParent ELSE Parents[id]]
    BY <1>1, <2>1, BornInRegister
  <2>5. SeedIds(p) \in SUBSET (DOMAIN Parents' \ DOMAIN Parents)
    BY <2>4
  <2> QED BY <2>2, <2>3, <2>4, <2>5, Zenon DEF Register!BornTogether
<1>4. ASSUME NEW c \in Calls, Decides(c) PROVE Register!DecidedOnce
  BY <1>4, DecidesInRegister
<1>5. ASSUME NEW c \in Calls, NEW order, NEW world, Verifies(c, order, world)
      PROVE  Register!Verified
  <2> DEFINE id == LiveId(c)   at == AnswerAt(c)
  <2>1. Births({id})
    BY <1>1, <1>5, VerifiedIsBirth
  <2>2. /\ UNCHANGED Taken /\ id \in DOMAIN Parents' \ DOMAIN Parents
        /\ Parents' = [i \in DOMAIN Parents \cup {id} |->
                         IF i \in {id} THEN NoParent ELSE Parents[i]]
    BY <1>1, <2>1, BornInRegister
  <2>3. /\ AnswerKept(VerifiedAnswer(c)) /\ VerifiedAnswer(c).at = at
        /\ VerifiedAnswer(c).response = [evaluation |-> id]
    BY <1>1, <1>5, VerificationIsRecorded DEF Committed
  <2>4. /\ at \in DOMAIN Responses' \ DOMAIN Responses
        /\ Responses' = Register!With(Responses, at, [evaluation |-> id])
    BY <2>3, ResponsesGrow
  <2> HIDE DEF id, at
  <2>5. Parents' = Register!With(Parents, id, NoParent)
    BY <2>2 DEF Register!With
  <2> QED BY <2>2, <2>4, <2>5 DEF Register!Verified
<1> QED BY <1>1, <1>2, <1>3, <1>4, <1>5, Steps DEF Register!Next

\* The tables move as the register does: through all awaits, races, joins and
\* crashes, an evaluation is born once, takes at most one decision, in the same
\* step as its child's birth, and a key that was answered keeps its answer (the
\* transaction of commit, for recordDecision and startLiveReleaseVerification).
THEOREM RegisterIsImplemented == Spec => ImplementsRegister
<1>1. Tables /\ Tables' /\ [Next]_vars => [Register!Next]_Register!vars
  BY RegisterNext
<1> QED BY <1>1, RegisterInit, TablesHold, PTL DEF Spec, ImplementsRegister, Register!Spec

=============================================================================
