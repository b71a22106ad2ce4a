----------------------------- MODULE MCProgramme -----------------------------
(***************************************************************************)
(* What two stations send: labels in one, two and three segments, repeated  *)
(* and not, with slides between them, one of which replaces another under    *)
(* its transport id; and labels with tags.                                  *)
(***************************************************************************)
EXTENDS Programme

MCHeader       == [dac |-> 0, sbr |-> 1, starts |-> <<6>>]
MCFalseHeaders == {[dac |-> 1, sbr |-> 1, starts |-> <<4, 7>>],
                   [dac |-> 1, sbr |-> 1, starts |-> <<7, 5>>]}

Group(label, seg, num, cells) ==
  [label |-> label, seg |-> seg, num |-> num, cells |-> cells, short |-> FALSE]

MCLabelGroups ==
  [A1 |-> Group("A", "first", 0, 2),
   A2 |-> Group("A", "intermediate", 1, 2),
   A3 |-> Group("A", "last", 2, 2),
   B1 |-> Group("B", "first", 0, 2),
   B2 |-> Group("B", "last", 1, 2),
   C1 |-> Group("C", "only", 0, 2),
   X  |-> Group("none", "clear", 0, 1),
   D1 |-> [Group("D", "only", 0, 2) EXCEPT !.short = TRUE],
   Dt |-> [Group("D", "plus", 0, 2) EXCEPT !.short = TRUE],
   E1 |-> [Group("E", "first", 0, 2) EXCEPT !.short = TRUE],
   E2 |-> [Group("E", "last", 1, 3) EXCEPT !.short = TRUE],
   Et |-> [Group("E", "plus", 0, 2) EXCEPT !.short = TRUE]]

MCLabels == [A |-> <<"A1", "A2", "A3">>, B |-> <<"B1", "B2">>, C |-> <<"C1">>,
             D |-> <<"D1">>, E |-> <<"E1", "E2">>, none |-> <<>>]

MotGroup(kind, tid, num, last, bytes, cells) ==
  [kind |-> kind, tid |-> tid, num |-> num, last |-> last, bytes |-> bytes, cells |-> cells,
   image |-> TRUE, params |-> 12 :> kind]

MCMotGroups ==
  [H1 |-> MotGroup("header", 1, 0, TRUE, 2, 2),
   P1 |-> MotGroup("body", 1, 0, FALSE, 1, 3),
   Q1 |-> MotGroup("body", 1, 1, TRUE, 1, 2),
   H3 |-> MotGroup("header", 1, 0, TRUE, 2, 2),
   P3 |-> MotGroup("body", 1, 0, FALSE, 1, 3),
   Q3 |-> MotGroup("body", 1, 1, TRUE, 1, 2),
   H2 |-> MotGroup("header", 2, 0, TRUE, 2, 2),
   P2 |-> MotGroup("body", 2, 0, FALSE, 1, 3),
   Q2 |-> MotGroup("body", 2, 1, TRUE, 1, 2),
   Y  |-> MotGroup("other", 3, 0, TRUE, 0, 2)]

MCObjects == {[header |-> "H1", body |-> <<"P1", "Q1">>],
              [header |-> "H2", body |-> <<"P2", "Q2">>],
              [header |-> "H3", body |-> <<"P3", "Q3">>]}

-----------------------------------------------------------------------------
Ci(types, fields) == [xpad |-> "variable", ci |-> TRUE, types |-> types, fields |-> fields]
NoCi(field)       == [xpad |-> "variable", ci |-> FALSE, types |-> <<>>, fields |-> <<field>>]

Cell(g, k) == <<g, k>>
One(g, k)  == <<Cell(g, k)>>
Fill       == <<Padding>>
LengthOf(g) == <<<<"length", MCMotGroups[g].cells>>>>

(* A label's group of two cells in two PADs; ...                            *)
Two(g) == <<Ci(<<DlsStart>>, <<One(g, 1)>>), NoCi(One(g, 2))>>

(* ... a data group of n cells, its beginning behind its length; ...         *)
MotBegin(g) == Ci(<<LengthIndicator, MotStart>>, <<LengthOf(g), One(g, 1)>>)

(* ... one that fits into a field that is longer than it; ...                *)
MotPadded(g) ==
  Ci(<<LengthIndicator, MotStart>>, <<LengthOf(g), MotCells(g) \o Fill>>)

(* ... and both at a time, the CI naming the one that goes on last.          *)
Both(g, h) ==
  <<Ci(<<DlsStart, LengthIndicator, MotStart>>, <<One(g, 1), LengthOf(h), One(h, 1)>>),
    Ci(<<DlsContinuation, MotContinuation>>, <<One(g, 2), <<Cell(h, 2), Padding>>>>)>>
Long(g, h) ==
  <<Ci(<<DlsStart, LengthIndicator, MotStart>>, <<One(g, 1), LengthOf(h), One(h, 1)>>),
    Ci(<<MotContinuation, DlsContinuation>>, <<One(h, 2), One(g, 2)>>),
    Ci(<<MotContinuation>>, <<One(h, 3)>>)>>

MixedStation ==
  Two("A1") \o Two("A2") \o Both("A3", "H1") \o Long("A1", "P1") \o Two("A2") \o
  Both("A3", "Q1") \o Both("B1", "H1") \o Long("B2", "P1") \o Both("B1", "Q1") \o
  <<MotBegin("Y"), NoCi(One("Y", 2))>> \o Two("B2") \o <<MotPadded("Y")>> \o Two("C1") \o
  Both("A1", "H3") \o Long("A2", "P3") \o Both("A3", "Q3") \o Both("C1", "H2") \o
  <<Ci(<<DlsStart>>, <<One("X", 1) \o Fill>>)>> \o Long("C1", "P2") \o Both("B1", "Q2") \o
  Both("B2", "Y")

Short(ci, type, cells) ==
  [xpad |-> "short", ci |-> ci, types |-> IF ci THEN <<type>> ELSE <<>>, fields |-> <<cells>>]
ShortGroup(g) ==
  [k \in 1 .. MCLabelGroups[g].cells |-> Short(k = 1, DlsStart, One(g, k))]

TaggedStation ==
  ShortGroup("D1") \o ShortGroup("Dt") \o ShortGroup("E1") \o ShortGroup("E2") \o
  ShortGroup("Et") \o ShortGroup("E1") \o ShortGroup("E2") \o ShortGroup("Et") \o
  ShortGroup("D1") \o ShortGroup("Dt") \o ShortGroup("D1") \o ShortGroup("Dt") \o <<NoPad>> \o
  ShortGroup("E1")

MCStations == {MixedStation, TaggedStation}
=============================================================================
