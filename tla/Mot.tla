---------------------------------- MODULE Mot ----------------------------------
(***************************************************************************)
(* MotDecoder and SlideshowDecoder: an object has a header and a body; both  *)
(* come in data groups, the body in several segments.  An image whose body   *)
(* has its size is handed on as a slide.                                    *)
(***************************************************************************)
EXTENDS Integers, Sequences, SequencesExt

CONSTANTS
  MotGroups   \* group -> [kind, tid, num, last, bytes, cells, image, params]; kind is
              \* "header", "body" or "other"; bytes of a header is the body's size

MotCells(g) == [k \in 1..MotGroups[g].cells |-> <<g, k>>]

(* m_motHdrDataMap, and the slides of the last call.                         *)
NoMot == [map |-> <<>>, slides |-> <<>>]

Entry(g) == [header |-> g, previous |-> -1, body |-> <<>>]

(* Extension parameters are the pieces of a slide that have an identifier.   *)
Parameter(g, id) == IF id \in DOMAIN MotGroups[g].params THEN MotGroups[g].params[id] ELSE "none"

(* motApplicationDataInput; the expire and trigger time are not kept.        *)
Slide(e) ==
  [name  |-> Parameter(e.header, 12),
   category      |-> Parameter(e.header, 37),
   categoryTitle |-> Parameter(e.header, 38),
   clickThrough  |-> Parameter(e.header, 39),
   alternative   |-> Parameter(e.header, 40),
   header |-> e.header,
   data   |-> e.body]

(* insert: an entry that is there stays.                                    *)
HeaderInput(m, g) ==
  IF MotGroups[g].tid \in DOMAIN m.map THEN m
  ELSE [m EXCEPT !.map = [t \in DOMAIN @ \union {MotGroups[g].tid} |->
                            IF t \in DOMAIN @ THEN @[t] ELSE Entry(g)]]

Erased(map, tid) == [t \in DOMAIN map \ {tid} |-> map[t]]

BodySize(body) ==
  LET size[n \in 0 .. Len(body)] ==
        IF n = 0 THEN 0 ELSE size[n-1] + MotGroups[body[n]].bytes
  IN  size[Len(body)]

Complete(e) == BodySize(e.body) = MotGroups[e.header].bytes

MutantInSequence(e, g) == e.previous <= MotGroups[g].num

InSequence(e, g) == e.previous + 1 = MotGroups[g].num

BodyInput(m, g) ==
  LET tid == MotGroups[g].tid
      e   == m.map[tid]
      new == [e EXCEPT !.previous = MotGroups[g].num, !.body = Append(@, g)]
  IN  IF tid \notin DOMAIN m.map THEN m
      ELSE IF ~InSequence(e, g) THEN [m EXCEPT !.map = Erased(@, tid)]
      ELSE [map    |-> IF MotGroups[g].last THEN Erased(m.map, tid)
                       ELSE [m.map EXCEPT ![tid] = new],
            slides |-> IF Complete(new) /\ MotGroups[e.header].image
                       THEN Append(m.slides, Slide(new)) ELSE m.slides]

MotCrcFits(cells) == LET g == cells[1][1]
                     IN  g \in DOMAIN MotGroups /\ cells = MotCells(g)

(* A data group, as the PAD decoder has put it together.                     *)
MotDataInput(m, cells) ==
  LET g == cells[1][1]
  IN  IF ~MotCrcFits(cells) THEN m
      ELSE CASE MotGroups[g].kind = "header" -> HeaderInput(m, g)
             [] MotGroups[g].kind = "body"   -> BodyInput(m, g)
             [] OTHER                        -> m
=============================================================================
