----------------------------- MODULE DynamicLabel -----------------------------
(***************************************************************************)
(* DynamiclabelDecoder: segments of a label, or commands, come as data      *)
(* groups in X-PAD subfields, one to begin with and others to continue.     *)
(* A group is looked at when the next one begins.                          *)
(*                                                                         *)
(* A group is cut into cells <<group, k>>, and a subfield is a sequence of   *)
(* cells, Padding at the end.  What the group says is in LabelGroups.        *)
(***************************************************************************)
EXTENDS Integers, Sequences, SequencesExt

CONSTANTS
  LabelGroups   \* group -> [label, seg, num, cells, short]; seg is "first", "intermediate",
                \* "last", "only", or of a command "plus" or "clear"

Padding == <<"padding", 0>>

CellsOf(g, n) == [k \in 1..n |-> <<g, k>>]
LabelCells(g) == CellsOf(g, LabelGroups[g].cells)

(* mem is the memory of m_dlsData, which outlives what clear does to size.  *)
NoLabel == [mem |-> <<>>, size |-> 0, full |-> <<>>, segNum |-> 0, plus |-> FALSE,
            shown |-> <<>>]

DlsData(d) == SubSeq(d.mem, 1, d.size)

Written(d, cells) ==
  LET n == d.size + Len(cells)
  IN  [d EXCEPT !.mem = DlsData(d) \o cells \o SubSeq(@, n + 1, Len(@)), !.size = n]

Cleared(d) == [d EXCEPT !.size = 0]

StartStored(d, cells) == Written(Cleared(d), cells)

(* At least four bytes: a short X-PAD subfield with a contents indicator    *)
(* has three.                                                              *)
LongEnough(d) == d.size > 1 \/ (d.size = 1 /\ ~LabelGroups[d.mem[1][1]].short)

(* The CRC over as many bytes as the group's length field says, also if     *)
(* fewer or more have come.                                                *)
SegmentCrcFits(d, g) == IsPrefix(LabelCells(g), d.mem)

RemovePadding(cells) ==
  SubSeq(cells, 1, Max({0} \union {k \in DOMAIN cells : cells[k] # Padding}))

CommandCrcFits(d, g) == RemovePadding(DlsData(d)) = LabelCells(g)

Dispatched(d, tags) == [d EXCEPT !.shown = Append(@, [text |-> d.full, tags |-> tags])]
Untagged == "none"

DispatchedPlain(d) == IF d.plus THEN d ELSE Dispatched(d, Untagged)

Continues(d, g) == LabelGroups[g].num = d.segNum + 1

(* The segment that has been received, then the beginning of the next; at a  *)
(* wrong CRC or number the function returns without the latter.             *)
Segment(d, g, cells) ==
  LET seg  == LabelGroups[g].seg
      with == [d EXCEPT !.full = Append(@, g)]
  IN  CASE ~SegmentCrcFits(d, g) -> Cleared(d)
        [] SegmentCrcFits(d, g) /\ seg = "first" ->
             StartStored([d EXCEPT !.full = <<g>>, !.segNum = 0], cells)
        [] SegmentCrcFits(d, g) /\ seg = "only" ->
             StartStored(DispatchedPlain([d EXCEPT !.full = <<g>>, !.segNum = 0]), cells)
        [] SegmentCrcFits(d, g) /\ seg \in {"intermediate", "last"} ->
             IF d.full = <<>> THEN StartStored(d, cells)
             ELSE IF ~Continues(d, g) THEN [d EXCEPT !.full = <<>>, !.segNum = 0]
             ELSE IF seg = "last" THEN StartStored(DispatchedPlain(with), cells)
             ELSE StartStored([with EXCEPT !.segNum = LabelGroups[g].num], cells)

(* A DL Plus command tags the text collected last.                          *)
Command(d, g, cells) ==
  LET tagged == [d EXCEPT !.plus = TRUE]
  IN  IF ~CommandCrcFits(d, g) THEN Cleared(d)
      ELSE IF LabelGroups[g].seg = "clear" THEN StartStored(d, cells)
      ELSE StartStored(IF d.full = <<>> THEN tagged ELSE Dispatched(tagged, g), cells)

LabelStart(d, cells) ==
  IF ~LongEnough(d) THEN StartStored(d, cells)
  ELSE LET g == d.mem[1][1]
       IN  IF LabelGroups[g].seg \in {"plus", "clear"} THEN Command(d, g, cells)
           ELSE Segment(d, g, cells)

LabelContinuation(d, cells) == IF d.size = 0 THEN d ELSE Written(d, cells)
=============================================================================
