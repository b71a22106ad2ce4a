------------------------------ MODULE PadDecoder ------------------------------
(***************************************************************************)
(* PadDecoder: which application the X-PAD subfields of a PAD are for, and   *)
(* MOT data groups put together from them.  The subfields of a PAD without   *)
(* a contents indicator (CI) belong to the application the last CI named.   *)
(*                                                                         *)
(* A PAD is [xpad, ci, types, fields]: xpad is "none", "short" or           *)
(* "variable"; types are those of the CI, if ci says there is one; fields    *)
(* are sequences of cells.                                                 *)
(***************************************************************************)
EXTENDS DynamicLabel, Mot

LengthIndicator == 1
DlsStart        == 2
DlsContinuation == 3
MotStart        == 12
MotContinuation == 13
Unknown         == 255   \* no CI has been seen

NoPad == [xpad |-> "none", ci |-> FALSE, types |-> <<>>, fields |-> <<>>]

(* m_noCiLastXpAdAppType, m_noCiLastShortXpAdAppType, m_currentDataGroup,    *)
(* m_currentDataGroupLength, and the decoders behind.                       *)
NoPadSeen == [last |-> Unknown, lastShort |-> Unknown, group |-> <<>>, length |-> 0,
              label |-> NoLabel, mot |-> NoMot]

-----------------------------------------------------------------------------
Continued(type) == IF type % 2 = 0 THEN type + 1 ELSE type

(* The types of the subfields, ...                                         *)
Types(r, pad) ==
  CASE pad.xpad = "none"                 -> <<>>
    [] pad.xpad # "none" /\ pad.ci       -> pad.types
    [] pad.xpad = "short" /\ ~pad.ci     -> <<(r.lastShort + 1) % 256>>
    [] pad.xpad = "variable" /\ ~pad.ci  ->
         IF r.last = Unknown THEN <<>> ELSE <<Continued(r.last)>>

MutantRemembered(r, pad) ==
  IF pad.xpad = "variable" /\ pad.ci /\ pad.types # <<>> /\ r.last = Unknown
  THEN [r EXCEPT !.last = Last(pad.types)]
  ELSE r

(* ... and what is remembered of them.                                     *)
Remembered(r, pad) ==
  CASE pad.xpad = "short" /\ pad.ci -> [r EXCEPT !.lastShort = pad.types[1]]
    [] pad.xpad = "variable" /\ Types(r, pad) # <<>> ->
         [r EXCEPT !.last = Last(Types(r, pad))]
    [] OTHER -> r

(* Two bytes of length and a CRC, which fits on such a field only.           *)
IsLength(field) == field # <<>> /\ field[1][1] = "length"

MutantLengthInput(r, field) == [r EXCEPT !.group = <<>>, !.length = field[1][2]]

(* The data group before this one is complete, or as much of it as came.     *)
LengthInput(r, field) ==
  IF ~IsLength(field) THEN [r EXCEPT !.group = <<>>, !.length = 0]
  ELSE [r EXCEPT !.mot    = IF r.group = <<>> THEN @ ELSE MotDataInput(@, r.group),
                 !.group  = <<>>,
                 !.length = field[1][2]]

MutantMotContinuationInput(r, field) == [r EXCEPT !.group = @ \o field]

(* No more is taken than is left of the data group.  When the beginning was  *)
(* longer than the group, less than nothing is left, and the insert of a     *)
(* range that ends before it begins is undefined: the library throws and the *)
(* program ends, or, as here, nothing is appended.                          *)
MotContinuationInput(r, field) ==
  LET remaining == r.length - Len(r.group)
  IN  [r EXCEPT !.group = @ \o (IF Len(field) <= remaining THEN field
                                ELSE SubSeq(field, 1, remaining))]

FieldInput(r, type, field) ==
  CASE type = LengthIndicator -> LengthInput(r, field)
    [] type = MotStart        -> [r EXCEPT !.group = @ \o field]
    [] type = MotContinuation -> MotContinuationInput(r, field)
    [] type = DlsStart        -> [r EXCEPT !.label = LabelStart(@, field)]
    [] type = DlsContinuation -> [r EXCEPT !.label = LabelContinuation(@, field)]
    [] OTHER                  -> r

PadDataInput(r, pad) ==
  LET types == Types(r, pad)
      clean == [Remembered(r, pad) EXCEPT !.label.shown = <<>>, !.mot.slides = <<>>]
      after[k \in 0 .. Len(types)] ==
        IF k = 0 THEN clean ELSE FieldInput(after[k-1], types[k], pad.fields[k])
  IN  after[Len(types)]
=============================================================================
