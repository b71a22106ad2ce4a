----------------------------- MODULE AudioFrames -----------------------------
(***************************************************************************)
(* DabPlusServiceComponentDecoder: logical frames are cut out of the bytes  *)
(* of the subchannel (synchronizeData), five of them make a superframe, and *)
(* its access units (AUs) whose CRC fits are handed on (processData).       *)
(*                                                                         *)
(* Bytes come in units.  A unit says of which superframe it is and where in *)
(* it, whether it is "ok", "bad" or "zero", and what header would be read   *)
(* there, NoHeader where the fire code does not fit.  A CRC fits on what    *)
(* was sent under it and on nothing else.  "bad" is damage the Reed-Solomon *)
(* code cannot repair.                                                     *)
(***************************************************************************)
EXTENDS Integers, Sequences, SequencesExt

CONSTANTS
  FrameSize,        \* m_frameSize, in units
  SuperFrameSize,   \* m_superFrameSize, in units: without the RS parity
  Header            \* header of the superframes sent: [dac, sbr, starts]

NumAUs(h) == CASE h.dac = 0 /\ h.sbr = 1 -> 2
               [] h.dac = 1 /\ h.sbr = 1 -> 3
               [] h.dac = 0 /\ h.sbr = 0 -> 4
               [] h.dac = 1 /\ h.sbr = 0 -> 6

(* What the bytes of a header can say: two bits and the starts of the AUs.   *)
IsHeader(h) ==
  /\ h.dac \in {0, 1} /\ h.sbr \in {0, 1}
  /\ h.starts \in Seq(Nat) /\ Len(h.starts) >= NumAUs(h) - 1

ASSUME FramesAssumption ==
  /\ FrameSize \in Nat \ {0}
  /\ SuperFrameSize \in 1 .. 5 * FrameSize
  /\ IsHeader(Header)

NoHeader   == [dac |-> 0, sbr |-> 0, starts |-> <<>>]
ZeroHeader == [dac |-> 0, sbr |-> 0, starts |-> <<0, 0, 0>>]

-----------------------------------------------------------------------------
(* What synchronizeData keeps, with the frames it has cut out.              *)
NoSync == [data |-> <<>>, sync |-> FALSE, count |-> 0, frames |-> <<>>]

FrameBegins(y) ==
  y.sync \/ (y.data[1].ok # "zero" /\ y.data[1].header # NoHeader)

(* In sync, the next five frames are taken as they come.                    *)
TakeFrame(y) ==
  [data   |-> SubSeq(y.data, FrameSize + 1, Len(y.data)),
   sync   |-> y.count # 4,
   count  |-> (y.count + 1) % 5,
   frames |-> Append(y.frames, SubSeq(y.data, 1, FrameSize))]

(* A turn of the loop. *)
Turn(y) ==
  IF Len(y.data) <= FrameSize THEN y
  ELSE IF FrameBegins(y) THEN TakeFrame(y) ELSE [y EXCEPT !.data = Tail(@)]

(* Each turn takes a unit at least, until too few are left.                 *)
SynchronizeData(y, units) ==
  LET start == [y EXCEPT !.data = @ \o units, !.frames = <<>>]
      after[n \in 0 .. Len(start.data)] == IF n = 0 THEN start ELSE Turn(after[n-1])
  IN  after[Len(start.data)]

-----------------------------------------------------------------------------
(* m_currentSuperFrame, m_dabSuperFrameCount, m_isSync; the AUs of the      *)
(* superframe that is complete.  Those whose CRC fits are handed on.        *)
NoSuperFrame == [data |-> <<>>, starts |-> <<>>, count |-> 0, sync |-> FALSE, aus |-> <<>>]

(* The first AU stands behind the header, the others where it says.         *)
Starts(h) == <<2>> \o SubSeq(h.starts, 1, NumAUs(h) - 1)

(* No AU of the superframes sent is empty.                                  *)
ASSUME HeaderAssumption ==
  LET ends == Append(Starts(Header), SuperFrameSize + 1)
  IN  \A j \in 1 .. NumAUs(Header) : ends[j] < ends[j+1]

(* The code counts from 0: the last AU may begin where the superframe ends.  *)
BadStart(starts) ==
  \E i \in 2 .. Len(starts) : starts[i] - 1 > SuperFrameSize \/ starts[i] <= starts[i-1]

(* The AU j of one superframe, whole and undamaged.                         *)
CrcFits(au) ==
  /\ au # <<>>
  /\ \A i \in DOMAIN au : /\ au[i].ok = "ok"
                          /\ au[i].sf = au[1].sf
                          /\ au[i].at = au[1].at + i - 1
  /\ LET ends == Append(Starts(Header), SuperFrameSize + 1)
     IN  \E j \in 1 .. NumAUs(Header) : /\ au[1].at = ends[j]
                                        /\ Len(au) = ends[j+1] - ends[j]

AccessUnits(p) ==
  LET ends == Append(p.starts, SuperFrameSize + 1)
  IN  [j \in DOMAIN p.starts |-> SubSeq(p.data, ends[j], ends[j+1] - 1)]

MutantSuperFrameEnds(p) ==
  [p EXCEPT !.aus = AccessUnits(p), !.sync = FALSE]

SuperFrameEnds(p) ==
  [p EXCEPT !.aus = AccessUnits(p), !.count = 0, !.sync = FALSE]

MutantSuperFrameBegins(p, frame) ==
  LET starts == Starts(frame[1].header)
  IN  IF BadStart(starts)
      THEN [p EXCEPT !.data = <<>>]
      ELSE [p EXCEPT !.data = @ \o frame, !.starts = starts, !.count = 1, !.sync = TRUE]

SuperFrameBegins(p, frame) ==
  LET starts == Starts(frame[1].header)
  IN  IF BadStart(starts)
      THEN [p EXCEPT !.data = <<>>]
      ELSE [p EXCEPT !.data = frame, !.starts = starts, !.count = 1, !.sync = TRUE]

SuperFrameGoesOn(p, frame) ==
  LET grown == [p EXCEPT !.data = @ \o frame, !.count = @ + 1]
  IN  IF grown.count = 5 THEN SuperFrameEnds(grown) ELSE grown

(* processData with a frame of its queue.                                  *)
ProcessData(p, frame) ==
  LET q == [p EXCEPT !.aus = <<>>]
      d == IF q.count > 5 THEN [q EXCEPT !.sync = FALSE, !.count = 0] ELSE q
  IN  IF q.count = 0 /\ frame[1].header # NoHeader THEN SuperFrameBegins(q, frame)
      ELSE IF d.sync THEN SuperFrameGoesOn(d, frame)
      ELSE d
=============================================================================
