------------------------------ MODULE RtcmStream ------------------------------
(***************************************************************************)
(* JDabPPPRTKService::dataFrameInput: the user data of the dispatched data *)
(* frames is one stream of bytes, RtcmFrame cuts it into RTCM messages,    *)
(* and each is given to the NTRIP server.  A turn of its loop is a step:   *)
(* the NTRIP server's thread may take a message while the next is cut.     *)
(*                                                                         *)
(* An RTCM message is a preamble, a length of 2 + 8 bits, as many payload  *)
(* bytes, and 3 bytes of CRC.  Bytes are 0 .. Base-1: the code has Base =  *)
(* 256, a small Base reaches the same carries with short messages.         *)
(*                                                                         *)
(* The sender of the service is the environment.  It either cuts its       *)
(* stream into data frames anywhere, and then no frame may be lost, or it  *)
(* starts every data frame with a message, and then frames may be lost.    *)
(***************************************************************************)
EXTENDS Integers, Sequences

CONSTANTS
  Base,         \* values of a byte (the code: 256)
  Preamble,     \* RTCM_PREAMBLE (the code: 16rd3)
  Payloads,     \* payloads the service sends: sequences of bytes
  MaxMessages,  \* bound: messages sent
  MaxLost       \* bound: data frames lost

Byte == 0..(Base - 1)
Overhead == 6   \* RTCM_HDR_BYTES + RTCM_CRC_BYTES

ASSUME RtcmAssumption ==
  /\ Base \in Nat /\ Base > Overhead
  /\ Preamble \in Byte
  /\ Payloads \subseteq Seq(Byte)
  /\ \A d \in Payloads : Len(d) < 4 * Base
  /\ MaxMessages \in Nat /\ MaxLost \in Nat

VARIABLES
  split,    \* the sender cuts the stream anywhere
  unsent,   \* bytes the sender has not put into a data frame yet
  left,     \* messages it may still start
  lost,     \* data frames lost
  buffer,   \* JDabPPPRTKService::rtcm, the bytes not cut into frames yet
  cutting,  \* the loop of dataFrameInput runs
  sent,     \* history: messages begun in data frames that arrived
  pushed    \* history: the frames given to pushRtcm

vars == <<split, unsent, left, lost, buffer, cutting, sent, pushed>>
sender == <<split, unsent, left, lost, sent>>

Message(d) ==
  <<Preamble, Len(d) \div Base, Len(d) % Base>> \o d \o <<0, 0, 0>>

-----------------------------------------------------------------------------
(* The bitwise or of hi * Base and low, which is less than 2 * Base. *)
Combine(hi, low) ==
  IF low < Base THEN hi * Base + low
  ELSE (IF hi % 2 = 1 THEN hi - 1 ELSE hi) * Base + low

(* RtcmFrame::length: + binds tighter than |, so the 6 is added to the low *)
(* byte before the two are combined, and a carry out of it is lost when    *)
(* the high part is odd.                                                   *)
Length(b) == Combine(b[2] % 4, b[3] + Overhead)

(* The Mutant... definition is not part of the model: it is a faulty form  *)
(* of the one that follows it, for a run in which the property must fail.  *)

(* RtcmFrame::preamble and complete.  Of a short buffer they read bytes    *)
(* behind its end; whatever those are, the length is at least 6, and an    *)
(* empty buffer ends the loop and stays empty on either branch.            *)
InSync(b) == b # <<>> /\ b[1] = Preamble

MutantComplete(b) == Len(b) >= Overhead /\ Len(b) > Length(b)
Complete(b)       == Len(b) >= Overhead /\ Len(b) >= Length(b)

(* dataFrameInput appends the user data; its loop follows. *)
DataFrameInput(userdata) ==
  /\ buffer' = buffer \o userdata
  /\ cutting' = TRUE

(* A turn of the loop: without a preamble all bytes are dropped, ...       *)
LostSync ==
  /\ cutting /\ ~InSync(buffer)
  /\ buffer' = <<>>
  /\ cutting' = FALSE
  /\ UNCHANGED <<sender, pushed>>

(* ... the rest of a message is waited for, ...                            *)
Incomplete ==
  /\ cutting /\ InSync(buffer) /\ ~Complete(buffer)
  /\ cutting' = FALSE
  /\ UNCHANGED <<sender, buffer, pushed>>

(* ... or the first frame is cut off and pushed. *)
FirstFrame ==
  /\ cutting /\ InSync(buffer) /\ Complete(buffer)
  /\ pushed' = Append(pushed, SubSeq(buffer, 1, Length(buffer)))
  /\ buffer' = SubSeq(buffer, Length(buffer) + 1, Len(buffer))
  /\ UNCHANGED <<sender, cutting>>

-----------------------------------------------------------------------------
(* A data frame arrives with n bytes of what was unsent and of the         *)
(* messages the sender starts, at most one.                                *)
Carry(msgs, n) ==
  LET stream == IF msgs = <<>> THEN unsent ELSE unsent \o msgs[1]
  IN  /\ ~cutting
      /\ Len(msgs) <= left
      /\ n \in 1..Len(stream) /\ (split \/ n = Len(stream))
      /\ left' = left - Len(msgs)
      /\ sent' = sent \o msgs
      /\ unsent' = SubSeq(stream, n + 1, Len(stream))
      /\ DataFrameInput(SubSeq(stream, 1, n))
      /\ UNCHANGED <<split, lost, pushed>>

(* A data frame with a message is lost. *)
Lose ==
  /\ ~split /\ ~cutting
  /\ lost < MaxLost
  /\ left > 0
  /\ lost' = lost + 1
  /\ left' = left - 1
  /\ UNCHANGED <<split, unsent, buffer, cutting, sent, pushed>>

Started == {<<>>} \cup {<<Message(d)>> : d \in Payloads}

Init ==
  /\ split \in BOOLEAN
  /\ unsent = <<>>
  /\ left = MaxMessages
  /\ lost = 0
  /\ buffer = <<>>
  /\ cutting = FALSE
  /\ sent = <<>>
  /\ pushed = <<>>

Next ==
  \/ \E msgs \in Started, n \in 1..(Len(unsent) + 4 * Base + Overhead) : Carry(msgs, n)
  \/ Lose
  \/ LostSync
  \/ Incomplete
  \/ FirstFrame

Spec == Init /\ [][Next]_vars

-----------------------------------------------------------------------------
(* However the stream is cut into data frames, the NTRIP server gets the   *)
(* messages that arrived, each whole and none of them late: those not      *)
(* pushed when dataFrameInput returns have not arrived to their end.       *)
MessagesPassedOn ==
  LET n == Len(pushed)
  IN  /\ n <= Len(sent)
      /\ pushed = SubSeq(sent, 1, n)
      /\ ~cutting /\ n < Len(sent) => Len(buffer) < Len(sent[n + 1])
=============================================================================
