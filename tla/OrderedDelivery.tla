--------------------------- MODULE OrderedDelivery ---------------------------
(***************************************************************************)
(* What the packet pipeline of a packet mode service component promises to *)
(* the frame aggregator behind it: the received packets come out at most   *)
(* once, in the order of reception, either at once or late (after the FEC  *)
(* has looked at them), and nothing comes out that was not received.       *)
(***************************************************************************)
EXTENDS Integers, Sequences

VARIABLES
  rcvd,   \* how many packets were received: they are numbered 0 .. rcvd-1
  out     \* the numbers of the packets handed on, oldest first

odVars == <<rcvd, out>>

Above(s) == \A i \in 1..Len(out) : out[i] < s

ODInit == rcvd = 0 /\ out = <<>>

(* A packet comes in; it may be handed on at once. *)
Receive ==
  /\ rcvd' = rcvd + 1
  /\ \/ out' = out
     \/ Above(rcvd) /\ out' = Append(out, rcvd)

(* A packet received earlier is handed on late, never behind a newer one. *)
HandOnLate ==
  \E s \in 0..(rcvd - 1) :
    /\ Above(s)
    /\ out' = Append(out, s)
    /\ rcvd' = rcvd

ODNext == Receive \/ HandOnLate

ODSpec == ODInit /\ [][ODNext]_odVars
=============================================================================
