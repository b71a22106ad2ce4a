---------------------------- MODULE MCRtcmStream ----------------------------
(* RtcmStream with bytes of three bits: the carry out of the low length    *)
(* byte that 250 .. 255 make in the code, 2 .. 7 make here.  The preamble  *)
(* occurs in payloads too.                                                 *)
EXTENDS RtcmStream

Zeros(n) == [i \in 1..n |-> 0]

(* No payload; one that looks like a message, with a carry into 0; one     *)
(* with an odd first length byte and no carry. *)
GoodPayloads == {<<>>, <<5, 0, 0>>, Zeros(9)}

(* A length of 10: the first length byte is odd and the second carries. *)
CarryPayloads == {Zeros(10)}
=============================================================================
