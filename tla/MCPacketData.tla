---------------------------- MODULE MCPacketData ----------------------------
(* PacketData with a handful of packets: a frame of the own address, a     *)
(* foreign address, padding and the two FEC packets of a group of two data *)
(* packets, each intact, and the damage that matters: own, padding and FEC *)
(* packets taken for one another.  A bad CRC alone behaves as padding      *)
(* taken for an own packet does when the decoder leaves it as it is.       *)
EXTENDS PacketData

Hd(a, c, f) == [addr |-> a, continuity |-> c, firstlast |-> f]

Own0 == Hd(OwnAddress, 0, 2)
Own1 == Hd(OwnAddress, 1, 0)
Own2 == Hd(OwnAddress, 2, 1)
Other1 == Hd(OwnAddress + 1, 1, 0)
Padding == Hd(PadAddress, 0, 0)
Fec0 == Hd(FecAddress, 0, 0)
Fec1 == Hd(FecAddress, 0, 1)

Good(h) == [hdr |-> h, sent |-> h, crc |-> TRUE, size |-> 1]
Bad(received, sent) == [hdr |-> received, sent |-> sent, crc |-> FALSE, size |-> 1]

MCReceptions ==
  {Good(h) : h \in {Own0, Own1, Own2, Other1, Fec0, Fec1}}
    \cup {Bad(Padding, Own1), Bad(Own1, Padding), Bad(Own0, Fec0)}

(* A correction that goes astray unmarks a first packet, or marks another. *)
MCJunk == {Own0, Own1}
=============================================================================
