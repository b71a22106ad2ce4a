---------------------------- MODULE MCPacketLink ----------------------------
(* PacketLink with the address confusions of one component and padding.    *)
EXTENDS PacketLink

Own == OwnAddress

(* Damage leaves the address alone, or makes an own packet look like       *)
(* padding or padding look like an own packet.                             *)
OwnAndPadding == {<<Own, Own>>, <<Own, PadAddress>>, <<PadAddress, Own>>}
OwnOnly       == {<<Own, Own>>}

(* A correction that goes astray makes a packet look like a frame's first.  *)
MCJunk == {[addr |-> Own, continuity |-> 0, firstlast |-> 2]}
=============================================================================
