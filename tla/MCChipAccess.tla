---------------------------- MODULE MCChipAccess ----------------------------
EXTENDS ChipAccess

(* Both ends of the band, each type of clock, the N frequencies and their  *)
(* neighbours.                                                             *)
MCTuned == {0, 8, 20, 21, 25, 26, 30, 31, 40}
=============================================================================
