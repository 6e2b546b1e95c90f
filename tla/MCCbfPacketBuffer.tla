------------------------- MODULE MCCbfPacketBuffer -------------------------
(* Model values for TLC: the packets are interchangeable. *)
EXTENDS CbfPacketBuffer, TLC

PacketSymmetry == Permutations(Ids)
=============================================================================
