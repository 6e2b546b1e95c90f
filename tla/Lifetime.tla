------------------------------ MODULE Lifetime ------------------------------
(***************************************************************************)
(* The lifetime field of the GeoNetworking basic header and what becomes   *)
(* of it while a packet waits in a buffer (geonet/lifetime.cpp and         *)
(* geonet/pending_packet.hpp).  The field can only hold multiples of a     *)
(* step (50 ms, 1 s, 10 s or 100 s, by magnitude); one such range is       *)
(* modelled, Quantum ticks wide.                                           *)
(***************************************************************************)
EXTENDS Integers

CONSTANT Quantum   \* ticks in a lifetime step

ASSUME QuantumAssumption == Quantum \in Nat \ {0}

\* Lifetime::encode(); lround() rounds halves up
Encode(d) == ((2 * d + Quantum) \div (2 * Quantum)) * Quantum

\* Deviation: the remaining lifetime is not written back.
ReducedLifetime_Kept(lifetime, queued) == IF queued < lifetime THEN lifetime ELSE 0
\* PendingPacket::reduce_lifetime(), as it leaves the packet
ReducedLifetime(lifetime, queued) ==
  IF queued <= 0 THEN lifetime
  ELSE IF queued < lifetime THEN Encode(lifetime - queued) ELSE 0

=============================================================================
