---------------------- MODULE MCCertificateDistribution ----------------------
(* CertificateDistribution on small instances. *)
EXTENDS CertificateDistribution

CONSTANTS A, B, x, y, z, a1, b1, b2, gn

MCOwner == [t \in {a1, b1, b2} |-> IF t = a1 THEN A ELSE B]
MCIssuer == [t \in {a1, b1, b2} |-> CASE t = a1 -> x [] t = b1 -> y [] t = b2 -> z]
MCProvisioned == [s \in {A, B} |-> IF s = A THEN {x} ELSE {x, y, z}]
MCTraffics == {[s \in {A, B} |-> {"CAM"}], [s \in {A, B} |-> IF s = A THEN {} ELSE Aids \ {"CAM"}]}
=============================================================================
