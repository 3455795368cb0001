---------------------------- MODULE MCShipments -----------------------------
(* Instances of Shipments for TLC.                                         *)
EXTENDS Shipments, TLC

CONSTANTS s1, s2, r1, r2

MCSymmetry == Permutations(ShipmentIds) \cup Permutations(Requests)
=============================================================================
