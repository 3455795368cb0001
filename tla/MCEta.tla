------------------------------- MODULE MCEta --------------------------------
(***************************************************************************)
(* Instances of Eta for TLC, in hours: three legs, the first two created    *)
(* together, the second with slack before it, the third created later and   *)
(* without estimates.  The updates keep the plan, slip past the limit on    *)
(* the first and (with a firm commitment) on the second leg, and give the   *)
(* third a departure.                                                      *)
(***************************************************************************)
EXTENDS Eta, TLC

CONSTANTS r1, r2

MCCreatedAt == <<1, 1, 2>>
Leg(etd, eta) == [t \in Types |-> IF t = "ETD" THEN etd ELSE eta]
MCPlans == {[l \in Legs |-> CASE l = 1 -> Leg(0, 4) [] l = 2 -> Leg(6, 12) [] OTHER -> Leg(None, None)]}
MCUpdates == {[leg |-> 1, type |-> "ETA", value |-> 4, firm |-> FALSE],
              [leg |-> 1, type |-> "ETA", value |-> 34, firm |-> FALSE],
              [leg |-> 2, type |-> "ETA", value |-> 34, firm |-> TRUE],
              [leg |-> 3, type |-> "ETD", value |-> 14, firm |-> FALSE]}
MCSymmetry == Permutations(Updaters)
=============================================================================
