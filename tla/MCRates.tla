------------------------------ MODULE MCRates -------------------------------
(* Instances of Rates for TLC.                                             *)
EXTENDS Rates, TLC

CONSTANTS a1, a2, r1, r2

\* a1 runs out after the first day, a2 after the second.
MCExpiryDate == (a1 :> 0) @@ (a2 :> 1)
=============================================================================
