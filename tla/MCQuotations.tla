---------------------------- MODULE MCQuotations ----------------------------
(* Instances of Quotations for TLC.                                        *)
EXTENDS Quotations, TLC

CONSTANTS q1, q2, a1, a2, r1, r2

\* The dearer rate is used once the first has ended; under a limit of 22 one
\* quotation fits, two do not unless both are at cost on the first rate.
MCCategory == (a1 :> 1) @@ (a2 :> 2)
MCCost == (a1 :> 10) @@ (a2 :> 20)
=============================================================================
