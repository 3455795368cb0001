------------------------------ MODULE MCMargin ------------------------------
(***************************************************************************)
(* Instances for TLC: the margin watch with two requests and three rows of  *)
(* exceptions, and a table of consolidations for the cost allocation.       *)
(***************************************************************************)
EXTENDS Margin, CostAllocation, TLC

CONSTANTS x1, x2, x3, r1, r2

MCSymmetry == Permutations(Requests) \cup Permutations(Exceptions)

\* House bills light and heavy by weight and by volume; one has no weight at all.
MCHouseBills == {[weight |-> w, cbm |-> c] : w \in {0, 1000, 3000}, c \in {0, 1}}
MCCosts == 0 .. 7

\* Whatever the house bills of a consolidation weigh, what
\* calculate_cost_allocation charges them adds up to the cost of the master
\* bill and stays close to their exact shares by chargeable weight.
ASSUME AllocationAddsUp ==
    \A n \in 1 .. 4, mbl \in MCCosts : \A hbls \in [1 .. n -> MCHouseBills] : AddsUp(mbl, hbls)
=============================================================================
