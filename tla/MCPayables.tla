----------------------------- MODULE MCPayables -----------------------------
(* Instances of Payables for TLC.                                          *)
EXTENDS Payables, TLC

CONSTANTS b1, b2, c1, c2, r1, r2

\* One freight cost line is estimated; c2 is the row an additional charge gets.
MCEstimates == c1 :> [code |-> "FRT", amount |-> 2, status |-> "ESTIMATED"]

\* A bill that names its cost line and under-bills it, which is material (1 of
\* 1 is more than 40%), one with tax, an additional charge and an under-billed
\* line, whose variances cancel, and one of the additional charge alone, which
\* shares no line with the first.
ById(amount) == [code |-> "FRT", id |-> c1, amount |-> amount]
FreightLine(amount) == [code |-> "FRT", id |-> "none", amount |-> amount]
Surcharge == [code |-> "BAF", id |-> "none", amount |-> 1]
MCBillInputs == {[lines |-> <<ById(1)>>, tax |-> 0],
                 [lines |-> <<Surcharge, FreightLine(1)>>, tax |-> 1],
                 [lines |-> <<Surcharge>>, tax |-> 0]}

MCSymmetry == Permutations({b1, b2}) \cup Permutations({r1, r2})
=============================================================================
