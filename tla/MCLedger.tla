------------------------------ MODULE MCLedger ------------------------------
(* Instances of Ledger for TLC.                                            *)
EXTENDS Ledger, TLC

CONSTANTS r1, r2

\* A receivable and a payable posting; a correction to 1 and one to
\* the other side.
MCOriginals == <<[debit |-> 2, credit |-> 0], [debit |-> 0, credit |-> 2]>>
MCAmounts == {[debit |-> 1, credit |-> 0], [debit |-> 0, credit |-> 3]}
MCSymmetry == Permutations(Correctors)
=============================================================================
