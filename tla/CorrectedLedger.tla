-------------------------- MODULE CorrectedLedger ---------------------------
(***************************************************************************)
(* What the financial ledger promises: each posting has one value in force, *)
(* and a correction replaces that value by another, in one step, without    *)
(* any trace of the old one in the balance.  A posting that two requests    *)
(* corrected at once is contested: nothing is promised about its value any  *)
(* more, but every other posting is left alone.                            *)
(***************************************************************************)
EXTENDS Integers

CONSTANTS Postings, Values

VARIABLES
    inForce,        \* the net amount (debit - credit) each posting stands for
    contested       \* postings whose value is not to be relied on

Init == inForce \in [Postings -> Values] /\ contested = {}

Correct(p, v) ==
    /\ p \notin contested
    /\ inForce' = [inForce EXCEPT ![p] = v]
    /\ UNCHANGED contested

Contest(p) ==
    /\ contested' = contested \cup {p}
    /\ \A q \in Postings \ {p} : inForce'[q] = inForce[q]

Next == \E p \in Postings : Contest(p) \/ \E v \in Values : Correct(p, v)

Spec == Init /\ [][Next]_<<inForce, contested>>
=============================================================================
