---------------------------- MODULE MCInvoicing -----------------------------
(* Instances of Invoicing for TLC.                                         *)
EXTENDS Invoicing, TLC

CONSTANTS l1, l2, r1, r2

\* Ten-thousandths.  l1, of 3.96 cents, comes to 5 cents with its tax, which is
\* the threshold; l2, of 2 cents, is taxed with none; both come to more.
MCCharges == (l1 :> [amount |-> 396, currency |-> "USD"]) @@ (l2 :> [amount |-> 200, currency |-> "EUR"])
MCRates == [c \in {"USD", "EUR"} |-> IF c = "EUR" THEN 150 ELSE 0]
MCFirstStatus == (l1 :> "ESTIMATED") @@ (l2 :> "QUOTED")
MCBodies == {[currency |-> "USD", jurisdiction |-> "PK"]}
MCSymmetry == Permutations(Requests)

\* Over amounts with and without a fraction of a cent, both currencies and
\* every jurisdiction: the totals of an invoice of one or two lines agree.
Charge == [amount : {1, 49, 50, 51, 99, 100, 149, 150, 312, 313, 400, 1250, 1299}, currency : {"USD", "EUR"}]
ASSUME RoundingIsBounded ==
    \A a, b \in Charge, target \in {"USD", "EUR"}, rate \in {50, 100, 125},
       jurisdiction \in {"PK", "SA", "AE", "none"}, S \in {{1}, {1, 2}} :
        TotalsAgree(S, <<a, b>>, target, rate, TaxRate(jurisdiction))
=============================================================================
