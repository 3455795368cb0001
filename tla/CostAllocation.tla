--------------------------- MODULE CostAllocation ---------------------------
(***************************************************************************)
(* How the cost of a master bill of lading is shared out over the house     *)
(* bills of a consolidation: calculate_cost_allocation                      *)
(* (app/services/lcl_service.py).  Costs are in cents.                     *)
(***************************************************************************)
EXTENDS Integers, Sequences

CONSTANT Scale  \* denominator of a Decimal quotient (the code keeps 28 significant digits)

ASSUME ScaleAssumption == Scale \in Nat \ {0}

\* ROUND_HALF_UP of n / d.
HalfUp(n, d) == (2 * n + d) \div (2 * d)

\* The division of two Decimals: rounded half even to the digits of the context.
Ratio(n, d) ==
    LET q == (n * Scale) \div d
        rest == (n * Scale) % d
    IN  IF 2 * rest > d \/ (2 * rest = d /\ q % 2 = 1) THEN q + 1 ELSE q

\* get_chargeable_weight, in kilograms: a cubic metre counts as 1000.
ChargeableWeight(hbl) == IF hbl.weight > 1000 * hbl.cbm THEN hbl.weight ELSE 1000 * hbl.cbm

Weights(hbls) == [i \in DOMAIN hbls |-> ChargeableWeight(hbls[i])]

\* The sum of the first n elements of a sequence of numbers.
SumTo(s, n) == LET sum[i \in 0 .. Len(s)] == IF i = 0 THEN 0 ELSE sum[i - 1] + s[i] IN sum[n]
Total(s) == SumTo(s, Len(s))

\* The share of a house bill by its weight; without any weight there is none.
Share(cost, weight, total) ==
    IF total > 0 THEN HalfUp(cost * Ratio(weight, total), Scale) ELSE 0

\* The last house bill takes what the others leave.
Allocate(cost, hbls) ==
    LET w == Weights(hbls)
        shares == [i \in DOMAIN hbls |-> Share(cost, w[i], Total(w))]
    IN  [i \in DOMAIN hbls |-> IF i = Len(hbls) THEN cost - SumTo(shares, i - 1) ELSE shares[i]]

Abs(n) == IF n < 0 THEN -n ELSE n

\* The shares of a consolidation add up to its cost to the cent.  Each differs
\* from the exact share by half a cent, the last one by half a cent for each of
\* the others.
AddsUp(cost, hbls) ==
    LET w == Weights(hbls)
        a == Allocate(cost, hbls)
        n == Len(hbls)
    IN  /\ Total(a) = cost
        /\ Total(w) > 0 => \A i \in 1 .. n :
             2 * Abs(a[i] * Total(w) - cost * w[i]) <= Total(w) * (IF i = n THEN n - 1 ELSE 1)
=============================================================================
