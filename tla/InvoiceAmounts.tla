--------------------------- MODULE InvoiceAmounts ---------------------------
(***************************************************************************)
(* The arithmetic of generate_invoice: currency conversion, tax and totals  *)
(* (app/modules/invoicing/service.py, app/modules/invoicing/tax.py).        *)
(*                                                                         *)
(* A revenue amount is a Numeric(18, 4): it is in ten-thousandths, what the  *)
(* code rounds to two places is in cents.  Tax rates are whole percent, and *)
(* an exchange rate rate_to_base is in hundredths: 150 says that one unit   *)
(* of the currency is worth 1.50 units of the base currency USD.            *)
(***************************************************************************)
EXTENDS Integers, FiniteSets, Functions

Base == "USD"

\* Decimal.quantize(ROUND_HALF_UP), and Python's round(): ties go to even.  (The
\* code rounds floats, whose ties may fall either way; what is stated below
\* holds for every rounding to a nearest cent.)
RoundHalfUp(n, d) == (2 * n + d) \div (2 * d)
RoundHalfEven(n, d) ==
    LET down == n \div d
        rest == n % d
    IN  IF 2 * rest > d \/ (2 * rest = d /\ down % 2 = 1) THEN down + 1 ELSE down

\* TaxService.evaluate: the rate of a known jurisdiction, 0 for any other.
TaxRate(jurisdiction) ==
    CASE jurisdiction = "PK" -> 16 [] jurisdiction = "SA" -> 15
      [] jurisdiction = "AE" -> 5 [] OTHER -> 0

\* TaxEvaluation.compute_tax, in cents.
ComputeTax(amount, percent) ==
    IF percent <= 0 THEN 0 ELSE RoundHalfUp(amount * percent, 10000)

\* The rate the invoice locks: 1 for the base currency and for a currency
\* without a quoted rate (0 in rates).
LockedRate(target, rates) == IF target = Base \/ rates[target] = 0 THEN 100 ELSE rates[target]

\* A line's amount in the invoice's currency: rounded to cents when it is
\* converted, as it stands when it is not.
LineAmount(charge, target, rate) ==
    IF charge.currency # target /\ rate > 0
    THEN 100 * RoundHalfEven(charge.amount * rate, 10000) ELSE charge.amount

LineTax(charge, target, rate, percent) == ComputeTax(LineAmount(charge, target, rate), percent)

\* total_amount of a line, in cents.
LineTotal(charge, target, rate, percent) ==
    RoundHalfEven(LineAmount(charge, target, rate) + 100 * LineTax(charge, target, rate, percent), 100)

\* Sums over the lines in S (charge maps a line to its Charge).
Subtotal(S, charge, target, rate) ==
    SumFunctionOnSet([l \in S |-> LineAmount(charge[l], target, rate)], S)
TaxTotal(S, charge, target, rate, percent) ==
    SumFunctionOnSet([l \in S |-> LineTax(charge[l], target, rate, percent)], S)

\* grand_total, in cents: rounded from the sums, not added up from the lines.
GrandTotal(S, charge, target, rate, percent) ==
    RoundHalfEven(Subtotal(S, charge, target, rate) + 100 * TaxTotal(S, charge, target, rate, percent), 100)

-----------------------------------------------------------------------------
\* A line's amount before any rounding, in millionths.
Exact(charge, target, rate) ==
    charge.amount * (IF charge.currency # target /\ rate > 0 THEN rate ELSE 100)

LinesTotal(S, charge, target, rate, percent) ==
    SumFunctionOnSet([l \in S |-> LineTotal(charge[l], target, rate, percent)], S)

WholeCents(S, charge, target, rate) == \A l \in S : LineAmount(charge[l], target, rate) % 100 = 0

Within(a, b, n) == 2 * (a - b) <= n /\ 2 * (b - a) <= n

\* How far what generate_invoice prints adds up.  The grand total is the sum of
\* the line totals when every line comes to whole cents, and otherwise off by at
\* most half a cent a line and half a cent; the subtotal is within half a cent a
\* line of the exact conversion, and the grand total within half a cent a line
\* and half a cent of subtotal and exact tax.
TotalsAgree(S, charge, target, rate, percent) ==
    LET n == Cardinality(S)
        net == Subtotal(S, charge, target, rate)
        total == GrandTotal(S, charge, target, rate, percent)
        printed == LinesTotal(S, charge, target, rate, percent)
    IN  /\ WholeCents(S, charge, target, rate) => total = printed
        /\ Within(total, printed, n + 1)
        /\ Within(100 * net, SumFunctionOnSet([l \in S |-> Exact(charge[l], target, rate)], S), 10000 * n)
        /\ Within(10000 * total, (100 + percent) * net, 10000 * (n + 1))
=============================================================================
