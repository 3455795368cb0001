----------------------------- MODULE Quotations -----------------------------
(***************************************************************************)
(* Quotations of one customer: pricing, dispatch and the acceptance that     *)
(* turns a quotation into a job, a booking and a shipment                   *)
(* (app/modules/commercial/repository.py behind                            *)
(* app/api/v1/endpoints/commercial_quotations.py).                         *)
(*                                                                         *)
(* send_quotation and accept_quotation hold the quotation's row (SELECT ...  *)
(* FOR UPDATE) until they end; the customer's invoices, the rates and the    *)
(* count of jobs that accept_quotation reads are not locked.  Rates come and *)
(* go as module Rates describes; here a rate is valid (ACTIVE, in its dates, *)
(* with an approved version) or not.                                       *)
(***************************************************************************)
EXTENDS Integers, FiniteSets, FiniteSetsExt

CONSTANTS
    Quotes,         \* row ids of quotations
    RateIds,        \* rates of the lane the customer may use
    Category,       \* place of each rate in the order of rate categories
    Cost,           \* charge lines and surcharges of a rate, added up
    Markups,        \* markup_pct of POST /quotations, in percent
    Validity,       \* days a quotation is valid for (14)
    CreditLimit,    \* the customer's credit limit
    LastDay,        \* bound on the calendar
    Requests        \* HTTP requests that may be in flight together

ASSUME QuotationsAssumption ==
    /\ Category \in [RateIds -> Nat] /\ Cost \in [RateIds -> Nat]
    /\ Markups \subseteq Nat /\ CreditLimit \in Nat /\ Validity \in Nat /\ LastDay \in Nat
    /\ "none" \notin Quotes \cup RateIds /\ IsFiniteSet(Quotes)

VARIABLES
    today,
    valid,          \* rates that are valid now
    quote,          \* quotations table
    job,            \* sequence number of the quotation's job, 0 for none
    invoiced,       \* quotations whose shipment has been invoiced
    req,            \* the requests' sessions
    disturbed       \* history: acceptances in whose course a rate or the invoices changed

vars == <<today, valid, quote, job, invoiced, req, disturbed>>

QuoteStatus == {"NONE", "DRAFT", "BELOW_MARGIN", "SENT_TO_CUSTOMER", "ACCEPTED"}
QuoteRow == [status : QuoteStatus, rate : RateIds \cup {"none"}, total : Nat, expiry : Nat]
NoQuote == [status |-> "NONE", rate |-> "none", total |-> 0, expiry |-> 0]

Session == [pc : {"idle", "priced", "sending", "locked", "credit", "rates", "counted", "inserted"},
            q : Quotes \cup {"none"}, new : QuoteRow, number : Nat]
Idle == [pc |-> "idle", q |-> "none", new |-> NoQuote, number |-> 0]

Init ==
    /\ today = 0
    /\ valid = RateIds
    /\ quote = [q \in Quotes |-> NoQuote]
    /\ job = [q \in Quotes |-> 0]
    /\ invoiced = {}
    /\ req = [r \in Requests |-> Idle]
    /\ disturbed = {}

db == <<today, valid, quote, job, invoiced>>

-----------------------------------------------------------------------------
(* create_quotation                                                         *)

\* The valid rates of the lane, or the one the body names (rate_id).
Applicable(requested) == IF requested = "none" THEN valid ELSE valid \cap {requested}

\* The first of them in category order; rates of one category in any order.
Selectable(rt, requested) ==
    /\ rt \in Applicable(requested)
    /\ \A x \in Applicable(requested) : Category[rt] <= Category[x]

Sell(rt, markup) == (Cost[rt] * (100 + markup)) \div 100

\* margin_pct < 5
IsBelowMargin(rt, markup) == 100 * (Sell(rt, markup) - Cost[rt]) < 5 * Sell(rt, markup) \/ Sell(rt, markup) = 0

FirstStatus(rt, markup) == IF IsBelowMargin(rt, markup) THEN "BELOW_MARGIN" ELSE "DRAFT"

Price(r, q, rt, requested, markup, expiry) ==
    /\ req[r].pc = "idle"
    /\ quote[q] = NoQuote /\ \A x \in Requests : req[x].q # q
    /\ Selectable(rt, requested)
    /\ req' = [req EXCEPT ![r] = [Idle EXCEPT !.pc = "priced", !.q = q, !.new =
          [status |-> FirstStatus(rt, markup), rate |-> rt, total |-> Sell(rt, markup), expiry |-> expiry]]]
    /\ UNCHANGED <<db, disturbed>>

CommitQuotation(r) ==
    /\ req[r].pc = "priced"
    /\ quote' = [quote EXCEPT ![req[r].q] = req[r].new]
    /\ req' = [req EXCEPT ![r] = Idle]
    /\ UNCHANGED <<today, valid, job, invoiced, disturbed>>

-----------------------------------------------------------------------------
(* send_quotation                                                           *)

RowNeedsNoLock(q) == TRUE

\* with_for_update waits for the session that holds the row.
RowIsFree(q) == \A x \in Requests : req[x].q # q

Sendable(q) ==
    quote[q] # NoQuote /\ quote[q].status # "ACCEPTED" /\ quote[q].expiry >= today

LockForSend(r, q) ==
    /\ req[r].pc = "idle"
    /\ RowIsFree(q)
    /\ Sendable(q)
    /\ req' = [req EXCEPT ![r] = [Idle EXCEPT !.pc = "sending", !.q = q]]
    /\ UNCHANGED <<db, disturbed>>

CommitSend(r) ==
    /\ req[r].pc = "sending"
    /\ quote' = [quote EXCEPT ![req[r].q].status = "SENT_TO_CUSTOMER"]
    /\ req' = [req EXCEPT ![r] = Idle]
    /\ UNCHANGED <<today, valid, job, invoiced, disturbed>>

-----------------------------------------------------------------------------
(* accept_quotation                                                         *)

Acceptable(q) == quote[q] # NoQuote /\ quote[q].status # "ACCEPTED" /\ quote[q].expiry >= today

LockForAccept(r, q) ==
    /\ req[r].pc = "idle"
    /\ RowIsFree(q)
    /\ Acceptable(q)
    /\ req' = [req EXCEPT ![r] = [Idle EXCEPT !.pc = "locked", !.q = q]]
    /\ UNCHANGED <<db, disturbed>>

\* The customer's open invoices.  No operation takes an invoice to one of the
\* statuses PAID, VOID or CANCELLED that would leave it out.
SumOf(amounts) == MapThenSumSet(LAMBDA q : amounts[q], DOMAIN amounts)
Exposure == SumOf([q \in invoiced |-> quote[q].total])

WithinLimitAlone(q) == quote[q].total <= CreditLimit

WithinLimit(q) == Exposure + quote[q].total <= CreditLimit

\* r goes from one check of accept_quotation to the next.
Pass(r, from, to) ==
    /\ req[r].pc = from
    /\ req' = [req EXCEPT ![r].pc = to]
    /\ UNCHANGED <<db, disturbed>>

CheckCredit(r) == Pass(r, "locked", "credit") /\ WithinLimit(req[r].q)

CheckRates(r) == Pass(r, "credit", "rates") /\ quote[req[r].q].rate \in valid

JobCount == Cardinality({q \in Quotes : job[q] # 0})

CountJobs(r) ==
    /\ req[r].pc = "rates"
    /\ req' = [req EXCEPT ![r].pc = "counted", ![r].number = JobCount + 1]
    /\ UNCHANGED <<db, disturbed>>

NumberTakenTwice(n) == TRUE

\* The unique (tenant, job number).
NumberIsFree(n) == \A q \in Quotes : job[q] # n

\* INSERT of the job, of the booking and of the shipment; it waits for an
\* uncommitted job with the same number.
InsertJob(r) ==
    /\ Pass(r, "counted", "inserted")
    /\ NumberIsFree(req[r].number) /\ job[req[r].q] = 0
    /\ \A x \in Requests : ~(req[x].pc = "inserted" /\ req[x].number = req[r].number)

\* Job, booking, shipment, its revenue and cost lines, tasks and the event
\* booking.confirmed become visible together with the status.
CommitAccept(r) ==
    /\ req[r].pc = "inserted"
    /\ quote' = [quote EXCEPT ![req[r].q].status = "ACCEPTED"]
    /\ job' = [job EXCEPT ![req[r].q] = req[r].number]
    /\ req' = [req EXCEPT ![r] = Idle]
    /\ disturbed' = disturbed \ {r}
    /\ UNCHANGED <<today, valid, invoiced>>

\* A check that fails, a job number already taken, a lost connection.
Rollback(r) ==
    /\ req[r].pc # "idle"
    /\ req' = [req EXCEPT ![r] = Idle]
    /\ disturbed' = disturbed \ {r}
    /\ UNCHANGED db

-----------------------------------------------------------------------------
(* Requests to other components, and the calendar                           *)

\* The acceptances that may have read what is changed now.
Accepting == {r \in Requests : req[r].pc \in {"locked", "credit", "rates", "counted", "inserted"}}

\* generate_invoice for the job's shipment.
InvoiceJob(r, q) ==
    /\ req[r].pc = "idle"
    /\ job[q] # 0
    /\ invoiced' = invoiced \cup {q}
    /\ disturbed' = disturbed \cup Accepting
    /\ UNCHANGED <<today, valid, quote, job, req>>

\* transition_rate or the expiry task takes a rate out of use.
EndRate(r, rt) ==
    /\ req[r].pc = "idle"
    /\ rt \in valid
    /\ valid' = valid \ {rt}
    /\ disturbed' = disturbed \cup Accepting
    /\ UNCHANGED <<today, quote, job, invoiced, req>>

NextDay ==
    /\ today < LastDay
    /\ today' = today + 1
    /\ UNCHANGED <<valid, quote, job, invoiced, req, disturbed>>

Progress(r) ==
    \/ CommitQuotation(r) \/ CommitSend(r)
    \/ CheckCredit(r) \/ CheckRates(r) \/ CountJobs(r) \/ InsertJob(r) \/ CommitAccept(r)
    \/ Rollback(r)

Next ==
    \/ \E r \in Requests :
        \/ \E q \in Quotes :
            \/ \E rt \in RateIds, requested \in RateIds \cup {"none"}, m \in Markups,
                  expiry \in {today + Validity, LastDay} : Price(r, q, rt, requested, m, expiry)
            \/ LockForSend(r, q) \/ LockForAccept(r, q) \/ InvoiceJob(r, q)
        \/ \E rt \in RateIds : EndRate(r, rt)
        \/ Progress(r)
    \/ NextDay

Spec == Init /\ [][Next]_vars

-----------------------------------------------------------------------------
(* Properties                                                              *)

\* The tables and the sessions have their types.
TypeOK ==
    /\ today \in Nat /\ valid \subseteq RateIds /\ invoiced \subseteq Quotes
    /\ quote \in [Quotes -> QuoteRow]
    /\ job \in [Quotes -> Nat]
    /\ req \in [Requests -> Session]
    /\ disturbed \subseteq Requests

\* However requests interleave: a quotation is ACCEPTED exactly when it has its
\* job; no later dispatch and no second acceptance takes that back.
AcceptedIffJob == \A q \in Quotes : quote[q].status = "ACCEPTED" <=> job[q] # 0

\* However acceptances interleave: jobs are numbered 1, 2, 3, ... without a gap
\* and without a number given twice.
JobNumbersAreDense ==
    {job[q] : q \in {x \in Quotes : job[x] # 0}} = 1 .. JobCount

\* However requests interleave: an acceptance during which no rate ended and no
\* invoice was issued meets, at the moment it commits, what it checked: the rate
\* is valid, and the customer's open invoices and the total fit the limit.
AcceptedAsChecked ==
    [][\A r \in Requests \ disturbed : LET q == req[r].q IN
          req[r].pc = "inserted" /\ quote'[q].status = "ACCEPTED" =>
              Exposure + quote[q].total <= CreditLimit /\ quote[q].rate \in valid]_vars
=============================================================================
