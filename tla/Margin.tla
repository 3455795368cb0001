------------------------------- MODULE Margin -------------------------------
(***************************************************************************)
(* The negative-margin watch of a shipment: add_revenue_line, add_cost_line,*)
(* get_profitability and _sync_negative_margin_exception                   *)
(* (app/modules/financial/service.py), with the parts of the system that    *)
(* touch the same rows: the extra charges of record_payable and the agent   *)
(* settlements (app/modules/commercial/financial/service.py) in the cost    *)
(* ledger, and the exceptions users create and update                      *)
(* (app/modules/exceptions/service.py).                                    *)
(*                                                                         *)
(* A request inserts its line, sums the revenue lines, sums the cost lines, *)
(* looks for the open exception and commits; each SELECT sees what others   *)
(* have committed by then, plus the request's own line.  An UPDATE of an    *)
(* exception names the columns that differ from the copy loaded before.     *)
(***************************************************************************)
EXTENDS Integers, FiniteSets

CONSTANTS
    Requests,       \* HTTP requests that may be in flight together
    Amounts,        \* amounts of ledger lines, in the ledgers' own unit (four decimals)
    HalfCent,       \* half a cent in that unit
    MaxSum,         \* bound on either ledger's sum
    Exceptions,     \* row ids of shipment_exceptions (type CARGO_LOSS)
    UserStatuses    \* statuses users set through update_exception

VARIABLES
    revenue,        \* sum of the revenue lines
    cost,           \* sum of the cost lines
    exc,            \* the shipment's CARGO_LOSS exceptions
    req,            \* the requests' sessions
    overlapped      \* history: whether two requests have been in flight together

vars == <<revenue, cost, exc, req, overlapped>>

OpenStatus == {"OPEN", "ACKNOWLEDGED", "UNDER_INVESTIGATION"}
ExcStatus == OpenStatus \cup {"NONE", "RESOLVED", "CLOSED"}

ASSUME MarginAssumption ==
    /\ Amounts \subseteq Nat /\ MaxSum \in Nat /\ HalfCent \in Nat \ {0}
    /\ UserStatuses \subseteq ExcStatus \ {"NONE"}

\* resolved: whether resolved_at is set.
ExceptionRow == [status : ExcStatus, resolved : BOOLEAN]
NoException == [status |-> "NONE", resolved |-> FALSE]

\* A session: the line added, the sums seen, the exception it loaded and the
\* status it decided on ("none": it leaves the status alone).
Session == [pc : {"idle", "inserted", "revenue", "cost", "synced", "updating"}, kind : {"revenue", "cost"},
            amount : Nat, revenue : Nat, cost : Nat,
            status : ExcStatus \cup {"none"}, x : Exceptions \cup {"none"}, seen : ExceptionRow]
Idle == [pc |-> "idle", kind |-> "revenue", amount |-> 0, revenue |-> 0, cost |-> 0,
         status |-> "none", x |-> "none", seen |-> NoException]

Init ==
    /\ revenue = 0 /\ cost = 0
    /\ exc = [x \in Exceptions |-> NoException]
    /\ req = [r \in Requests |-> Idle]
    /\ overlapped = FALSE

OpenExceptions == {x \in Exceptions : exc[x].status \in OpenStatus}

\* An id no row and no session has.
Unused(x) == exc[x] = NoException /\ \A q \in Requests : req[q].x # x

\* A request that begins while another is in flight.
Overlaps == overlapped' = (overlapped \/ \E q \in Requests : req[q].pc # "idle")

-----------------------------------------------------------------------------
AddLine(r, kind, amount) ==
    /\ req[r].pc = "idle"
    /\ req' = [req EXCEPT ![r] = [Idle EXCEPT !.pc = "inserted", !.kind = kind, !.amount = amount]]
    /\ Overlaps
    /\ UNCHANGED <<revenue, cost, exc>>

Own(s, kind) == IF s.kind = kind THEN s.amount ELSE 0

SumRevenue(r) ==
    /\ req[r].pc = "inserted"
    /\ req' = [req EXCEPT ![r].pc = "revenue", ![r].revenue = revenue + Own(req[r], "revenue")]
    /\ UNCHANGED <<revenue, cost, exc, overlapped>>

SumCost(r) ==
    /\ req[r].pc = "revenue"
    /\ req' = [req EXCEPT ![r].pc = "cost", ![r].cost = cost + Own(req[r], "cost")]
    /\ UNCHANGED <<revenue, cost, exc, overlapped>>

Loss(s) == s.cost - s.revenue

VerdictsByMargin(s) == {negative \in BOOLEAN : negative <=> (s.revenue > 0 /\ Loss(s) > HalfCent)}

\* is_negative: the profit, a difference of sums of floats, is rounded to cents
\* before it is compared with 0.  A loss under half a cent is none; half a cent
\* may fall on either side.
Verdicts(s) ==
    {negative \in BOOLEAN : (Loss(s) > HalfCent => negative) /\ (Loss(s) < HalfCent => ~negative)}

\* scalar_one_or_none: more than one open exception raises, so the request can
\* only roll back.
SyncException(r) ==
    LET s == req[r]
    IN  /\ s.pc = "cost"
        /\ Cardinality(OpenExceptions) <= 1
        /\ \E negative \in Verdicts(s) :
              \/ /\ negative /\ OpenExceptions = {}
                 /\ \E x \in Exceptions :
                      /\ Unused(x)
                      /\ req' = [req EXCEPT ![r].pc = "synced", ![r].status = "OPEN", ![r].x = x]
              \/ \E x \in OpenExceptions :
                   req' = [req EXCEPT ![r].pc = "synced", ![r].x = x, ![r].seen = exc[x],
                                      ![r].status = IF negative THEN "none" ELSE "RESOLVED"]
              \/ /\ ~negative /\ OpenExceptions = {}
                 /\ req' = [req EXCEPT ![r].pc = "synced"]
        /\ UNCHANGED <<revenue, cost, exc, overlapped>>

AfterStatusOnly(s, row) == [row EXCEPT !.status = IF s.status \in {"none", s.seen.status} THEN @ ELSE s.status]

\* The exception's row once the session has committed.
After(s, row) ==
    [status   |-> IF s.status \in {"none", s.seen.status} THEN row.status ELSE s.status,
     resolved |-> row.resolved \/ s.status \in {"RESOLVED", "CLOSED"}]

\* The bounds cap the sums.
Commit(r) ==
    LET s == req[r]
    IN  /\ s.pc \in {"synced", "updating"}
        /\ revenue' = revenue + Own(s, "revenue") /\ revenue' <= MaxSum
        /\ cost' = cost + Own(s, "cost") /\ cost' <= MaxSum
        /\ exc' = [x \in Exceptions |-> IF x = s.x THEN After(s, exc[x]) ELSE exc[x]]
        /\ req' = [req EXCEPT ![r] = Idle]
        /\ UNCHANGED overlapped

Rollback(r) ==
    /\ req[r].pc # "idle"
    /\ req' = [req EXCEPT ![r] = Idle]
    /\ UNCHANGED <<revenue, cost, exc, overlapped>>

\* record_payable's ADDITIONAL_CHARGE: a cost line with no sync after it.
BillCharge(r, amount) ==
    /\ req[r].pc = "idle"
    /\ cost + amount <= MaxSum
    /\ cost' = cost + amount
    /\ Overlaps
    /\ UNCHANGED <<revenue, exc, req>>

\* calculate_agent_settlement: a cost line of the agent's vendor, of 0 without an
\* agreement and none without a vendor, with no sync after it either.
SettleAgent(r, amount) ==
    /\ req[r].pc = "idle"
    /\ cost + amount <= MaxSum
    /\ cost' = cost + amount
    /\ Overlaps
    /\ UNCHANGED <<revenue, exc, req>>

\* create_exception: a user reports a loss of cargo.  The escalations it works
\* out at once are part of the answer only.
CreateException(r, x) ==
    /\ req[r].pc = "idle"
    /\ Unused(x)
    /\ exc' = [exc EXCEPT ![x].status = "OPEN"]
    /\ Overlaps
    /\ UNCHANGED <<revenue, cost, req>>

\* update_exception takes any valid status, whatever the current one, and sets
\* resolved_at with the first RESOLVED or CLOSED.
UpdateException(r, x, status) ==
    /\ req[r].pc = "idle"
    /\ exc[x] # NoException
    /\ req' = [req EXCEPT ![r] = [Idle EXCEPT !.pc = "updating", !.x = x, !.seen = exc[x], !.status = status]]
    /\ Overlaps
    /\ UNCHANGED <<revenue, cost, exc>>

Next ==
    \E r \in Requests :
        \/ \E kind \in {"revenue", "cost"}, a \in Amounts : AddLine(r, kind, a)
        \/ SumRevenue(r) \/ SumCost(r) \/ SyncException(r) \/ Commit(r) \/ Rollback(r)
        \/ \E a \in Amounts : BillCharge(r, a)
        \/ \E a \in Amounts \cup {0} : SettleAgent(r, a)
        \/ \E x \in Exceptions : CreateException(r, x)
        \/ \E x \in Exceptions, status \in UserStatuses : UpdateException(r, x, status)

Spec == Init /\ [][Next]_vars

-----------------------------------------------------------------------------
(* Properties                                                              *)

\* Sums, rows and sessions have their types.
TypeOK ==
    /\ revenue \in Nat /\ cost \in Nat
    /\ exc \in [Exceptions -> ExceptionRow]
    /\ req \in [Requests -> Session]
    /\ overlapped \in BOOLEAN

\* While requests come one after the other, every ledger line added leaves one
\* open exception when the shipment loses more than half a cent, none when it
\* loses less, and at most one at exactly that, whatever charges payables and
\* settlements added and whatever users did to the exceptions in between.
SyncRestoresFlag ==
    [][\A r \in Requests :
          ~overlapped /\ req[r].pc = "synced" /\ req'[r].pc = "idle" /\ <<revenue, cost>>' # <<revenue, cost>> =>
              /\ Cardinality(OpenExceptions') <= 1
              /\ cost' - revenue' > HalfCent => OpenExceptions' # {}
              /\ cost' - revenue' < HalfCent => OpenExceptions' = {}]_vars

\* However users, ledger lines and the watch write the same row: an exception
\* that is RESOLVED or CLOSED has the date of it.
ClosedIsDated == \A x \in Exceptions : exc[x].status \in {"RESOLVED", "CLOSED"} => exc[x].resolved
=============================================================================
