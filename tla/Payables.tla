------------------------------ MODULE Payables ------------------------------
(***************************************************************************)
(* Accounts payable: carrier and vendor bills, their verification against   *)
(* the shipment's cost ledger, approval and payment                         *)
(* (app/modules/payables/service.py behind app/api/v1/endpoints/payables.py)*)
(*                                                                         *)
(* One HTTP request is one SQLAlchemy session and one PostgreSQL READ       *)
(* COMMITTED transaction.  Nothing in this component takes a row lock when  *)
(* it reads, so a request is modelled in the steps at which other requests  *)
(* can get between:                                                        *)
(*   load    the SELECT of the payable and the guards on that copy;         *)
(*   sum     (payments only) the SELECT of the payments already recorded;   *)
(*   flush   the autoflushed UPDATE of the payable, which holds its row     *)
(*           until the transaction ends, and the SELECT of the cost lines;  *)
(*   commit  the endpoint's session.commit(), when everything becomes       *)
(*           visible at once.                                              *)
(* A request that raises, or whose transaction the database aborts, leaves  *)
(* no trace: get_db closes the session without a commit.                   *)
(***************************************************************************)
EXTENDS Integers, FiniteSets, Sequences

CONSTANTS
    Bills,          \* payables, identified by their bill number
    CostLines,      \* row ids of the shipment's cost ledger
    Codes,          \* charge codes
    Requests,       \* HTTP requests that may be in flight together
    Estimates,      \* cost lines present at first: a partial function
    BillInputs,     \* bodies POST /payables may carry: [lines, tax]
    PayAmounts,     \* amounts POST /payables/{id}/pay may carry
    MaterialAmount, \* 100.0 in verify_payable
    MaterialPercent,\* 10 (0.10) in verify_payable
    MaxExceptions   \* bound on the COST_VARIANCE exceptions of one bill

VARIABLES
    bill,           \* payables table, by bill number
    costLine,       \* cost_lines table
    paidSum,        \* sum of the bill's payable_payments rows
    credited,       \* ACCOUNTS_PAYABLE credit posted for the bill
    debited,        \* AP_PAYMENT debit posted for the bill
    variances,      \* COST_VARIANCE exceptions opened for the bill
    req,            \* the requests' sessions
    crossed         \* history: pairs of bills whose requests met in flight

vars == <<bill, costLine, paidSum, credited, debited, variances, req, crossed>>

CostStatus == {"NONE", "ESTIMATED", "ACCRUED", "BILLED", "VERIFIED", "APPROVED", "PAID"}
BillStatus == {"NONE", "RECEIVED", "VERIFIED", "APPROVED", "PARTIALLY_PAID", "PAID"}
LineStatus == {"MATCHED", "OVER_BILLED", "UNDER_BILLED", "ADDITIONAL_CHARGE", "VERIFIED"}

-----------------------------------------------------------------------------
(* Rows and sessions.  status = "NONE" is a row that does not exist.        *)

Line == [code : Codes \cup {"none"}, amount : Nat, status : CostStatus]
PayableLine == [cl : CostLines, status : LineStatus]
BillRow == [status : BillStatus, verification : {"PENDING", "VARIANCE_DETECTED", "VERIFIED"},
            approval : {"PENDING", "APPROVED"}, total : Nat, variance : Int, paid : Nat,
            lines : Seq(PayableLine)]
TodoLine == [code : Codes, id : CostLines \cup {"none"}, amount : Nat]

ASSUME PayablesAssumption ==
    /\ DOMAIN Estimates \subseteq CostLines
    /\ \A c \in DOMAIN Estimates :
          Estimates[c] \in [code : Codes, amount : Nat, status : {"ESTIMATED", "ACCRUED"}]
    /\ \A i \in BillInputs : i.tax \in Nat /\ i.lines \in Seq(TodoLine) /\ i.lines # <<>>
    /\ PayAmounts \subseteq Nat
    /\ MaxExceptions \in Nat

NoLine == [code |-> "none", amount |-> 0, status |-> "NONE"]
NoBill == [status |-> "NONE", verification |-> "PENDING", approval |-> "PENDING",
           total |-> 0, variance |-> 0, paid |-> 0, lines |-> <<>>]
NoLines == [c \in CostLines |-> NoLine]

\* A session: how far the request is (pc), the payable as loaded (row) and as
\* changed in the session (new), the payments seen, the cost lines loaded
\* (snap) and changed (writes; a NONE entry is no change), the bill lines
\* still to be matched (todo).
Session == [pc : {"idle", "loaded", "matching", "checked", "flushed", "raised"},
            op : {"none", "record", "verify", "approve", "pay"},
            b : Bills \cup {"none"}, row : BillRow, new : BillRow,
            amount : Nat, snap : [CostLines -> Line], writes : [CostLines -> Line],
            todo : Seq(TodoLine)]

Idle == [pc |-> "idle", op |-> "none", b |-> "none", row |-> NoBill, new |-> NoBill,
         amount |-> 0, snap |-> NoLines, writes |-> NoLines, todo |-> <<>>]

\* What the history of requests that met is made of.
BillSets == SUBSET (Bills \cup {"none"})

Abs(n) == IF n < 0 THEN -n ELSE n

\* Column-wise UPDATE: SQLAlchemy writes an attribute only when its value
\* differs from the one the session loaded, so assigning the loaded value
\* leaves what another transaction committed meanwhile.
Written(current, loaded, new) == IF new = loaded THEN current ELSE new

Exists(b) == bill[b].status # "NONE"
LinesOf(row) == {row.lines[k].cl : k \in DOMAIN row.lines}

Init ==
    /\ bill = [b \in Bills |-> NoBill]
    /\ costLine = [c \in CostLines |-> IF c \in DOMAIN Estimates THEN Estimates[c] ELSE NoLine]
    /\ paidSum = [b \in Bills |-> 0]
    /\ credited = [b \in Bills |-> 0]
    /\ debited = [b \in Bills |-> 0]
    /\ variances = [b \in Bills |-> 0]
    /\ req = [r \in Requests |-> Idle]
    /\ crossed = {}

db == <<bill, costLine, paidSum, credited, debited, variances>>

\* The pairs of bills whose requests meet when one on bill b begins: b with the
\* bill of each request in flight, {b} when that is b itself.  The properties
\* that only hold for requests that come one after the other leave out what
\* such pairs can disturb, and nothing else.
Meeting(b) == {{b, req[q].b} : q \in {x \in Requests : req[x].pc # "idle"}}

-----------------------------------------------------------------------------
(* record_payable                                                           *)

\* cost_lines_map keeps one row per charge code; the SELECT has no ORDER BY, so
\* which one of several rows of a code it keeps is open.
Resolved(line, id) ==
    LET rows == {c \in CostLines : costLine[c].status # "NONE" /\ costLine[c].code = line.code}
    IN  IF line.id # "none" THEN id = line.id
        ELSE IF rows = {} THEN id = "none" ELSE id \in rows

\* Duplicate check, then the SELECT of every cost line of the shipment.
LoadRecord(r, b, input) ==
    /\ req[r].pc = "idle"
    /\ ~Exists(b)
    /\ \E ids \in [DOMAIN input.lines -> CostLines \cup {"none"}] :
        /\ \A k \in DOMAIN input.lines : Resolved(input.lines[k], ids[k])
        /\ \A j, k \in DOMAIN input.lines :
              /\ input.lines[j].code = input.lines[k].code
              /\ input.lines[j].id = "none" /\ input.lines[k].id = "none"
              => ids[j] = ids[k]
        /\ req' = [req EXCEPT ![r] =
              [Idle EXCEPT !.pc = "matching", !.op = "record", !.b = b, !.snap = costLine,
                           !.new = [NoBill EXCEPT !.total = input.tax],
                           !.todo = [k \in DOMAIN input.lines |->
                                       [code |-> input.lines[k].code, id |-> ids[k],
                                        amount |-> input.lines[k].amount]]]]
    /\ crossed' = crossed \cup Meeting(b)
    /\ UNCHANGED db

MatchStatus(variance) ==
    IF variance = 0 THEN "MATCHED" ELSE IF variance > 0 THEN "OVER_BILLED" ELSE "UNDER_BILLED"

\* The session with one more bill line, on cost line c, in the given status.
WithLine(s, c, line, variance, status, written) ==
    [s EXCEPT !.todo = Tail(s.todo), !.writes[c] = written,
              !.new = [s.new EXCEPT !.total = @ + line.amount, !.variance = @ + variance,
                                    !.lines = Append(@, [cl |-> c, status |-> status])]]

\* A row the session loaded before keeps the values it was loaded with.
Seen(s, c) == IF s.snap[c].status # "NONE" THEN s.snap[c] ELSE costLine[c]
Variance(s, c) == Head(s.todo).amount - Seen(s, c).amount
Billed(s, c) == IF Seen(s, c).status \in {"ESTIMATED", "ACCRUED"}
                THEN [Seen(s, c) EXCEPT !.status = "BILLED"] ELSE s.writes[c]

\* One iteration of the loop over the bill's lines, for a line that has a cost
\* line.
MatchLine(r) ==
    LET s == req[r]
    IN  /\ s.pc = "matching" /\ s.todo # <<>>
        /\ Head(s.todo).amount > 0
        /\ \E c \in CostLines :
            /\ c = Head(s.todo).id
            /\ Seen(s, c).status # "NONE"
            /\ req' = [req EXCEPT ![r] =
                 WithLine(s, c, Head(s.todo), Variance(s, c), MatchStatus(Variance(s, c)), Billed(s, c))]
        /\ UNCHANGED <<db, crossed>>

\* One iteration for a charge the cost ledger does not hold: a new cost line.
AddCharge(r) ==
    LET s == req[r]
        line == Head(s.todo)
        charge == [code |-> line.code, amount |-> line.amount, status |-> "BILLED"]
    IN  /\ s.pc = "matching" /\ s.todo # <<>>
        /\ line.amount > 0
        /\ line.id = "none"
        /\ \E c \in CostLines :
            /\ costLine[c].status = "NONE"
            /\ \A q \in Requests : req[q].writes[c].status = "NONE"
            /\ req' = [req EXCEPT ![r] =
                 WithLine(s, c, line, line.amount, "ADDITIONAL_CHARGE", charge)]
        /\ UNCHANGED <<db, crossed>>

\* INSERT of the payable: the unique (tenant, bill number) makes it wait for an
\* uncommitted insert of the same number and fail once that is committed.
InsertPayable(r) ==
    /\ req[r].pc = "matching" /\ req[r].todo = <<>>
    /\ ~Exists(req[r].b)
    /\ \A q \in Requests : req[q].pc = "flushed" => req[q].b # req[r].b
    /\ req' = [req EXCEPT ![r].pc = "flushed", ![r].new.status = "RECEIVED", ![r].snap = NoLines]
    /\ UNCHANGED <<db, crossed>>

-----------------------------------------------------------------------------
(* verify_payable, approve_payable, record_payment                          *)

IsMaterial(row) ==
    \/ Abs(row.variance) > MaterialAmount
    \/ row.total > 0 /\ 100 * Abs(row.variance) > MaterialPercent * row.total

Verifiable(b) == Exists(b) /\ bill[b].status \notin {"APPROVED", "PAID"}

Loaded(b, op, pc, new) ==
    [Idle EXCEPT !.pc = pc, !.op = op, !.b = b, !.row = bill[b], !.new = new]

LoadVerify(r, b, allow) ==
    /\ req[r].pc = "idle"
    /\ Verifiable(b)
    /\ IsMaterial(bill[b]) => allow
    /\ bill[b].variance # 0 => variances[b] < MaxExceptions
    /\ req' = [req EXCEPT ![r] = Loaded(b, "verify", "checked",
                 [bill[b] EXCEPT !.verification = "VERIFIED", !.status = "VERIFIED",
                                 !.lines = [k \in DOMAIN @ |-> [@[k] EXCEPT !.status = "VERIFIED"]]])]
    /\ crossed' = crossed \cup Meeting(b)
    /\ UNCHANGED db

\* A material variance nobody allowed: the exception and VARIANCE_DETECTED are
\* flushed to the transaction, then ValidationError is raised.
DetectVariance(r, b) ==
    /\ req[r].pc = "idle"
    /\ Verifiable(b)
    /\ IsMaterial(bill[b])
    /\ req' = [req EXCEPT ![r] = Loaded(b, "verify", "raised",
                 [bill[b] EXCEPT !.verification = "VARIANCE_DETECTED"])]
    /\ crossed' = crossed \cup Meeting(b)
    /\ UNCHANGED db

ApprovableTwice(b) == Exists(b) /\ bill[b].verification = "VERIFIED"

Approvable(b) ==
    Exists(b) /\ bill[b].approval # "APPROVED" /\ bill[b].verification = "VERIFIED"

LoadApprove(r, b) ==
    /\ req[r].pc = "idle"
    /\ Approvable(b)
    /\ req' = [req EXCEPT ![r] = Loaded(b, "approve", "checked",
                 [bill[b] EXCEPT !.approval = "APPROVED", !.status = "APPROVED"])]
    /\ crossed' = crossed \cup Meeting(b)
    /\ UNCHANGED db

PayableOnceVerified(b) == bill[b].status \in {"VERIFIED", "APPROVED", "PARTIALLY_PAID"}

AcceptsPayment(b) == bill[b].status \in {"APPROVED", "PARTIALLY_PAID"}

LoadPay(r, b, amount) ==
    /\ req[r].pc = "idle"
    /\ amount > 0
    /\ AcceptsPayment(b)
    /\ req' = [req EXCEPT ![r] = [Loaded(b, "pay", "loaded", bill[b]) EXCEPT !.amount = amount]]
    /\ crossed' = crossed \cup Meeting(b)
    /\ UNCHANGED db

FitsIfAnyRemains(total, existing, amount) == total - existing > 0

FitsBalance(total, existing, amount) ==
    total - existing > 0 /\ amount <= total - existing

StatusOnAnyPayment(total, paid) == IF paid > 0 THEN "PAID" ELSE "PARTIALLY_PAID"

StatusOncePaid(total, paid) == IF paid >= total THEN "PAID" ELSE "PARTIALLY_PAID"

\* The sum of the payments recorded so far, and the check against the rest.
SumPayments(r) ==
    LET s == req[r]
        existing == paidSum[s.b]
    IN  /\ s.pc = "loaded"
        /\ FitsBalance(s.row.total, existing, s.amount)
        /\ req' = [req EXCEPT ![r].pc = "checked",
                     ![r].new.paid = existing + s.amount,
                     ![r].new.status = StatusOncePaid(s.row.total, existing + s.amount)]
        /\ UNCHANGED <<db, crossed>>

AdvanceWithoutApproval(s, status) ==
    CASE s.op = "verify" /\ status = "BILLED" -> "VERIFIED"
      [] s.op = "pay" /\ s.new.status = "PAID" /\ status = "APPROVED" -> "PAID"
      [] OTHER -> status

AdvanceOnPartPayment(s, status) ==
    CASE s.op = "verify" /\ status = "BILLED" -> "VERIFIED"
      [] s.op = "approve" /\ status = "VERIFIED" -> "APPROVED"
      [] s.op = "pay" /\ status = "APPROVED" -> "PAID"
      [] OTHER -> status

\* The step of a cost line that goes with the operation.
Advance(s, status) ==
    CASE s.op = "verify" /\ status = "BILLED" -> "VERIFIED"
      [] s.op = "approve" /\ status = "VERIFIED" -> "APPROVED"
      [] s.op = "pay" /\ s.new.status = "PAID" /\ status = "APPROVED" -> "PAID"
      [] OTHER -> status

\* The payable's UPDATE takes its row; the cost lines are read after it.
Flush(r) ==
    LET s == req[r]
    IN  /\ s.pc = "checked"
        /\ \A q \in Requests : req[q].pc = "flushed" => req[q].b # s.b
        /\ req' = [req EXCEPT ![r].pc = "flushed", ![r].writes =
              [c \in CostLines |->
                 IF c \in LinesOf(s.row) /\ Advance(s, costLine[c].status) # costLine[c].status
                 THEN [costLine[c] EXCEPT !.status = Advance(s, @)] ELSE NoLine]]
        /\ UNCHANGED <<db, crossed>>

\* The row the payables table holds once session s has committed.
Committed(s) ==
    IF s.op = "record" THEN s.new
    ELSE [bill[s.b] EXCEPT
            !.status = Written(@, s.row.status, s.new.status),
            !.verification = Written(@, s.row.verification, s.new.verification),
            !.approval = Written(@, s.row.approval, s.new.approval),
            !.paid = Written(@, s.row.paid, s.new.paid),
            !.lines = IF s.op = "verify" THEN s.new.lines ELSE @]

Commit(r) ==
    LET s == req[r]
    IN  /\ s.pc = "flushed"
        /\ bill' = [bill EXCEPT ![s.b] = Committed(s)]
        /\ costLine' = [c \in CostLines |->
              IF s.writes[c].status = "NONE" THEN costLine[c] ELSE s.writes[c]]
        /\ paidSum' = [paidSum EXCEPT ![s.b] = @ + s.amount]
        /\ debited' = [debited EXCEPT ![s.b] = @ + s.amount]
        /\ credited' = [credited EXCEPT ![s.b] = IF s.op = "approve" THEN @ + s.row.total ELSE @]
        /\ variances' = [variances EXCEPT ![s.b] =
              IF s.op = "verify" /\ s.row.variance # 0 THEN @ + 1 ELSE @]
        /\ req' = [req EXCEPT ![r] = Idle]
        /\ UNCHANGED crossed

\* get_db closes the session of a request that did not reach its commit: an
\* exception on the way (a material variance, a refused balance, an unknown
\* cost line, a taken bill number), a deadlock the database breaks, a lost
\* connection.
Rollback(r) ==
    /\ req[r].pc # "idle"
    /\ req' = [req EXCEPT ![r] = Idle]
    /\ UNCHANGED <<db, crossed>>

-----------------------------------------------------------------------------
Begin(r) ==
    \E b \in Bills :
        \/ \E i \in BillInputs : LoadRecord(r, b, i)
        \/ \E allow \in BOOLEAN : LoadVerify(r, b, allow)
        \/ DetectVariance(r, b)
        \/ LoadApprove(r, b)
        \/ \E a \in PayAmounts : LoadPay(r, b, a)

Proceed(r) ==
    \/ MatchLine(r) \/ AddCharge(r) \/ InsertPayable(r)
    \/ SumPayments(r) \/ Flush(r) \/ Commit(r) \/ Rollback(r)

Next == \E r \in Requests : Begin(r) \/ Proceed(r)

Spec == Init /\ [][Next]_vars

-----------------------------------------------------------------------------
(* Properties                                                              *)

\* The tables hold rows of their types and the sessions are sessions.
TypeOK ==
    /\ bill \in [Bills -> BillRow]
    /\ costLine \in [CostLines -> Line]
    /\ paidSum \in [Bills -> Nat]
    /\ credited \in [Bills -> Nat]
    /\ debited \in [Bills -> Nat]
    /\ variances \in [Bills -> Nat]
    /\ req \in [Requests -> Session]
    /\ crossed \subseteq BillSets

\* However requests interleave: a bill record_payment left PAID has payments
\* for all of its total (the sum it read can only have grown since).
PaidIsCovered == \A b \in Bills : bill[b].status = "PAID" => paidSum[b] >= bill[b].total

\* However requests interleave: paid_amount, which the last writer wins, never
\* claims more than the bill or than the payments recorded.
PaidAmountIsSound == \A b \in Bills : bill[b].paid <= bill[b].total /\ bill[b].paid <= paidSum[b]

\* However requests interleave: no payment is recorded on a bill whose
\* liability approve_payable has not posted.
RecognisedBeforePaid ==
    \A b \in Bills : paidSum[b] > 0 =>
        bill[b].approval = "APPROVED" /\ credited[b] >= bill[b].total

\* However requests interleave: a cost line is APPROVED only on the strength of
\* an approved bill, PAID only of a fully paid one.
CostLineIsBacked ==
    \A c \in CostLines :
        /\ costLine[c].status \in {"APPROVED", "PAID"} =>
             \E b \in Bills : c \in LinesOf(bill[b]) /\ bill[b].approval = "APPROVED"
        /\ costLine[c].status = "PAID" =>
             \E b \in Bills : c \in LinesOf(bill[b]) /\ paidSum[b] >= bill[b].total

\* The liability of a bill is posted once (approve_payable refuses an approved
\* bill) and the ledger, the payments and paid_amount agree, unless two requests
\* on that same bill met; requests on other bills may overlap with them freely.
LedgerAgrees ==
    \A b \in Bills : {b} \notin crossed =>
        /\ credited[b] = IF bill[b].approval = "APPROVED" THEN bill[b].total ELSE 0
        /\ debited[b] = bill[b].paid /\ bill[b].paid = paidSum[b]
        /\ bill[b].status = "PAID" <=> bill[b].paid > 0 /\ bill[b].paid = bill[b].total

\* A request on bill b met one on a bill that has cost line c too, or b's own.
Contended(b, c) == \E x \in Bills : {b, x} \in crossed /\ c \in LinesOf(bill[x])

\* The cost ledger follows the bill: an approved bill has no cost line behind
\* APPROVED and a paid bill none behind PAID, unless requests on two bills of
\* that very line met.  Requests on bills that do not have the line may overlap
\* with them, and other bills of the line may race with each other.
CostLedgerFollows ==
    \A b \in Bills : \A c \in LinesOf(bill[b]) : ~Contended(b, c) =>
        /\ bill[b].approval = "APPROVED" => costLine[c].status \in {"APPROVED", "PAID"}
        /\ bill[b].status = "PAID" => costLine[c].status = "PAID"
=============================================================================
