----------------------------- MODULE Invoicing ------------------------------
(***************************************************************************)
(* Customer invoicing: generation from the shipment's revenue ledger,       *)
(* approval, dispatch, credit and debit notes                              *)
(* (app/modules/invoicing/service.py behind app/api/v1/endpoints/invoices.py)*)
(*                                                                         *)
(* A request is a READ COMMITTED transaction in the steps other requests    *)
(* can get between: the SELECTs that fill its session, the count() that     *)
(* gives the next document number, the flush that takes rows or inserts     *)
(* the numbered document, and the endpoint's commit.  No read takes a lock. *)
(* Document numbers are unique per tenant, so an invoice is identified by   *)
(* its number; credit and debit notes are kept as their count and the       *)
(* amounts they add up to on each invoice.                                 *)
(***************************************************************************)
EXTENDS InvoiceAmounts

CONSTANTS
    RevLines,       \* row ids of the shipment's revenue ledger
    Charges,        \* amount (in ten-thousandths) and currency of each revenue line
    FirstStatus,    \* status each revenue line was added with
    MaxInvoices,    \* bound on the invoices of the tenant
    Bodies,         \* bodies of POST /invoices: [currency, jurisdiction]
    Rates,          \* exchange rates on file, 0 for none
    NoteAmounts,    \* amounts of credit and debit notes, in cents
    Threshold,      \* settings.invoice_approval_threshold (5000.0), in cents
    MaxNotes,       \* bound on credit notes, and on debit notes
    MaxSends,       \* bound on the dispatches of one invoice
    Requests        \* HTTP requests that may be in flight together

Numbers == 1 .. MaxInvoices

VARIABLES
    invoice,        \* invoices table, by number
    revStatus,      \* status column of revenue_lines
    noteCount,      \* rows of credit_notes and of debit_notes
    creditSum,      \* credit notes issued on an invoice
    debitSum,       \* debit notes issued on an invoice
    sends,          \* invoice.sent events enqueued for an invoice
    signedOff,      \* invoices with an invoice.approved audit row
    req,            \* the requests' sessions
    overlapped      \* history: whether two requests have been in flight together

db == <<invoice, revStatus, noteCount, creditSum, debitSum, sends, signedOff>>
vars == <<db, req, overlapped>>

InvoiceStatus == {"NONE", "PENDING_APPROVAL", "APPROVED", "SENT", "CREDITED"}
RevStatus == {"ESTIMATED", "QUOTED", "INVOICED", "PAID"}
Approval == {"PENDING", "APPROVED"}

Total(lines, body) ==
    GrandTotal(lines, Charges, body.currency, LockedRate(body.currency, Rates),
               TaxRate(body.jurisdiction))

ASSUME InvoicingAssumption ==
    /\ FirstStatus \in [RevLines -> RevStatus]
    /\ MaxInvoices \in Nat /\ Threshold \in Nat
    /\ IsFiniteSet(RevLines) /\ Charges \in [RevLines -> [amount : Nat, currency : STRING]]
    /\ \A body \in Bodies : body.currency # Base => Rates[body.currency] \in Nat
    /\ NoteAmounts \subseteq Nat
    /\ MaxNotes \in Nat /\ MaxSends \in Nat

InvoiceRow == [status : InvoiceStatus, approval : Approval, total : Nat, lines : SUBSET RevLines]
NoInvoice == [status |-> "NONE", approval |-> "PENDING", total |-> 0, lines |-> {}]

\* A session: the invoice as loaded (row) and as changed (new), the amount of
\* the note, the sequence number counted.
Session == [pc : {"idle", "loaded", "summed", "numbered", "flushed"},
            op : {"none", "generate", "approve", "send", "credit", "debit"},
            i : Numbers \cup {0}, row : InvoiceRow, new : InvoiceRow, amount : Nat, seq : Nat]
Idle == [pc |-> "idle", op |-> "none", i |-> 0, row |-> NoInvoice, new |-> NoInvoice,
         amount |-> 0, seq |-> 0]

Exists(i) == invoice[i].status # "NONE"
Count == Cardinality({i \in Numbers : Exists(i)})

Init ==
    /\ invoice = [i \in Numbers |-> NoInvoice]
    /\ revStatus = FirstStatus
    /\ noteCount = [credit |-> 0, debit |-> 0]
    /\ creditSum = [i \in Numbers |-> 0]
    /\ debitSum = [i \in Numbers |-> 0]
    /\ sends = [i \in Numbers |-> 0]
    /\ signedOff = {}
    /\ req = [r \in Requests |-> Idle]
    /\ overlapped = FALSE

\* A request that begins while another is in flight.
Overlaps == overlapped' = (overlapped \/ \E q \in Requests : req[q].pc # "idle")

-----------------------------------------------------------------------------
(* generate_invoice                                                         *)

EligibleUnlessPaid(lines) == \A l \in lines : revStatus[l] # "PAID"

\* Named lines are refused only when one of them is INVOICED.
Eligible(lines) == \A l \in lines : revStatus[l] # "INVOICED"

OpenLines == {l \in RevLines : revStatus[l] \in {"ESTIMATED", "QUOTED"}}

AlwaysApproved(total) == [NoInvoice EXCEPT !.status = "APPROVED", !.approval = "APPROVED"]

\* Status and approval an invoice starts with.
FirstApproval(total) ==
    IF total > Threshold
    THEN [NoInvoice EXCEPT !.status = "PENDING_APPROVAL", !.approval = "PENDING"]
    ELSE [NoInvoice EXCEPT !.status = "APPROVED", !.approval = "APPROVED"]

\* The revenue lines, named in the body or all open ones, are read and priced.
LoadLines(r, lines, body) ==
    /\ req[r].pc = "idle"
    /\ lines # {}
    /\ Eligible(lines)
    /\ req' = [req EXCEPT ![r] = [Idle EXCEPT !.pc = "loaded", !.op = "generate", !.new =
          [FirstApproval(Total(lines, body)) EXCEPT !.total = Total(lines, body), !.lines = lines]]]
    /\ Overlaps
    /\ UNCHANGED db

CountInvoices(r) ==
    /\ req[r].pc = "loaded" /\ req[r].op = "generate"
    /\ Count < MaxInvoices
    /\ req' = [req EXCEPT ![r].pc = "numbered", ![r].i = Count + 1]
    /\ UNCHANGED <<db, overlapped>>

\* The unique (tenant, invoice number).
NumberIsFree(i) == ~Exists(i)

\* INSERT of the invoice and its lines, UPDATE of the revenue lines.  The
\* unique key waits for an uncommitted insert of the same number.
InsertInvoice(r) ==
    /\ req[r].pc = "numbered" /\ req[r].op = "generate"
    /\ NumberIsFree(req[r].i)
    /\ \A q \in Requests : ~(req[q].op = "generate" /\ req[q].pc = "flushed" /\ req[q].i = req[r].i)
    /\ req' = [req EXCEPT ![r].pc = "flushed"]
    /\ UNCHANGED <<db, overlapped>>

-----------------------------------------------------------------------------
(* approve_invoice and send_invoice                                         *)

Loaded(op, i, pc, status) ==
    [Idle EXCEPT !.pc = pc, !.op = op, !.i = i, !.row = invoice[i],
                 !.new = [invoice[i] EXCEPT !.status = status]]

\* An APPROVED invoice is answered without a change.
LoadApprove(r, i) ==
    /\ req[r].pc = "idle"
    /\ invoice[i].status = "PENDING_APPROVAL"
    /\ req' = [req EXCEPT ![r] = [Loaded("approve", i, "summed", "APPROVED") EXCEPT !.new.approval = "APPROVED"]]
    /\ Overlaps
    /\ UNCHANGED db

\* "Strict Precondition: Must be approved before sending"
Sendable(i) == invoice[i].status \in {"APPROVED", "SENT"}

LoadSend(r, i) ==
    /\ req[r].pc = "idle"
    /\ Sendable(i)
    /\ sends[i] < MaxSends
    /\ req' = [req EXCEPT ![r] = Loaded("send", i, "summed", "SENT")]
    /\ Overlaps
    /\ UNCHANGED db

\* q has updated the row of invoice i and not yet ended.
HoldsRow(q, i) ==
    /\ req[q].i = i
    /\ req[q].op \in {"approve", "send"} => req[q].pc = "flushed"
    /\ req[q].op = "credit" => req[q].pc \in {"numbered", "flushed"} /\ req[q].new # req[q].row
    /\ req[q].op \in {"approve", "send", "credit"}

RowIsFree(r) == \A q \in Requests : q # r => ~HoldsRow(q, req[r].i)

FlushInvoice(r) ==
    /\ req[r].pc = "summed" /\ req[r].op \in {"approve", "send"}
    /\ RowIsFree(r)
    /\ req' = [req EXCEPT ![r].pc = "flushed"]
    /\ UNCHANGED <<db, overlapped>>

-----------------------------------------------------------------------------
(* create_credit_note and create_debit_note                                 *)

LoadNote(r, op, i, amount) ==
    /\ req[r].pc = "idle"
    /\ Exists(i)
    /\ amount > 0
    /\ req' = [req EXCEPT ![r] = [Loaded(op, i, IF op = "credit" THEN "loaded" ELSE "summed",
                                         invoice[i].status) EXCEPT !.amount = amount]]
    /\ Overlaps
    /\ UNCHANGED db

CreditableIfAnyRemains(total, existing, amount) == total - existing > 0

Creditable(total, existing, amount) == total - existing > 0 /\ amount <= total - existing

CreditedAtOnce(total, credits) == TRUE

FullyCredited(total, credits) == credits >= total

\* The credit notes issued so far are summed and the new one checked.
SumCredits(r) ==
    LET s == req[r]
        existing == creditSum[s.i]
    IN  /\ s.pc = "loaded" /\ s.op = "credit"
        /\ Creditable(s.row.total, existing, s.amount)
        /\ req' = [req EXCEPT ![r].pc = "summed", ![r].new.status =
              IF FullyCredited(s.row.total, existing + s.amount) THEN "CREDITED" ELSE @]
        /\ UNCHANGED <<db, overlapped>>

\* The count of notes; a changed invoice is autoflushed before it, and so holds
\* its row.
CountNotes(r) ==
    /\ req[r].pc = "summed" /\ req[r].op \in {"credit", "debit"}
    /\ req[r].new # req[r].row => RowIsFree(r)
    /\ noteCount[req[r].op] < MaxNotes
    /\ req' = [req EXCEPT ![r].pc = "numbered", ![r].seq = noteCount[req[r].op] + 1]
    /\ UNCHANGED <<db, overlapped>>

\* INSERT of the ledger entry and of the note, under the unique note number.
InsertNote(r) ==
    LET s == req[r]
    IN  /\ s.pc = "numbered" /\ s.op \in {"credit", "debit"}
        /\ s.seq > noteCount[s.op]
        /\ \A q \in Requests : ~(req[q].op = s.op /\ req[q].pc = "flushed" /\ req[q].seq = s.seq)
        /\ req' = [req EXCEPT ![r].pc = "flushed"]
        /\ UNCHANGED <<db, overlapped>>

-----------------------------------------------------------------------------
\* Column-wise UPDATE: what the session did not change keeps its current value.
Written(current, loaded, new) == IF new = loaded THEN current ELSE new

UpdatedRow(s) ==
    [invoice[s.i] EXCEPT !.status = Written(@, s.row.status, s.new.status),
                         !.approval = Written(@, s.row.approval, s.new.approval)]

MarkedIfEstimated(s) ==
    [l \in RevLines |-> IF l \in s.new.lines /\ revStatus[l] = "ESTIMATED" THEN "INVOICED" ELSE revStatus[l]]

MarkInvoiced(s) == [l \in RevLines |-> IF l \in s.new.lines THEN "INVOICED" ELSE revStatus[l]]

CommitInvoice(r) ==
    LET s == req[r]
    IN  /\ s.pc = "flushed" /\ s.op = "generate"
        /\ invoice' = [invoice EXCEPT ![s.i] = s.new]
        /\ revStatus' = MarkInvoiced(s)
        /\ req' = [req EXCEPT ![r] = Idle]
        /\ UNCHANGED <<noteCount, creditSum, debitSum, sends, signedOff, overlapped>>

CommitApproval(r) ==
    LET s == req[r]
    IN  /\ s.pc = "flushed" /\ s.op = "approve"
        /\ invoice' = [invoice EXCEPT ![s.i] = UpdatedRow(s)]
        /\ signedOff' = signedOff \cup {s.i}
        /\ req' = [req EXCEPT ![r] = Idle]
        /\ UNCHANGED <<revStatus, noteCount, creditSum, debitSum, sends, overlapped>>

CommitSend(r) ==
    LET s == req[r]
    IN  /\ s.pc = "flushed" /\ s.op = "send"
        /\ invoice' = [invoice EXCEPT ![s.i] = UpdatedRow(s)]
        /\ sends' = [sends EXCEPT ![s.i] = @ + 1]
        /\ req' = [req EXCEPT ![r] = Idle]
        /\ UNCHANGED <<revStatus, noteCount, creditSum, debitSum, signedOff, overlapped>>

CommitNote(r) ==
    LET s == req[r]
    IN  /\ s.pc = "flushed" /\ s.op \in {"credit", "debit"}
        /\ invoice' = [invoice EXCEPT ![s.i] = UpdatedRow(s)]
        /\ noteCount' = [noteCount EXCEPT ![s.op] = @ + 1]
        /\ creditSum' = [creditSum EXCEPT ![s.i] = IF s.op = "credit" THEN @ + s.amount ELSE @]
        /\ debitSum' = [debitSum EXCEPT ![s.i] = IF s.op = "debit" THEN @ + s.amount ELSE @]
        /\ req' = [req EXCEPT ![r] = Idle]
        /\ UNCHANGED <<revStatus, sends, signedOff, overlapped>>

\* A refused check, a duplicate number or a lost connection: no commit.
Rollback(r) ==
    /\ req[r].pc # "idle"
    /\ req' = [req EXCEPT ![r] = Idle]
    /\ UNCHANGED <<db, overlapped>>

Begin(r) ==
    \/ \E body \in Bodies :
          \/ \E lines \in SUBSET RevLines : LoadLines(r, lines, body)
          \/ LoadLines(r, OpenLines, body)
    \/ \E i \in Numbers :
          \/ LoadApprove(r, i)
          \/ LoadSend(r, i)
          \/ \E op \in {"credit", "debit"}, amount \in NoteAmounts : LoadNote(r, op, i, amount)

Proceed(r) ==
    \/ CountInvoices(r) \/ InsertInvoice(r) \/ FlushInvoice(r)
    \/ SumCredits(r) \/ CountNotes(r) \/ InsertNote(r)
    \/ CommitInvoice(r) \/ CommitApproval(r) \/ CommitSend(r) \/ CommitNote(r)
    \/ Rollback(r)

Next == \E r \in Requests : Begin(r) \/ Proceed(r)

Spec == Init /\ [][Next]_vars

-----------------------------------------------------------------------------
(* Properties                                                              *)

\* The tables hold rows of their types and the sessions are sessions.
TypeOK ==
    /\ invoice \in [Numbers -> InvoiceRow]
    /\ revStatus \in [RevLines -> RevStatus]
    /\ noteCount \in [credit : Nat, debit : Nat]
    /\ creditSum \in [Numbers -> Nat]
    /\ debitSum \in [Numbers -> Nat]
    /\ sends \in [Numbers -> Nat]
    /\ signedOff \subseteq Numbers
    /\ req \in [Requests -> Session]
    /\ overlapped \in BOOLEAN

\* However requests interleave: an invoice over the threshold reaches the
\* customer (invoice.sent) only after somebody approved it explicitly.
SentWasSignedOff ==
    \A i \in Numbers : sends[i] > 0 /\ invoice[i].total > Threshold => i \in signedOff

\* However requests interleave: an invoice is marked CREDITED only when its
\* credit notes cover its total, since the sum a request read only grows.
CreditedIsCovered ==
    \A i \in Numbers : invoice[i].status = "CREDITED" => creditSum[i] >= invoice[i].total

\* However requests interleave: the numbers given out by count() + 1 leave no
\* gap, and every revenue line on an invoice is marked INVOICED.
NumbersAndLinesAgree ==
    /\ \A i \in Numbers : Exists(i) => \A j \in 1 .. i : Exists(j)
    /\ \A i \in Numbers : \A l \in invoice[i].lines : revStatus[l] = "INVOICED"

\* Until requests overlap, credit notes never exceed their invoice, and it is
\* CREDITED exactly while they use it up, whatever is sent or approved.
CreditsWithinInvoice ==
    ~overlapped => \A i \in Numbers :
        /\ creditSum[i] <= invoice[i].total
        /\ invoice[i].total > 0 => (invoice[i].status = "CREDITED" <=> creditSum[i] = invoice[i].total)

\* generate_invoice: "exclude already invoiced lines".  Until requests overlap,
\* a revenue line is billed on one invoice only.
BilledOnce ==
    ~overlapped => \A i, j \in Numbers : i # j => invoice[i].lines \cap invoice[j].lines = {}
=============================================================================
