---------------------------- MODULE PayablesProof ----------------------------
(* Proofs about Payables, for every set of bills, cost lines and requests.  *)
EXTENDS Payables, TLAPS

LEMMA NoneTyped == NoLine \in Line /\ NoBill \in BillRow /\ NoLines \in [CostLines -> Line]
                   /\ Idle \in Session
<1>1. NoLine \in Line
  BY DEF NoLine, Line, CostStatus
<1>2. NoBill \in BillRow
  BY DEF NoBill, BillRow, BillStatus
<1>3. NoLines \in [CostLines -> Line]
  BY <1>1 DEF NoLines
<1>4. Idle \in Session
  BY <1>1, <1>2, <1>3 DEF Idle, Session
<1> QED
  BY <1>1, <1>2, <1>3, <1>4

LEMMA EstimatesTyped == \A c \in DOMAIN Estimates : Estimates[c] \in Line
  BY PayablesAssumption DEF Line, CostStatus

\* A function on the positions of a sequence is a sequence.
LEMMA PositionsMakeSeq ==
    ASSUME NEW S, NEW T, NEW seq \in Seq(S), NEW f \in [DOMAIN seq -> T]
    PROVE  f \in Seq(T)
<1>1. DOMAIN seq = 1 .. Len(seq) /\ Len(seq) \in Nat
  OBVIOUS
<1> QED
  BY <1>1

LEMMA InitTyped == Init => TypeOK
<1> SUFFICES ASSUME Init PROVE TypeOK
  OBVIOUS
<1>1. costLine \in [CostLines -> Line]
  BY NoneTyped, EstimatesTyped DEF Init
<1> QED
  BY <1>1, NoneTyped DEF Init, TypeOK

\* The history of requests that met holds sets of bills.
LEMMA MeetingTyped == ASSUME TypeOK, NEW b \in Bills PROVE crossed \cup Meeting(b) \subseteq BillSets
<1>1. \A q \in Requests : req[q].b \in Bills \cup {"none"}
  BY DEF TypeOK, Session
<1>2. Meeting(b) \subseteq BillSets
  BY <1>1 DEF Meeting, BillSets
<1> QED
  BY <1>2 DEF TypeOK

\* A step that only gives one request a new session keeps the types.
LEMMA SessionStep ==
    ASSUME TypeOK, UNCHANGED db, crossed' \subseteq BillSets,
           NEW r \in Requests, NEW s \in Session, req' = [req EXCEPT ![r] = s]
    PROVE  TypeOK'
  BY DEF TypeOK, db

LEMMA LoadRecordTyped ==
    ASSUME TypeOK, NEW r \in Requests, NEW b \in Bills, NEW i \in BillInputs, LoadRecord(r, b, i)
    PROVE  TypeOK'
<1> DEFINE todo(ids) == [k \in DOMAIN i.lines |->
                           [code |-> i.lines[k].code, id |-> ids[k], amount |-> i.lines[k].amount]]
           ses(ids) == [Idle EXCEPT !.pc = "matching", !.op = "record", !.b = b, !.snap = costLine,
                           !.new = [NoBill EXCEPT !.total = i.tax], !.todo = todo(ids)]
<1>1. PICK ids \in [DOMAIN i.lines -> CostLines \cup {"none"}] : req' = [req EXCEPT ![r] = ses(ids)]
  BY DEF LoadRecord
<1>2. i.tax \in Nat /\ i.lines \in Seq(TodoLine)
  BY PayablesAssumption
<1>3. todo(ids) \in Seq(TodoLine)
  <2>1. \A k \in DOMAIN i.lines : i.lines[k] \in TodoLine
    BY <1>2
  <2>2. todo(ids) \in [DOMAIN i.lines -> TodoLine]
    BY <2>1 DEF TodoLine
  <2> QED
    BY <1>2, <2>2, PositionsMakeSeq
<1>4. [NoBill EXCEPT !.total = i.tax] \in BillRow
  BY <1>2, NoneTyped DEF BillRow
<1>5. ses(ids) \in Session
  BY <1>3, <1>4, NoneTyped DEF Session, TypeOK
<1>6. UNCHANGED db /\ crossed' \subseteq BillSets
  BY MeetingTyped DEF LoadRecord
<1> QED
  BY <1>1, <1>5, <1>6, SessionStep

\* What WithLine makes of a session under construction.
LEMMA WithLineTyped ==
    ASSUME NEW s \in Session, s.todo # <<>>, NEW c \in CostLines, NEW variance \in Int,
           NEW status \in LineStatus, NEW written \in Line
    PROVE  WithLine(s, c, Head(s.todo), variance, status, written) \in Session
<1> DEFINE new == [s.new EXCEPT !.total = @ + Head(s.todo).amount, !.variance = @ + variance,
                                !.lines = Append(@, [cl |-> c, status |-> status])]
<1>1. Head(s.todo) \in TodoLine /\ Tail(s.todo) \in Seq(TodoLine) /\ s.new \in BillRow
  BY DEF Session
<1>2. new \in BillRow
  <2>1. s.new.total + Head(s.todo).amount \in Nat
    BY <1>1 DEF BillRow, TodoLine
  <2>2. s.new.variance + variance \in Int
    BY <1>1 DEF BillRow
  <2>3. Append(s.new.lines, [cl |-> c, status |-> status]) \in Seq(PayableLine)
    <3>1. [cl |-> c, status |-> status] \in PayableLine
      BY DEF PayableLine
    <3> QED
      BY <1>1, <3>1 DEF BillRow
  <2> QED
    BY <1>1, <2>1, <2>2, <2>3 DEF BillRow
<1>3. [s.writes EXCEPT ![c] = written] \in [CostLines -> Line]
  BY DEF Session
<1> QED
  BY <1>1, <1>2, <1>3 DEF Session, WithLine

LEMMA MatchLineTyped ==
    ASSUME TypeOK, NEW r \in Requests, MatchLine(r)
    PROVE  TypeOK'
<1> DEFINE s == req[r]
<1>1. PICK c \in CostLines :
        req' = [req EXCEPT ![r] = WithLine(s, c, Head(s.todo), Variance(s, c),
                                           MatchStatus(Variance(s, c)), Billed(s, c))]
  BY DEF MatchLine
<1>2. s \in Session /\ s.todo # <<>> /\ UNCHANGED db /\ crossed' \subseteq BillSets
  BY DEF MatchLine, TypeOK
<1>3. Seen(s, c) \in Line
  BY <1>2 DEF Session, TypeOK, Seen
<1>4. Billed(s, c) \in Line
  BY <1>2, <1>3 DEF Session, Line, CostStatus, Billed
<1>5. Variance(s, c) \in Int
  <2>1. Head(s.todo) \in TodoLine
    BY <1>2 DEF Session
  <2> QED
    BY <1>3, <2>1 DEF Line, TodoLine, Variance
<1>6. MatchStatus(Variance(s, c)) \in LineStatus
  BY DEF MatchStatus, LineStatus
<1> QED
  BY <1>1, <1>2, <1>4, <1>5, <1>6, WithLineTyped, SessionStep

LEMMA AddChargeTyped ==
    ASSUME TypeOK, NEW r \in Requests, AddCharge(r)
    PROVE  TypeOK'
<1> DEFINE s == req[r]
           line == Head(s.todo)
           charge == [code |-> line.code, amount |-> line.amount, status |-> "BILLED"]
<1>1. PICK c \in CostLines :
        req' = [req EXCEPT ![r] = WithLine(s, c, line, line.amount, "ADDITIONAL_CHARGE", charge)]
  BY DEF AddCharge
<1>2. s \in Session /\ s.todo # <<>> /\ UNCHANGED db /\ crossed' \subseteq BillSets
  BY DEF AddCharge, TypeOK
<1>3. line.amount \in Int /\ charge \in Line
  <2>1. line \in TodoLine
    BY <1>2 DEF Session
  <2> HIDE DEF line
  <2> QED
    BY <2>1 DEF TodoLine, Line, CostStatus
<1> QED
  BY <1>1, <1>2, <1>3, WithLineTyped, SessionStep DEF LineStatus

LEMMA InsertPayableTyped ==
    ASSUME TypeOK, NEW r \in Requests, InsertPayable(r)
    PROVE  TypeOK'
<1> DEFINE s == [req[r] EXCEPT !.pc = "flushed", !.new.status = "RECEIVED", !.snap = NoLines]
<1>1. req[r] \in Session /\ UNCHANGED db /\ crossed' \subseteq BillSets /\ req' = [req EXCEPT ![r] = s]
  BY DEF InsertPayable, TypeOK
<1>2. s \in Session
  <2>1. [req[r].new EXCEPT !.status = "RECEIVED"] \in BillRow
    BY <1>1 DEF Session, BillRow, BillStatus
  <2> QED
    BY <1>1, <2>1, NoneTyped DEF Session
<1> HIDE DEF s
<1> QED
  BY <1>1, <1>2, SessionStep

LEMMA LoadedTyped ==
    ASSUME TypeOK, NEW b \in Bills, NEW op \in {"verify", "approve", "pay"},
           NEW pc \in {"loaded", "checked", "raised"}, NEW new \in BillRow
    PROVE  Loaded(b, op, pc, new) \in Session
  BY NoneTyped DEF Loaded, Session, TypeOK

LEMMA LoadVerifyTyped ==
    ASSUME TypeOK, NEW r \in Requests, NEW b \in Bills, NEW allow \in BOOLEAN,
           LoadVerify(r, b, allow)
    PROVE  TypeOK'
<1> DEFINE lines == [k \in DOMAIN bill[b].lines |->
                       [bill[b].lines[k] EXCEPT !.status = "VERIFIED"]]
           new == [bill[b] EXCEPT !.verification = "VERIFIED", !.status = "VERIFIED",
                                  !.lines = lines]
<1>1. bill[b] \in BillRow
  BY DEF TypeOK
<1>2. lines \in Seq(PayableLine)
  <2>1. bill[b].lines \in Seq(PayableLine)
    BY <1>1 DEF BillRow
  <2>2. \A k \in DOMAIN bill[b].lines : bill[b].lines[k] \in PayableLine
    BY <2>1
  <2>3. lines \in [DOMAIN bill[b].lines -> PayableLine]
    BY <2>2 DEF LineStatus, PayableLine
  <2> HIDE DEF lines
  <2> QED
    BY <2>1, <2>3, PositionsMakeSeq
<1>3. new \in BillRow
  BY <1>1, <1>2 DEF BillRow, BillStatus
<1>4. req' = [req EXCEPT ![r] = Loaded(b, "verify", "checked", new)] /\ UNCHANGED db /\ crossed' \subseteq BillSets
  BY MeetingTyped DEF LoadVerify
<1> QED
  BY <1>3, <1>4, LoadedTyped, SessionStep

LEMMA DetectVarianceTyped ==
    ASSUME TypeOK, NEW r \in Requests, NEW b \in Bills, DetectVariance(r, b)
    PROVE  TypeOK'
<1> DEFINE new == [bill[b] EXCEPT !.verification = "VARIANCE_DETECTED"]
<1>1. new \in BillRow
  BY DEF TypeOK, BillRow
<1>2. req' = [req EXCEPT ![r] = Loaded(b, "verify", "raised", new)] /\ UNCHANGED db /\ crossed' \subseteq BillSets
  BY MeetingTyped DEF DetectVariance
<1> QED
  BY <1>1, <1>2, LoadedTyped, SessionStep

LEMMA LoadApproveTyped ==
    ASSUME TypeOK, NEW r \in Requests, NEW b \in Bills, LoadApprove(r, b)
    PROVE  TypeOK'
<1> DEFINE new == [bill[b] EXCEPT !.approval = "APPROVED", !.status = "APPROVED"]
<1>1. new \in BillRow
  BY DEF TypeOK, BillRow, BillStatus
<1>2. req' = [req EXCEPT ![r] = Loaded(b, "approve", "checked", new)] /\ UNCHANGED db /\ crossed' \subseteq BillSets
  BY MeetingTyped DEF LoadApprove
<1> QED
  BY <1>1, <1>2, LoadedTyped, SessionStep

LEMMA LoadPayTyped ==
    ASSUME TypeOK, NEW r \in Requests, NEW b \in Bills, NEW a \in PayAmounts, LoadPay(r, b, a)
    PROVE  TypeOK'
<1> DEFINE s == [Loaded(b, "pay", "loaded", bill[b]) EXCEPT !.amount = a]
<1>1. bill[b] \in BillRow /\ a \in Nat
  BY PayablesAssumption DEF TypeOK
<1>2. Loaded(b, "pay", "loaded", bill[b]) \in Session
  BY <1>1, LoadedTyped
<1>3. s \in Session
  BY <1>1, <1>2 DEF Session
<1>4. req' = [req EXCEPT ![r] = s] /\ UNCHANGED db /\ crossed' \subseteq BillSets
  BY MeetingTyped DEF LoadPay
<1> HIDE DEF s
<1> QED
  BY <1>3, <1>4, SessionStep

LEMMA SumPaymentsTyped ==
    ASSUME TypeOK, NEW r \in Requests, req[r].b \in Bills, SumPayments(r)
    PROVE  TypeOK'
<1> DEFINE paid == paidSum[req[r].b] + req[r].amount
           status == StatusOncePaid(req[r].row.total, paid)
           s == [req[r] EXCEPT !.pc = "checked", !.new.paid = paid, !.new.status = status]
<1>1. req[r] \in Session /\ paidSum[req[r].b] \in Nat
  BY DEF TypeOK
<1>2. paid \in Nat /\ status \in BillStatus
  BY <1>1 DEF Session, StatusOncePaid, BillStatus
<1>3. req' = [req EXCEPT ![r] = s] /\ UNCHANGED db /\ crossed' \subseteq BillSets
  BY DEF SumPayments, TypeOK
<1> HIDE DEF paid, status
<1>4. s \in Session
  BY <1>1, <1>2 DEF Session, BillRow
<1> HIDE DEF s
<1> QED
  BY <1>3, <1>4, SessionStep

LEMMA FlushTyped ==
    ASSUME TypeOK, NEW r \in Requests, Flush(r)
    PROVE  TypeOK'
<1> DEFINE s == req[r]
           writes == [c \in CostLines |->
                 IF c \in LinesOf(s.row) /\ Advance(s, costLine[c].status) # costLine[c].status
                 THEN [costLine[c] EXCEPT !.status = Advance(s, costLine[c].status)] ELSE NoLine]
           t == [s EXCEPT !.pc = "flushed", !.writes = writes]
<1>1. s \in Session /\ UNCHANGED db /\ crossed' \subseteq BillSets /\ req' = [req EXCEPT ![r] = t]
  BY DEF Flush, TypeOK
<1>2. \A c \in CostLines : costLine[c] \in Line /\ Advance(s, costLine[c].status) \in CostStatus
  BY DEF TypeOK, Line, Advance, CostStatus
<1>3. writes \in [CostLines -> Line]
  BY <1>2, NoneTyped DEF Line
<1> HIDE DEF writes
<1>4. t \in Session
  BY <1>1, <1>3 DEF Session
<1> HIDE DEF t
<1> QED
  BY <1>1, <1>4, SessionStep

LEMMA CommittedTyped ==
    ASSUME TypeOK, NEW s \in Session, s.b \in Bills
    PROVE  Committed(s) \in BillRow
<1>1. bill[s.b] \in BillRow /\ s.row \in BillRow /\ s.new \in BillRow
  BY DEF TypeOK, Session
<1> QED
  BY <1>1 DEF Committed, Written, BillRow

LEMMA CommitTyped ==
    ASSUME TypeOK, NEW r \in Requests, req[r].b \in Bills, Commit(r)
    PROVE  TypeOK'
<1> DEFINE s == req[r]
<1>1. s \in Session
  BY DEF TypeOK
<1>2. bill' \in [Bills -> BillRow]
  BY <1>1, CommittedTyped DEF Commit, TypeOK
<1>3. costLine' \in [CostLines -> Line]
  BY <1>1 DEF Commit, TypeOK, Session
<1>4. s.amount \in Nat /\ s.row.total \in Nat
  BY <1>1 DEF Session, BillRow
<1>5. /\ paidSum' \in [Bills -> Nat] /\ debited' \in [Bills -> Nat]
      /\ credited' \in [Bills -> Nat] /\ variances' \in [Bills -> Nat]
  BY <1>4 DEF Commit, TypeOK
<1>6. req' \in [Requests -> Session] /\ crossed' \subseteq BillSets
  BY NoneTyped DEF Commit, TypeOK
<1> QED
  BY <1>2, <1>3, <1>5, <1>6 DEF TypeOK

LEMMA RollbackTyped ==
    ASSUME TypeOK, NEW r \in Requests, req[r].b \in Bills, Rollback(r)
    PROVE  TypeOK'
  BY NoneTyped DEF Rollback, TypeOK, db

\* A request that is under way is about a bill.
HasBill == \A r \in Requests : req[r].pc # "idle" => req[r].b \in Bills

LEMMA StepTyped == TypeOK /\ HasBill /\ Next => TypeOK'
<1> SUFFICES ASSUME TypeOK, HasBill, NEW r \in Requests, Begin(r) \/ Proceed(r)
             PROVE  TypeOK'
  BY DEF Next
<1>1. CASE Begin(r)
  BY <1>1, LoadRecordTyped, LoadVerifyTyped, DetectVarianceTyped, LoadApproveTyped,
     LoadPayTyped DEF Begin
<1>2. CASE Proceed(r)
  <2>1. SumPayments(r) \/ Commit(r) \/ Rollback(r) => req[r].b \in Bills
    BY DEF HasBill, SumPayments, Commit, Rollback
  <2> QED
    BY <1>2, <2>1, MatchLineTyped, AddChargeTyped, InsertPayableTyped, SumPaymentsTyped,
       FlushTyped, CommitTyped, RollbackTyped DEF Proceed
<1> QED
  BY <1>1, <1>2

LEMMA StepHasBill == TypeOK /\ HasBill /\ Next => HasBill'
<1> SUFFICES ASSUME TypeOK, HasBill, NEW r \in Requests, Begin(r) \/ Proceed(r)
             PROVE  /\ req'[r].pc # "idle" => req'[r].b \in Bills
                    /\ \A q \in Requests \ {r} : req'[q] = req[q]
  BY DEF Next, HasBill
<1> USE DEF TypeOK
<1>1. CASE Begin(r)
  <2>1. ASSUME NEW b \in Bills, NEW i \in BillInputs, LoadRecord(r, b, i)
        PROVE  req'[r].b = b /\ \A q \in Requests \ {r} : req'[q] = req[q]
    BY <2>1, NoneTyped DEF LoadRecord, Session
  <2>2. ASSUME NEW b \in Bills, NEW op, NEW pc, NEW new
        PROVE  Loaded(b, op, pc, new).b = b /\ \A a : [Loaded(b, op, pc, new) EXCEPT !.amount = a].b = b
    BY NoneTyped DEF Loaded, Session
  <2>3. ASSUME NEW b \in Bills, NEW allow \in BOOLEAN, LoadVerify(r, b, allow)
        PROVE  req'[r].b = b /\ \A q \in Requests \ {r} : req'[q] = req[q]
    BY <2>2, <2>3 DEF LoadVerify
  <2>4. ASSUME NEW b \in Bills, DetectVariance(r, b) \/ LoadApprove(r, b)
        PROVE  req'[r].b = b /\ \A q \in Requests \ {r} : req'[q] = req[q]
    BY <2>2, <2>4 DEF DetectVariance, LoadApprove
  <2>5. ASSUME NEW b \in Bills, NEW a \in PayAmounts, LoadPay(r, b, a)
        PROVE  req'[r].b = b /\ \A q \in Requests \ {r} : req'[q] = req[q]
    BY <2>2, <2>5 DEF LoadPay
  <2> QED
    BY <1>1, <2>1, <2>3, <2>4, <2>5 DEF Begin
<1>2. CASE Proceed(r)
  <2>0. req[r] \in Session
    OBVIOUS
  <2>1. CASE Commit(r) \/ Rollback(r)
    BY <2>1 DEF Commit, Rollback, Idle
  <2>2. CASE InsertPayable(r) \/ SumPayments(r) \/ Flush(r)
    <3>1. req[r].b \in Bills
      BY <2>2 DEF InsertPayable, SumPayments, Flush, HasBill
    <3>2. req'[r].b = req[r].b /\ \A q \in Requests \ {r} : req'[q] = req[q]
      <4>1. CASE InsertPayable(r)
        BY <2>0, <4>1 DEF InsertPayable, Session
      <4>2. CASE SumPayments(r)
        BY <2>0, <4>2 DEF SumPayments, Session
      <4>3. CASE Flush(r)
        BY <2>0, <4>3 DEF Flush, Session
      <4> QED
        BY <2>2, <4>1, <4>2, <4>3
    <3> QED
      BY <3>1, <3>2
  <2>3. \A c, line, variance, status, written :
            WithLine(req[r], c, line, variance, status, written).b = req[r].b
    BY <2>0 DEF WithLine, Session
  <2>4. CASE MatchLine(r)
    <3>1. PICK c \in CostLines :
            req' = [req EXCEPT ![r] = WithLine(req[r], c, Head(req[r].todo), Variance(req[r], c),
                                         MatchStatus(Variance(req[r], c)), Billed(req[r], c))]
      BY <2>4 DEF MatchLine
    <3>2. req[r].b \in Bills
      BY <2>4 DEF MatchLine, HasBill
    <3> QED
      BY <2>3, <3>1, <3>2
  <2>5. CASE AddCharge(r)
    <3> DEFINE line == Head(req[r].todo)
    <3>1. PICK c \in CostLines :
            req' = [req EXCEPT ![r] = WithLine(req[r], c, line, line.amount, "ADDITIONAL_CHARGE",
                      [code |-> line.code, amount |-> line.amount, status |-> "BILLED"])]
      BY <2>5 DEF AddCharge
    <3>2. req[r].b \in Bills
      BY <2>5 DEF AddCharge, HasBill
    <3> QED
      BY <2>3, <3>1, <3>2
  <2> QED
    BY <1>2, <2>1, <2>2, <2>4, <2>5 DEF Proceed
<1> QED
  BY <1>1, <1>2

\* The tables and sessions of the payables service keep their types under
\* every interleaving of requests.
THEOREM PayablesTypeCorrect == Spec => []TypeOK
<1>1. Init => TypeOK /\ HasBill
  BY InitTyped DEF Init, HasBill, Idle
<1>2. TypeOK /\ HasBill /\ [Next]_vars => TypeOK' /\ HasBill'
  <2>1. UNCHANGED vars /\ TypeOK /\ HasBill => TypeOK' /\ HasBill'
    BY DEF vars, TypeOK, HasBill
  <2> QED
    BY <2>1, StepTyped, StepHasBill
<1> QED
  BY <1>1, <1>2, PTL DEF Spec

-----------------------------------------------------------------------------
(* What a session knows, and goes on knowing while others commit.          *)

\* A session that records a bill builds a fresh row; only the insert names it.
RecordSession(s) ==
    s.op = "record" =>
        /\ s.pc \in {"matching", "flushed"}
        /\ s.new.paid = 0 /\ s.new.approval = "PENDING" /\ s.amount = 0
        /\ s.new.status \in {"NONE", "RECEIVED"}
        /\ s.pc = "flushed" => ~Exists(s.b) /\ s.new.status = "RECEIVED"
        /\ \A c \in CostLines : s.writes[c].status \in {"NONE", "BILLED"}

\* A session about an existing bill: its total and cost lines never change.
BillSession(s) ==
    s.op \in {"verify", "approve", "pay"} =>
        /\ s.pc \in {"loaded", "checked", "flushed", "raised"}
        /\ Exists(s.b)
        /\ s.row.total = bill[s.b].total
        /\ LinesOf(s.row) = LinesOf(bill[s.b])
        /\ LinesOf(s.new) = LinesOf(bill[s.b])
        /\ \A c \in CostLines : s.writes[c].status \notin {"NONE", "VERIFIED"} =>
              s.pc = "flushed" /\ c \in LinesOf(bill[s.b])

VerifySession(s) ==
    s.op = "verify" =>
        /\ s.new.approval = s.row.approval /\ s.new.paid = s.row.paid /\ s.amount = 0
        /\ s.pc # "raised" => s.new.status = "VERIFIED"
        /\ s.pc \in {"checked", "flushed", "raised"}
        /\ \A c \in CostLines : s.writes[c].status \in {"NONE", "VERIFIED"}

ApproveSession(s) ==
    s.op = "approve" =>
        /\ s.row.approval # "APPROVED" /\ s.new.approval = "APPROVED"
        /\ s.new.status = "APPROVED"
        /\ s.new.paid = s.row.paid /\ s.amount = 0
        /\ s.pc \in {"checked", "flushed"}
        /\ \A c \in CostLines : s.writes[c].status \in {"NONE", "APPROVED"}

\* A payment rests on an approved, recognised bill, and on a sum of payments
\* that can only have grown.
PaySession(s) ==
    s.op = "pay" =>
        /\ s.pc \in {"loaded", "checked", "flushed"}
        /\ s.new.approval = s.row.approval
        /\ bill[s.b].approval = "APPROVED"
        /\ s.row.status \in {"APPROVED", "PARTIALLY_PAID"}
        /\ s.pc \in {"checked", "flushed"} =>
             /\ s.new.paid <= s.row.total
             /\ s.new.paid <= paidSum[s.b] + s.amount
             /\ s.new.status \in {"PARTIALLY_PAID", "PAID"}
             /\ s.new.status = "PAID" => s.new.paid >= s.row.total
        /\ \A c \in CostLines :
             /\ s.writes[c].status \in {"NONE", "PAID"}
             /\ s.writes[c].status = "PAID" => s.new.status = "PAID"

IdleSession(s) == s.pc = "idle" \/ s.op = "none" => s = Idle

SessionInv(s) ==
    /\ IdleSession(s) /\ RecordSession(s) /\ BillSession(s)
    /\ VerifySession(s) /\ ApproveSession(s) /\ PaySession(s)

\* The row of a payable is updated by one transaction at a time.
RowLock ==
    \A q, r \in Requests :
        req[q].pc = "flushed" /\ req[r].pc = "flushed" /\ req[q].b = req[r].b => q = r

BillInv ==
    \A b \in Bills :
        /\ ~Exists(b) => bill[b] = NoBill /\ paidSum[b] = 0
        /\ bill[b].status \in {"APPROVED", "PARTIALLY_PAID", "PAID"} => bill[b].approval = "APPROVED"
        /\ bill[b].approval = "APPROVED" => Exists(b) /\ credited[b] >= bill[b].total

IInv ==
    /\ TypeOK /\ HasBill
    /\ \A r \in Requests : SessionInv(req[r])
    /\ RowLock /\ BillInv
    /\ PaidIsCovered /\ PaidAmountIsSound /\ RecognisedBeforePaid /\ CostLineIsBacked

\* A step that only gives request r the session s keeps IInv when s is a
\* legitimate session and takes no row another request holds.
LEMMA SessionChange ==
    ASSUME IInv, TypeOK', HasBill', UNCHANGED db,
           NEW r \in Requests, NEW s, req' = [req EXCEPT ![r] = s], SessionInv(s),
           s.pc = "flushed" =>
               \A q \in Requests \ {r} : req[q].pc = "flushed" => req[q].b # s.b
    PROVE  IInv'
<1>1. bill' = bill /\ costLine' = costLine /\ paidSum' = paidSum /\ credited' = credited
  BY DEF db
<1>2. req'[r] = s /\ \A q \in Requests \ {r} : req'[q] = req[q]
  BY DEF IInv, TypeOK
<1>3. \A q \in Requests : SessionInv(req'[q])
  BY <1>2 DEF IInv
<1>4. ASSUME NEW q \in Requests
      PROVE  SessionInv(req[q])'
  <2>1. SessionInv(req'[q])
    BY <1>3
  <2>2. IdleSession(req[q])' /\ VerifySession(req[q])' /\ ApproveSession(req[q])'
    BY <2>1 DEF SessionInv, IdleSession, VerifySession, ApproveSession
  <2>3. RecordSession(req[q])'
    BY <1>1, <2>1 DEF SessionInv, RecordSession, Exists
  <2>4. BillSession(req[q])'
    BY <1>1, <2>1 DEF SessionInv, BillSession, Exists, LinesOf
  <2>5. PaySession(req[q])'
    BY <1>1, <2>1 DEF SessionInv, PaySession
  <2> QED
    BY <2>2, <2>3, <2>4, <2>5 DEF SessionInv
<1>5. RowLock'
  BY <1>2 DEF IInv, RowLock
<1>6. BillInv' /\ PaidIsCovered' /\ PaidAmountIsSound' /\ RecognisedBeforePaid' /\ CostLineIsBacked'
  BY <1>1 DEF IInv, BillInv, PaidIsCovered, PaidAmountIsSound, RecognisedBeforePaid,
     CostLineIsBacked, Exists, LinesOf
<1> QED
  BY <1>4, <1>5, <1>6 DEF IInv

LEMMA IdleIsFine == SessionInv(Idle)
  BY NoneTyped DEF SessionInv, IdleSession, RecordSession, BillSession, VerifySession,
     ApproveSession, PaySession, Idle

LEMMA RollbackKeeps ==
    ASSUME IInv, TypeOK', HasBill', NEW r \in Requests, Rollback(r)
    PROVE  IInv'
<1>1. UNCHANGED db /\ req' = [req EXCEPT ![r] = Idle]
  BY DEF Rollback
<1>2. Idle.pc # "flushed"
  BY DEF Idle
<1> QED
  BY <1>1, <1>2, IdleIsFine, SessionChange

LEMMA LoadRecordKeeps ==
    ASSUME IInv, TypeOK', HasBill', NEW r \in Requests, NEW b \in Bills, NEW i \in BillInputs,
           LoadRecord(r, b, i)
    PROVE  IInv'
<1>1. PICK s : /\ req' = [req EXCEPT ![r] = s] /\ UNCHANGED db
               /\ s.pc = "matching" /\ s.op = "record" /\ s.amount = 0 /\ s.writes = NoLines
               /\ s.new.paid = 0 /\ s.new.approval = "PENDING" /\ s.new.status = "NONE"
  <2> DEFINE ses(todo) == [Idle EXCEPT !.pc = "matching", !.op = "record", !.b = b, !.snap = costLine,
                           !.new = [NoBill EXCEPT !.total = i.tax], !.todo = todo]
  <2>1. PICK todo : req' = [req EXCEPT ![r] = ses(todo)]
    BY DEF LoadRecord
  <2>2. /\ ses(todo).pc = "matching" /\ ses(todo).op = "record"
        /\ ses(todo).amount = 0 /\ ses(todo).writes = NoLines
        /\ ses(todo).new.paid = 0 /\ ses(todo).new.approval = "PENDING"
        /\ ses(todo).new.status = "NONE"
    BY DEF Idle, NoBill
  <2>3. UNCHANGED db
    BY DEF LoadRecord
  <2> HIDE DEF ses
  <2> QED
    BY <2>1, <2>2, <2>3
<1>2. \A c \in CostLines : s.writes[c].status = "NONE"
  BY <1>1 DEF NoLines, NoLine
<1>3. SessionInv(s)
  BY <1>1, <1>2 DEF SessionInv, IdleSession, RecordSession, BillSession, VerifySession,
     ApproveSession, PaySession
<1> QED
  BY <1>1, <1>3, SessionChange

LEMMA LineAddedKeeps ==
    ASSUME IInv, TypeOK', HasBill', UNCHANGED db, NEW r \in Requests,
           req[r].pc = "matching", NEW c \in CostLines, NEW line, NEW variance, NEW status,
           NEW written \in Line, written.status \in {"NONE", "BILLED"},
           req' = [req EXCEPT ![r] = WithLine(req[r], c, line, variance, status, written)]
    PROVE  IInv'
<1> DEFINE s == req[r]
           t == WithLine(s, c, line, variance, status, written)
<1>1. s \in Session /\ SessionInv(s)
  BY DEF IInv, TypeOK
<1>2. s.op = "record"
  BY <1>1 DEF Session, SessionInv, IdleSession, BillSession, Idle
<1>3. /\ t.pc = "matching" /\ t.op = "record" /\ t.amount = s.amount
      /\ t.writes = [s.writes EXCEPT ![c] = written]
      /\ t.new.paid = s.new.paid /\ t.new.approval = s.new.approval /\ t.new.status = s.new.status
  BY <1>1, <1>2 DEF WithLine, Session, BillRow
<1>4. \A d \in CostLines : t.writes[d].status \in {"NONE", "BILLED"}
  BY <1>1, <1>2, <1>3 DEF SessionInv, RecordSession, Session
<1> HIDE DEF t
<1>5. SessionInv(t)
  BY <1>1, <1>2, <1>3, <1>4 DEF SessionInv, IdleSession, RecordSession, BillSession, VerifySession,
     ApproveSession, PaySession
<1> QED
  BY <1>3, <1>5, SessionChange DEF t

LEMMA MatchLineKeeps ==
    ASSUME IInv, TypeOK', HasBill', NEW r \in Requests, MatchLine(r)
    PROVE  IInv'
<1> DEFINE s == req[r]
<1>1. PICK c \in CostLines :
        req' = [req EXCEPT ![r] = WithLine(s, c, Head(s.todo), Variance(s, c),
                                           MatchStatus(Variance(s, c)), Billed(s, c))]
  BY DEF MatchLine
<1>2. s \in Session /\ SessionInv(s) /\ s.pc = "matching" /\ UNCHANGED db
  BY DEF IInv, TypeOK, MatchLine
<1>3. s.op = "record"
  BY <1>2 DEF Session, SessionInv, IdleSession, BillSession, Idle
<1>4. Seen(s, c) \in Line /\ s.writes[c] \in Line
  BY <1>2 DEF Session, IInv, TypeOK, Seen
<1>5. s.writes[c].status \in {"NONE", "BILLED"}
  BY <1>2, <1>3 DEF SessionInv, RecordSession
<1>6. Billed(s, c) \in Line /\ Billed(s, c).status \in {"NONE", "BILLED"}
  BY <1>4, <1>5 DEF Billed, Line, CostStatus
<1> QED
  BY <1>1, <1>2, <1>6, LineAddedKeeps

LEMMA AddChargeKeeps ==
    ASSUME IInv, TypeOK', HasBill', NEW r \in Requests, AddCharge(r)
    PROVE  IInv'
<1> DEFINE line == Head(req[r].todo)
           charge == [code |-> line.code, amount |-> line.amount, status |-> "BILLED"]
<1>1. PICK c \in CostLines :
        req' = [req EXCEPT ![r] = WithLine(req[r], c, line, line.amount, "ADDITIONAL_CHARGE", charge)]
  BY DEF AddCharge
<1>2. req[r].pc = "matching" /\ req[r].todo # <<>> /\ UNCHANGED db /\ req[r] \in Session
  BY DEF IInv, TypeOK, AddCharge
<1>3. charge \in Line
  <2>1. line \in TodoLine
    BY <1>2 DEF Session
  <2> HIDE DEF line
  <2> QED
    BY <2>1 DEF TodoLine, Line, CostStatus
<1>4. charge.status = "BILLED"
  OBVIOUS
<1> HIDE DEF charge
<1> QED
  BY <1>1, <1>2, <1>3, <1>4, LineAddedKeeps

LEMMA InsertPayableKeeps ==
    ASSUME IInv, TypeOK', HasBill', NEW r \in Requests, InsertPayable(r)
    PROVE  IInv'
<1> DEFINE s == req[r]
           t == [s EXCEPT !.pc = "flushed", !.new.status = "RECEIVED", !.snap = NoLines]
<1>0. req' = [req EXCEPT ![r] = t]
  <2>1. req[r] \in Session /\ req \in [Requests -> Session]
    BY DEF IInv, TypeOK
  <2> QED
    BY <2>1 DEF InsertPayable
<1>1. /\ s \in Session /\ SessionInv(s) /\ s.pc = "matching" /\ UNCHANGED db /\ ~Exists(s.b)
      /\ \A q \in Requests : req[q].pc = "flushed" => req[q].b # s.b
  BY DEF IInv, TypeOK, InsertPayable
<1>2. s.op = "record"
  BY <1>1 DEF Session, SessionInv, IdleSession, BillSession, Idle
<1>3. /\ t.pc = "flushed" /\ t.op = "record" /\ t.amount = s.amount /\ t.writes = s.writes /\ t.b = s.b
      /\ t.new.paid = s.new.paid /\ t.new.approval = s.new.approval /\ t.new.status = "RECEIVED"
  BY <1>1, <1>2 DEF Session, BillRow
<1> HIDE DEF t
<1>4. SessionInv(t)
  BY <1>1, <1>2, <1>3 DEF SessionInv, IdleSession, RecordSession, BillSession, VerifySession,
     ApproveSession, PaySession
<1> QED
  BY <1>0, <1>1, <1>3, <1>4, SessionChange

\* What a session that has just loaded an existing bill holds.
LEMMA LoadedFields ==
    ASSUME NEW b, NEW op, NEW pc, NEW new
    PROVE  LET s == Loaded(b, op, pc, new)
           IN  /\ s.pc = pc /\ s.op = op /\ s.b = b /\ s.row = bill[b] /\ s.new = new
               /\ s.amount = 0
               /\ \A c \in CostLines : s.writes[c].status = "NONE"
  BY DEF Loaded, Idle, NoLines, NoLine

LEMMA LoadVerifyKeeps ==
    ASSUME IInv, TypeOK', HasBill', NEW r \in Requests, NEW b \in Bills, NEW allow \in BOOLEAN,
           LoadVerify(r, b, allow)
    PROVE  IInv'
<1> DEFINE lines == [k \in DOMAIN bill[b].lines |->
                       [bill[b].lines[k] EXCEPT !.status = "VERIFIED"]]
           new == [bill[b] EXCEPT !.verification = "VERIFIED", !.status = "VERIFIED", !.lines = lines]
           s == Loaded(b, "verify", "checked", new)
<1>1. req' = [req EXCEPT ![r] = s] /\ UNCHANGED db /\ Exists(b)
  BY DEF LoadVerify, Verifiable
<1>2. bill[b] \in BillRow
  BY DEF IInv, TypeOK
<1>3. LinesOf(new) = LinesOf(bill[b])
  <2>1. bill[b].lines \in Seq(PayableLine) /\ new.lines = lines
    BY <1>2 DEF BillRow
  <2>2. \A k \in DOMAIN bill[b].lines : bill[b].lines[k] \in PayableLine
    BY <2>1
  <2>3. \A k \in DOMAIN bill[b].lines : lines[k].cl = bill[b].lines[k].cl
    BY <2>2 DEF PayableLine
  <2>4. DOMAIN lines = DOMAIN bill[b].lines
    OBVIOUS
  <2> HIDE DEF lines, new
  <2> QED
    BY <2>1, <2>3, <2>4 DEF LinesOf
<1>4. new.approval = bill[b].approval /\ new.paid = bill[b].paid /\ new.status = "VERIFIED"
  BY <1>2 DEF BillRow
<1> HIDE DEF new
<1>5. SessionInv(s) /\ s.pc # "flushed"
  BY <1>1, <1>3, <1>4, LoadedFields DEF SessionInv, IdleSession, RecordSession, BillSession,
     VerifySession, ApproveSession, PaySession
<1> HIDE DEF s
<1> QED
  BY <1>1, <1>5, SessionChange

LEMMA DetectVarianceKeeps ==
    ASSUME IInv, TypeOK', HasBill', NEW r \in Requests, NEW b \in Bills, DetectVariance(r, b)
    PROVE  IInv'
<1> DEFINE new == [bill[b] EXCEPT !.verification = "VARIANCE_DETECTED"]
           s == Loaded(b, "verify", "raised", new)
<1>1. req' = [req EXCEPT ![r] = s] /\ UNCHANGED db /\ Exists(b)
  BY DEF DetectVariance, Verifiable
<1>2. /\ new.approval = bill[b].approval /\ new.paid = bill[b].paid
      /\ LinesOf(new) = LinesOf(bill[b])
  BY DEF IInv, TypeOK, BillRow, LinesOf
<1> HIDE DEF new
<1>3. SessionInv(s) /\ s.pc # "flushed"
  BY <1>1, <1>2, LoadedFields DEF SessionInv, IdleSession, RecordSession, BillSession,
     VerifySession, ApproveSession, PaySession
<1> HIDE DEF s
<1> QED
  BY <1>1, <1>3, SessionChange

LEMMA LoadApproveKeeps ==
    ASSUME IInv, TypeOK', HasBill', NEW r \in Requests, NEW b \in Bills, LoadApprove(r, b)
    PROVE  IInv'
<1> DEFINE new == [bill[b] EXCEPT !.approval = "APPROVED", !.status = "APPROVED"]
           s == Loaded(b, "approve", "checked", new)
<1>1. /\ req' = [req EXCEPT ![r] = s] /\ UNCHANGED db
      /\ Exists(b) /\ bill[b].approval # "APPROVED"
  BY DEF LoadApprove, Approvable
<1>2. /\ new.approval = "APPROVED" /\ new.status = "APPROVED" /\ new.paid = bill[b].paid
      /\ LinesOf(new) = LinesOf(bill[b])
  BY DEF IInv, TypeOK, BillRow, LinesOf
<1> HIDE DEF new
<1>3. SessionInv(s) /\ s.pc # "flushed"
  BY <1>1, <1>2, LoadedFields DEF SessionInv, IdleSession, RecordSession, BillSession,
     VerifySession, ApproveSession, PaySession
<1> HIDE DEF s
<1> QED
  BY <1>1, <1>3, SessionChange

LEMMA LoadPayKeeps ==
    ASSUME IInv, TypeOK', HasBill', NEW r \in Requests, NEW b \in Bills, NEW a \in PayAmounts,
           LoadPay(r, b, a)
    PROVE  IInv'
<1> DEFINE l == Loaded(b, "pay", "loaded", bill[b])
           s == [l EXCEPT !.amount = a]
<1>1. /\ req' = [req EXCEPT ![r] = s] /\ UNCHANGED db
      /\ bill[b].status \in {"APPROVED", "PARTIALLY_PAID"}
  BY DEF LoadPay, AcceptsPayment
<1>2. bill[b].approval = "APPROVED" /\ Exists(b)
  BY <1>1 DEF IInv, BillInv, Exists
<1>3. /\ s.pc = "loaded" /\ s.op = "pay" /\ s.b = b /\ s.row = bill[b] /\ s.new = bill[b]
      /\ s.amount = a
      /\ \A c \in CostLines : s.writes[c].status = "NONE"
  <2>1. /\ s.pc = l.pc /\ s.op = l.op /\ s.b = l.b /\ s.row = l.row /\ s.new = l.new
        /\ s.writes = l.writes /\ s.amount = a
    BY DEF Loaded, Idle
  <2> HIDE DEF s
  <2> QED
    BY <2>1, LoadedFields
<1> HIDE DEF s
<1>4. SessionInv(s)
  BY <1>1, <1>2, <1>3 DEF SessionInv, IdleSession, RecordSession, BillSession,
     VerifySession, ApproveSession, PaySession
<1> QED
  BY <1>1, <1>3, <1>4, SessionChange

LEMMA SumPaymentsKeeps ==
    ASSUME IInv, TypeOK', HasBill', NEW r \in Requests, SumPayments(r)
    PROVE  IInv'
<1> DEFINE s == req[r]
           paid == paidSum[s.b] + s.amount
           status == StatusOncePaid(s.row.total, paid)
           t == [s EXCEPT !.pc = "checked", !.new.paid = paid, !.new.status = status]
<1>1. s \in Session /\ SessionInv(s) /\ s.pc = "loaded" /\ UNCHANGED db /\ s.b \in Bills
  BY DEF IInv, TypeOK, SumPayments, HasBill
<1>2. req' = [req EXCEPT ![r] = t]
  BY <1>1 DEF SumPayments
<1>3. s.op = "pay"
  BY <1>1 DEF Session, SessionInv, IdleSession, RecordSession, VerifySession, ApproveSession, Idle
<1>4. s.row.total \in Nat /\ s.amount \in Nat /\ paidSum[s.b] \in Nat
  BY <1>1 DEF IInv, TypeOK, Session, BillRow
<1>5. paid <= s.row.total
  BY <1>4 DEF SumPayments, FitsBalance
<1>6. status \in {"PARTIALLY_PAID", "PAID"} /\ (status = "PAID" => paid >= s.row.total)
  BY DEF StatusOncePaid
<1>7. /\ t.pc = "checked" /\ t.op = "pay" /\ t.b = s.b /\ t.row = s.row /\ t.amount = s.amount
      /\ t.writes = s.writes /\ t.new.paid = paid /\ t.new.status = status
      /\ t.new.approval = s.new.approval /\ LinesOf(t.new) = LinesOf(s.new)
  BY <1>1, <1>3 DEF Session, BillRow, LinesOf
<1>8. paid <= paidSum[s.b] + s.amount
  BY <1>4
<1>9. \A c \in CostLines : s.writes[c].status = "NONE"
  BY <1>1, <1>3 DEF SessionInv, BillSession, PaySession
<1> HIDE DEF t, paid, status
<1>10. SessionInv(t)
  <2>1. IdleSession(t) /\ RecordSession(t) /\ VerifySession(t) /\ ApproveSession(t)
    BY <1>7 DEF IdleSession, RecordSession, VerifySession, ApproveSession
  <2>2. BillSession(t)
    BY <1>1, <1>3, <1>7, <1>9 DEF SessionInv, BillSession
  <2>3. PaySession(t)
    BY <1>1, <1>3, <1>5, <1>6, <1>7, <1>8, <1>9 DEF SessionInv, PaySession
  <2> QED
    BY <2>1, <2>2, <2>3 DEF SessionInv
<1> QED
  BY <1>1, <1>2, <1>7, <1>10, SessionChange

LEMMA FlushKeeps ==
    ASSUME IInv, TypeOK', HasBill', NEW r \in Requests, Flush(r)
    PROVE  IInv'
<1> DEFINE s == req[r]
           writes == [c \in CostLines |->
                 IF c \in LinesOf(s.row) /\ Advance(s, costLine[c].status) # costLine[c].status
                 THEN [costLine[c] EXCEPT !.status = Advance(s, costLine[c].status)] ELSE NoLine]
           t == [s EXCEPT !.pc = "flushed", !.writes = writes]
<1>1. /\ s \in Session /\ SessionInv(s) /\ s.pc = "checked" /\ UNCHANGED db
      /\ \A q \in Requests : req[q].pc = "flushed" => req[q].b # s.b
  BY DEF IInv, TypeOK, Flush
<1>2. req' = [req EXCEPT ![r] = t]
  BY <1>1 DEF Flush
<1>3. s.op \in {"verify", "approve", "pay"}
  BY <1>1 DEF Session, SessionInv, IdleSession, RecordSession, Idle
<1>4. ASSUME NEW c \in CostLines, writes[c].status # "NONE"
      PROVE  /\ c \in LinesOf(s.row)
             /\ s.op = "verify" => writes[c].status = "VERIFIED"
             /\ s.op = "approve" => writes[c].status = "APPROVED"
             /\ s.op = "pay" => writes[c].status = "PAID" /\ s.new.status = "PAID"
  <2>1. costLine[c] \in Line
    BY DEF IInv, TypeOK
  <2>2. c \in LinesOf(s.row) /\ Advance(s, costLine[c].status) # costLine[c].status
    BY <1>4 DEF NoLine
  <2>3. writes[c].status = Advance(s, costLine[c].status)
    BY <2>1, <2>2 DEF Line
  <2> HIDE DEF writes
  <2> QED
    BY <1>3, <2>2, <2>3 DEF Advance
<1>5. /\ t.pc = "flushed" /\ t.op = s.op /\ t.b = s.b /\ t.row = s.row /\ t.amount = s.amount
      /\ t.writes = writes /\ t.new = s.new
  BY <1>1 DEF Session
<1> HIDE DEF t, writes
<1>6. SessionInv(t)
  <2>1. IdleSession(t) /\ RecordSession(t)
    BY <1>3, <1>5 DEF IdleSession, RecordSession
  <2>2. BillSession(t)
    BY <1>1, <1>3, <1>4, <1>5 DEF SessionInv, BillSession
  <2>3. VerifySession(t)
    BY <1>1, <1>4, <1>5 DEF SessionInv, VerifySession
  <2>4. ApproveSession(t)
    BY <1>1, <1>4, <1>5 DEF SessionInv, ApproveSession
  <2>5. PaySession(t)
    BY <1>1, <1>4, <1>5 DEF SessionInv, PaySession
  <2> QED
    BY <2>1, <2>2, <2>3, <2>4, <2>5 DEF SessionInv
<1> QED
  BY <1>1, <1>2, <1>5, <1>6, SessionChange

\* The columns a commit leaves in the row of an existing bill.
LEMMA CommittedRow ==
    ASSUME IInv, NEW r \in Requests, req[r].pc = "flushed", req[r].op # "record"
    PROVE  LET s == req[r]
               new == Committed(s)
           IN  /\ Exists(s.b)
               /\ new.total = bill[s.b].total
               /\ LinesOf(new) = LinesOf(bill[s.b])
               /\ new.status = Written(bill[s.b].status, s.row.status, s.new.status)
               /\ new.approval = Written(bill[s.b].approval, s.row.approval, s.new.approval)
               /\ new.paid = Written(bill[s.b].paid, s.row.paid, s.new.paid)
<1> DEFINE s == req[r]
<1>1. s \in Session /\ SessionInv(s) /\ s.b \in Bills
  BY DEF IInv, TypeOK, HasBill
<1>2. s.op \in {"verify", "approve", "pay"}
  BY <1>1 DEF Session, SessionInv, IdleSession, Idle
<1>3. bill[s.b] \in BillRow
  BY <1>1 DEF IInv, TypeOK
<1>4. /\ Committed(s).total = bill[s.b].total
      /\ Committed(s).status = Written(bill[s.b].status, s.row.status, s.new.status)
      /\ Committed(s).approval = Written(bill[s.b].approval, s.row.approval, s.new.approval)
      /\ Committed(s).paid = Written(bill[s.b].paid, s.row.paid, s.new.paid)
      /\ Committed(s).lines \in {s.new.lines, bill[s.b].lines}
  BY <1>2, <1>3 DEF Committed, BillRow
<1>5. LinesOf(Committed(s)) = LinesOf(bill[s.b])
  BY <1>1, <1>2, <1>4 DEF SessionInv, BillSession, LinesOf
<1> QED
  BY <1>1, <1>2, <1>4, <1>5 DEF SessionInv, BillSession

LEMMA CommitKeeps ==
    ASSUME IInv, TypeOK', HasBill', NEW r \in Requests, Commit(r)
    PROVE  IInv'
<1> DEFINE s == req[r]
           b == req[r].b
<1>1. s \in Session /\ SessionInv(s) /\ s.b \in Bills /\ s.pc = "flushed"
  BY DEF IInv, TypeOK, HasBill, Commit
<1>2. /\ bill' = [bill EXCEPT ![b] = Committed(s)]
      /\ bill'[b] = Committed(s) /\ \A x \in Bills \ {b} : bill'[x] = bill[x]
  BY <1>1 DEF Commit, IInv, TypeOK
<1>3. /\ req'[r] = Idle /\ \A q \in Requests \ {r} : req'[q] = req[q]
      /\ paidSum'[b] = paidSum[b] + s.amount /\ \A x \in Bills \ {b} : paidSum'[x] = paidSum[x]
      /\ credited'[b] = (IF s.op = "approve" THEN credited[b] + s.row.total ELSE credited[b])
      /\ \A x \in Bills \ {b} : credited'[x] = credited[x]
  BY <1>1 DEF Commit, IInv, TypeOK
<1>4. /\ s.amount \in Nat /\ paidSum[b] \in Nat /\ credited[b] \in Nat /\ s.row.total \in Nat
      /\ bill[b].total \in Nat /\ bill[b].paid \in Nat /\ s.new.paid \in Nat /\ s.row.paid \in Nat
  BY <1>1 DEF IInv, TypeOK, Session, BillRow
<1>5. s.op \in {"record", "verify", "approve", "pay"}
  BY <1>1 DEF Session, SessionInv, IdleSession, Idle
<1>6. s.op = "record" => ~Exists(b) /\ Committed(s) = s.new /\ s.new.status = "RECEIVED"
  BY <1>1 DEF SessionInv, RecordSession, Committed
<1>7. ASSUME NEW x \in Bills, Exists(x)
      PROVE  /\ bill'[x].status # "NONE"
             /\ bill'[x].total = bill[x].total
             /\ LinesOf(bill'[x]) = LinesOf(bill[x])
             /\ bill[x].approval = "APPROVED" => bill'[x].approval = "APPROVED"
             /\ paidSum'[x] >= paidSum[x] /\ credited'[x] >= credited[x]
  <2>0. paidSum[x] \in Nat /\ credited[x] \in Nat
    BY DEF IInv, TypeOK
  <2>1. CASE x # b
    BY <1>2, <1>3, <1>7, <2>0, <2>1 DEF Exists
  <2>2. CASE x = b
    <3>1. s.op # "record"
      BY <1>6, <1>7, <2>2
    <3>2. /\ bill'[b].total = bill[b].total /\ LinesOf(bill'[b]) = LinesOf(bill[b])
          /\ bill'[b].status = Written(bill[b].status, s.row.status, s.new.status)
          /\ bill'[b].approval = Written(bill[b].approval, s.row.approval, s.new.approval)
      BY <1>1, <1>2, <3>1, CommittedRow
    <3>3. s.new.status # "NONE" /\ s.new.approval \in {s.row.approval, "APPROVED"}
      BY <1>1, <1>5, <3>1 DEF SessionInv, VerifySession, ApproveSession, PaySession
    <3>4. bill'[b].status # "NONE" /\ (bill[b].approval = "APPROVED" => bill'[b].approval = "APPROVED")
      BY <1>7, <2>2, <3>2, <3>3 DEF Written, Exists
    <3>5. paidSum'[b] >= paidSum[b] /\ credited'[b] >= credited[b]
      BY <1>3, <1>4
    <3> QED
      BY <2>2, <3>2, <3>4, <3>5
  <2> QED
    BY <2>1, <2>2
<1>8. ASSUME NEW q \in Requests
      PROVE  SessionInv(req[q])'
  <2>1. CASE q = r
    BY <1>3, <2>1, NoneTyped DEF SessionInv, IdleSession, RecordSession, BillSession, VerifySession,
       ApproveSession, PaySession, Idle
  <2>2. CASE q # r
    <3> DEFINE t == req[q]
    <3>1. t \in Session /\ SessionInv(t) /\ req'[q] = t /\ (t.pc # "idle" => t.b \in Bills)
      BY <1>3, <2>2 DEF IInv, TypeOK, HasBill
    <3>2. IdleSession(t)' /\ VerifySession(t)' /\ ApproveSession(t)'
      BY <3>1 DEF SessionInv, IdleSession, VerifySession, ApproveSession
    <3>3. RecordSession(t)'
      <4>1. ASSUME t.pc = "flushed" PROVE t.b # b
        BY <1>1, <2>2, <4>1 DEF IInv, RowLock
      <4>2. ASSUME t.pc = "flushed" PROVE bill'[t.b] = bill[t.b]
        BY <1>2, <3>1, <4>1, <4>2
      <4> QED
        BY <3>1, <4>2 DEF SessionInv, RecordSession, Exists
    <3>4. BillSession(t)'
      <4>1. CASE t.op \in {"verify", "approve", "pay"}
        <5>1. t.b \in Bills /\ Exists(t.b) /\ BillSession(t)
          BY <3>1, <4>1 DEF SessionInv, BillSession
        <5>2. /\ bill'[t.b].status # "NONE" /\ bill'[t.b].total = bill[t.b].total
              /\ LinesOf(bill'[t.b]) = LinesOf(bill[t.b])
          BY <1>7, <5>1
        <5> QED
          BY <3>1, <4>1, <5>1, <5>2 DEF BillSession, Exists
      <4>2. CASE t.op \notin {"verify", "approve", "pay"}
        BY <3>1, <4>2 DEF BillSession
      <4> QED
        BY <4>1, <4>2
    <3>5. PaySession(t)'
      <4>1. CASE t.op = "pay"
        <5>1. t.b \in Bills /\ Exists(t.b) /\ PaySession(t)
          BY <3>1, <4>1 DEF SessionInv, BillSession
        <5>2. bill'[t.b].approval = "APPROVED" /\ paidSum'[t.b] >= paidSum[t.b]
          BY <1>7, <4>1, <5>1 DEF PaySession
        <5>3. paidSum[t.b] \in Nat /\ paidSum'[t.b] \in Nat /\ t.amount \in Nat /\ t.new.paid \in Nat
          BY <3>1, <5>1 DEF IInv, TypeOK, Session, BillRow
        <5>4. t.new.paid <= paidSum[t.b] + t.amount => t.new.paid <= paidSum'[t.b] + t.amount
          BY <5>2, <5>3
        <5> QED
          BY <3>1, <4>1, <5>1, <5>2, <5>4 DEF PaySession
      <4>2. CASE t.op # "pay"
        BY <3>1, <4>2 DEF PaySession
      <4> QED
        BY <4>1, <4>2
    <3> QED
      BY <3>2, <3>3, <3>4, <3>5 DEF SessionInv
  <2> QED
    BY <2>1, <2>2
<1>9. RowLock'
  BY <1>3 DEF IInv, RowLock, Idle
<1>10. ASSUME s.op # "record"
       PROVE  /\ Exists(b) /\ s.row.total = bill[b].total /\ bill'[b].total = bill[b].total
              /\ bill'[b].status = Written(bill[b].status, s.row.status, s.new.status)
              /\ bill'[b].approval = Written(bill[b].approval, s.row.approval, s.new.approval)
              /\ bill'[b].paid = Written(bill[b].paid, s.row.paid, s.new.paid)
  BY <1>1, <1>2, <1>5, <1>10, CommittedRow DEF SessionInv, BillSession
<1>11. s.op = "pay" => bill[b].approval = "APPROVED" /\ bill'[b].approval = "APPROVED"
                       /\ credited[b] >= bill[b].total
  BY <1>1, <1>7, <1>10 DEF SessionInv, PaySession, IInv, BillInv
<1>12. s.op # "pay" => s.amount = 0
  BY <1>1, <1>5 DEF SessionInv, RecordSession, VerifySession, ApproveSession
<1>13. s.op = "record" => /\ bill'[b].status = "RECEIVED" /\ bill'[b].approval = "PENDING"
                          /\ bill'[b].paid = 0 /\ paidSum'[b] = 0 /\ bill'[b].total \in Nat
  <2>1. bill'[b] \in BillRow
    BY <1>1 DEF TypeOK
  <2>2. bill'[b].total \in Nat
    BY <2>1 DEF BillRow
  <2>3. ASSUME s.op = "record" PROVE paidSum'[b] = 0
    BY <1>1, <1>3, <1>4, <1>6, <1>12, <2>3 DEF IInv, BillInv
  <2>4. ASSUME s.op = "record" PROVE bill'[b] = s.new /\ s.new.status = "RECEIVED"
                                     /\ s.new.approval = "PENDING" /\ s.new.paid = 0
    BY <1>1, <1>2, <1>6, <2>4 DEF SessionInv, RecordSession
  <2> QED
    BY <2>2, <2>3, <2>4
<1>14. BillInv'
  <2> SUFFICES ASSUME NEW x \in Bills
               PROVE  /\ bill'[x].status = "NONE" => bill'[x] = NoBill /\ paidSum'[x] = 0
                      /\ bill'[x].status \in {"APPROVED", "PARTIALLY_PAID", "PAID"} =>
                           bill'[x].approval = "APPROVED"
                      /\ bill'[x].approval = "APPROVED" =>
                           bill'[x].status # "NONE" /\ credited'[x] >= bill'[x].total
    BY NoneTyped DEF BillInv, Exists, NoBill
  <2>1. CASE x # b
    BY <1>2, <1>3, <2>1 DEF IInv, BillInv, Exists
  <2>2. CASE x = b /\ s.op = "record"
    BY <1>13, <2>2
  <2>3. CASE x = b /\ s.op # "record"
    <3>1. bill'[b].status # "NONE"
      BY <1>7, <1>10, <2>3 DEF Exists
    <3>2. bill'[b].status \in {"APPROVED", "PARTIALLY_PAID", "PAID"} => bill'[b].approval = "APPROVED"
      <4>1. CASE bill[b].approval = "APPROVED"
        BY <1>1, <1>7, <1>10, <2>3, <4>1
      <4>2. CASE bill[b].approval # "APPROVED" /\ s.op = "verify"
        BY <1>1, <1>10, <2>3, <4>2 DEF SessionInv, VerifySession, Written, IInv, BillInv
      <4>3. CASE bill[b].approval # "APPROVED" /\ s.op = "approve"
        BY <1>1, <1>10, <2>3, <4>3 DEF SessionInv, ApproveSession, Written
      <4> QED
        BY <1>5, <1>11, <2>3, <4>1, <4>2, <4>3
    <3>3. bill'[b].approval = "APPROVED" => credited'[b] >= bill'[b].total
      <4>1. CASE bill[b].approval = "APPROVED"
        <5>1. credited[b] >= bill[b].total /\ credited'[b] >= credited[b]
          BY <1>1, <1>7, <1>10, <2>3, <4>1 DEF IInv, BillInv
        <5> QED
          BY <1>3, <1>4, <1>10, <2>3, <5>1
      <4>2. CASE bill[b].approval # "APPROVED" /\ s.op = "approve"
        BY <1>3, <1>4, <1>10, <2>3, <4>2
      <4>3. CASE bill[b].approval # "APPROVED" /\ s.op = "verify"
        BY <1>1, <1>10, <2>3, <4>3 DEF SessionInv, VerifySession, Written
      <4> QED
        BY <1>5, <1>11, <2>3, <4>1, <4>2, <4>3
    <3> QED
      BY <2>3, <3>1, <3>2, <3>3
  <2> QED
    BY <2>1, <2>2, <2>3
<1>15. ASSUME s.op = "pay"
       PROVE  /\ s.new.paid <= bill[b].total /\ s.new.paid <= paidSum'[b]
              /\ s.new.status = "PAID" => paidSum'[b] >= bill[b].total
  <2>1. /\ s.new.paid <= s.row.total /\ s.new.paid <= paidSum[b] + s.amount
        /\ s.new.status = "PAID" => s.new.paid >= s.row.total
    BY <1>1, <1>15 DEF SessionInv, PaySession
  <2> QED
    BY <1>3, <1>4, <1>10, <1>15, <2>1
<1>16. PaidIsCovered'
  <2> SUFFICES ASSUME NEW x \in Bills, bill'[x].status = "PAID"
               PROVE  paidSum'[x] >= bill'[x].total
    BY DEF PaidIsCovered
  <2>1. CASE x # b
    BY <1>2, <1>3, <2>1 DEF IInv, PaidIsCovered
  <2>2. CASE x = b /\ bill[b].status = "PAID" /\ s.op # "record"
    <3>1. paidSum[b] >= bill[b].total
      BY <1>1, <2>2 DEF IInv, PaidIsCovered
    <3> QED
      BY <1>3, <1>4, <1>10, <2>2, <3>1
  <2>3. CASE x = b /\ bill[b].status # "PAID" /\ s.op # "record"
    <3>1. s.new.status = "PAID"
      BY <1>10, <2>3 DEF Written
    <3>2. s.op = "pay"
      BY <1>1, <1>5, <2>3, <3>1 DEF SessionInv, VerifySession, ApproveSession
    <3> QED
      BY <1>10, <1>15, <2>3, <3>1, <3>2
  <2> QED
    BY <1>13, <2>1, <2>2, <2>3
<1>17. PaidAmountIsSound'
  <2> SUFFICES ASSUME NEW x \in Bills
               PROVE  bill'[x].paid <= bill'[x].total /\ bill'[x].paid <= paidSum'[x]
    BY DEF PaidAmountIsSound
  <2>1. CASE x # b
    BY <1>2, <1>3, <2>1 DEF IInv, PaidAmountIsSound
  <2>2. CASE x = b /\ s.op = "record"
    BY <1>13, <2>2
  <2>3. CASE x = b /\ s.op # "record" /\ bill'[b].paid = bill[b].paid
    <3>1. bill[b].paid <= bill[b].total /\ bill[b].paid <= paidSum[b]
      BY <1>1 DEF IInv, PaidAmountIsSound
    <3> QED
      BY <1>3, <1>4, <1>10, <2>3, <3>1
  <2>4. CASE x = b /\ s.op # "record" /\ bill'[b].paid # bill[b].paid
    <3>1. bill'[b].paid = s.new.paid /\ s.new.paid # s.row.paid
      BY <1>10, <2>4 DEF Written
    <3>2. s.op = "pay"
      BY <1>1, <1>5, <2>4, <3>1 DEF SessionInv, VerifySession, ApproveSession
    <3> QED
      BY <1>10, <1>15, <2>4, <3>1, <3>2
  <2> QED
    BY <2>1, <2>2, <2>3, <2>4
<1>18. RecognisedBeforePaid'
  <2> SUFFICES ASSUME NEW x \in Bills, paidSum'[x] > 0
               PROVE  bill'[x].approval = "APPROVED" /\ credited'[x] >= bill'[x].total
    BY DEF RecognisedBeforePaid
  <2>1. bill'[x].approval = "APPROVED"
    <3>1. CASE x # b
      BY <1>2, <1>3, <3>1 DEF IInv, RecognisedBeforePaid
    <3>2. CASE x = b /\ s.op = "pay"
      BY <1>11, <3>2
    <3>3. CASE x = b /\ s.op \in {"verify", "approve"}
      <4>1. paidSum[b] > 0
        BY <1>3, <1>4, <1>12, <3>3
      <4> QED
        BY <1>1, <1>7, <1>10, <3>3, <4>1 DEF IInv, RecognisedBeforePaid
    <3> QED
      BY <1>5, <1>13, <3>1, <3>2, <3>3
  <2> QED
    BY <1>14, <2>1 DEF BillInv
<1>19. CostLineIsBacked'
  <2> SUFFICES ASSUME NEW c \in CostLines
               PROVE  /\ costLine'[c].status \in {"APPROVED", "PAID"} =>
                           \E x \in Bills : c \in LinesOf(bill'[x]) /\ bill'[x].approval = "APPROVED"
                      /\ costLine'[c].status = "PAID" =>
                           \E x \in Bills : c \in LinesOf(bill'[x]) /\ paidSum'[x] >= bill'[x].total
    BY DEF CostLineIsBacked, LinesOf
  <2>1. costLine'[c] = IF s.writes[c].status = "NONE" THEN costLine[c] ELSE s.writes[c]
    BY DEF Commit
  <2>2. ASSUME NEW x \in Bills, c \in LinesOf(bill[x])
        PROVE  Exists(x)
    BY <2>2 DEF IInv, BillInv, LinesOf, NoBill
  <2>3. CASE s.writes[c].status = "NONE"
    <3>1. ASSUME costLine[c].status \in {"APPROVED", "PAID"}
          PROVE  \E x \in Bills : c \in LinesOf(bill'[x]) /\ bill'[x].approval = "APPROVED"
      <4>1. PICK x \in Bills : c \in LinesOf(bill[x]) /\ bill[x].approval = "APPROVED"
        BY <3>1 DEF IInv, CostLineIsBacked
      <4> QED
        BY <1>7, <2>2, <4>1
    <3>2. ASSUME costLine[c].status = "PAID"
          PROVE  \E x \in Bills : c \in LinesOf(bill'[x]) /\ paidSum'[x] >= bill'[x].total
      <4>1. PICK x \in Bills : c \in LinesOf(bill[x]) /\ paidSum[x] >= bill[x].total
        BY <3>2 DEF IInv, CostLineIsBacked
      <4>2. paidSum[x] \in Nat /\ paidSum'[x] \in Nat /\ bill[x].total \in Nat
        BY DEF IInv, TypeOK, BillRow
      <4>3. /\ c \in LinesOf(bill'[x]) /\ bill'[x].total = bill[x].total /\ paidSum'[x] >= paidSum[x]
        BY <1>7, <2>2, <4>1
      <4> QED
        BY <4>1, <4>2, <4>3
    <3> QED
      BY <2>1, <2>3, <3>1, <3>2
  <2>4. CASE s.writes[c].status \in {"BILLED", "VERIFIED"}
    BY <2>1, <2>4
  <2>5. CASE s.writes[c].status = "APPROVED"
    <3>1. s.op = "approve" /\ c \in LinesOf(bill[b])
      BY <1>1, <1>5, <2>5 DEF SessionInv, RecordSession, BillSession, VerifySession, PaySession
    <3>2. bill'[b].approval = "APPROVED"
      BY <1>1, <1>10, <3>1 DEF SessionInv, ApproveSession, Written
    <3> QED
      BY <1>1, <1>7, <1>10, <2>1, <2>5, <3>1, <3>2
  <2>6. CASE s.writes[c].status = "PAID"
    <3>1. s.op = "pay" /\ c \in LinesOf(bill[b]) /\ s.new.status = "PAID"
      BY <1>1, <1>5, <2>6 DEF SessionInv, RecordSession, BillSession, VerifySession, ApproveSession,
         PaySession
    <3>2. paidSum'[b] >= bill'[b].total /\ bill'[b].approval = "APPROVED"
      BY <1>10, <1>11, <1>15, <3>1
    <3> QED
      BY <1>1, <1>7, <1>10, <3>1, <3>2
  <2>7. s.writes[c].status \in {"NONE", "BILLED", "VERIFIED", "APPROVED", "PAID"}
    BY <1>1, <1>5 DEF SessionInv, RecordSession, VerifySession, ApproveSession, PaySession
  <2> QED
    BY <2>3, <2>4, <2>5, <2>6, <2>7
<1> QED
  BY <1>8, <1>9, <1>14, <1>16, <1>17, <1>18, <1>19 DEF IInv

LEMMA InitIInv == Init => IInv
<1> SUFFICES ASSUME Init PROVE IInv
  OBVIOUS
<1>1. TypeOK /\ HasBill
  BY InitTyped DEF Init, HasBill, Idle
<1>2. \A r \in Requests : SessionInv(req[r]) /\ req[r].pc = "idle"
  BY IdleIsFine DEF Init, Idle
<1>3. \A b \in Bills : bill[b] = NoBill /\ paidSum[b] = 0
  BY DEF Init
<1>4. \A c \in CostLines : costLine[c].status \in {"NONE", "ESTIMATED", "ACCRUED"}
  BY PayablesAssumption DEF Init, NoLine
<1>5. BillInv /\ PaidIsCovered /\ PaidAmountIsSound /\ RecognisedBeforePaid
  BY <1>3 DEF BillInv, PaidIsCovered, PaidAmountIsSound, RecognisedBeforePaid, Exists, NoBill
<1>6. CostLineIsBacked
  BY <1>4 DEF CostLineIsBacked
<1> QED
  BY <1>1, <1>2, <1>5, <1>6 DEF IInv, RowLock

LEMMA StepIInv == IInv /\ [Next]_vars => IInv'
<1>1. ASSUME IInv, UNCHANGED vars PROVE IInv'
  <2>1. TypeOK' /\ HasBill'
    BY <1>1 DEF vars, IInv, TypeOK, HasBill
  <2>2. ASSUME NEW r \in Requests PROVE SessionInv(req[r])'
    <3>1. SessionInv(req[r])
      BY <1>1 DEF IInv
    <3> QED
      BY <1>1, <3>1 DEF vars, SessionInv, IdleSession, RecordSession, BillSession, VerifySession,
         ApproveSession, PaySession, Exists
  <2>3. RowLock' /\ BillInv'
    BY <1>1 DEF vars, IInv, RowLock, BillInv, Exists
  <2>4. PaidIsCovered' /\ PaidAmountIsSound' /\ RecognisedBeforePaid' /\ CostLineIsBacked'
    BY <1>1 DEF vars, IInv, PaidIsCovered, PaidAmountIsSound, RecognisedBeforePaid, CostLineIsBacked
  <2> QED
    BY <2>1, <2>2, <2>3, <2>4 DEF IInv
<1>2. ASSUME IInv, NEW r \in Requests, Begin(r) \/ Proceed(r) PROVE IInv'
  <2>1. TypeOK' /\ HasBill'
    BY <1>2, StepTyped, StepHasBill DEF Next, IInv
  <2>2. CASE Begin(r)
    BY <1>2, <2>1, <2>2, LoadRecordKeeps, LoadVerifyKeeps, DetectVarianceKeeps, LoadApproveKeeps,
       LoadPayKeeps DEF Begin
  <2>3. CASE Proceed(r)
    BY <1>2, <2>1, <2>3, MatchLineKeeps, AddChargeKeeps, InsertPayableKeeps, SumPaymentsKeeps,
       FlushKeeps, CommitKeeps, RollbackKeeps DEF Proceed
  <2> QED
    BY <1>2, <2>2, <2>3
<1> QED
  BY <1>1, <1>2 DEF Next

LEMMA AlwaysIInv == Spec => []IInv
  BY InitIInv, StepIInv, PTL DEF Spec

\* record_payment leaves PAID only on bills whose recorded payments cover the
\* total, for any number of requests interleaved without locks.
THEOREM PaidBillsAreCovered == Spec => []PaidIsCovered
<1>1. IInv => PaidIsCovered
  BY DEF IInv
<1> QED
  BY <1>1, AlwaysIInv, PTL

\* paid_amount, written by whichever payment commits last, never exceeds the
\* bill or the payments recorded.
THEOREM PaidAmountNeverOverstated == Spec => []PaidAmountIsSound
<1>1. IInv => PaidAmountIsSound
  BY DEF IInv
<1> QED
  BY <1>1, AlwaysIInv, PTL

\* No payment precedes approve_payable's posting of the liability.
THEOREM PaymentsFollowRecognition == Spec => []RecognisedBeforePaid
<1>1. IInv => RecognisedBeforePaid
  BY DEF IInv
<1> QED
  BY <1>1, AlwaysIInv, PTL

\* Every approved or paid cost line rests on an approved or fully paid bill.
THEOREM CostLinesAreBacked == Spec => []CostLineIsBacked
<1>1. IInv => CostLineIsBacked
  BY DEF IInv
<1> QED
  BY <1>1, AlwaysIInv, PTL
-----------------------------------------------------------------------------
(* Requests that do not disturb one another.                                *)

InFlight(r) == req[r].pc # "idle"

\* Two requests in flight have met.
Met == \A q, r \in Requests : InFlight(q) /\ InFlight(r) /\ q # r => {req[q].b, req[r].b} \in crossed

FromBilled == {"BILLED", "VERIFIED", "APPROVED", "PAID"}

\* How far the cost lines of a bill in this state have to be.
Due(row) ==
    IF row.status = "PAID" THEN {"PAID"}
    ELSE IF row.approval = "APPROVED" THEN {"APPROVED", "PAID"}
    ELSE IF row.verification = "VERIFIED" THEN {"VERIFIED", "APPROVED", "PAID"}
    ELSE FromBilled

\* The status of cost line c once session s has committed.
StatusAfter(s, c) == IF s.writes[c].status = "NONE" THEN costLine[c].status ELSE s.writes[c].status

\* The cost lines a session may write.
OwnLines(s) == IF s.op = "record" THEN LinesOf(s.new) ELSE LinesOf(bill[s.b])

\* However requests interleave, a session writes the lines of its bill only, and
\* no line that a bill has ever falls back behind BILLED.
BilledSession(s) ==
    /\ \A c \in CostLines :
         /\ s.writes[c].status \in FromBilled \cup {"NONE"}
         /\ s.writes[c].status # "NONE" => c \in OwnLines(s)
         /\ s.snap[c].status \in FromBilled => costLine[c].status \in FromBilled
    /\ s.op = "record" => \A c \in LinesOf(s.new) : StatusAfter(s, c) \in FromBilled

Billing ==
    /\ \A r \in Requests : BilledSession(req[r])
    /\ \A b \in Bills : \A c \in LinesOf(bill[b]) : costLine[c].status \in FromBilled

\* A session that met no other on its bill holds the bill as the tables do, and
\* has worked out from it what its commit is about to store.
CurrentRecord(s) == s.op = "record" => s.new.verification # "VERIFIED"

CurrentVerify(s) ==
    s.op = "verify" =>
        /\ s.row = bill[s.b]
        /\ s.row.status # "PAID"
        /\ s.pc # "raised" => s.new.verification = "VERIFIED"

CurrentApprove(s) ==
    s.op = "approve" =>
        /\ s.row = bill[s.b]
        /\ s.row.verification = "VERIFIED" /\ s.new.verification = "VERIFIED"

CurrentPay(s) ==
    s.op = "pay" =>
        /\ s.row = bill[s.b]
        /\ s.amount > 0 /\ s.new.verification = s.row.verification
        /\ s.pc # "loaded" => /\ s.new.paid = paidSum[s.b] + s.amount
                              /\ s.new.status = StatusOncePaid(s.row.total, s.new.paid)

\* How far the commit of s brings the lines of its bill that nobody contends for.
Reached(s) ==
    CASE s.op = "verify" -> FromBilled \ {"BILLED"}
      [] s.op = "approve" -> {"APPROVED", "PAID"}
      [] s.op = "pay" /\ s.new.status = "PAID" -> {"PAID"}
      [] OTHER -> FromBilled

CurrentLines(s) ==
    s.pc = "flushed" =>
        \A c \in LinesOf(bill[s.b]) : ~Contended(s.b, c) => StatusAfter(s, c) \in Reached(s)

CurrentRow(s) == CurrentRecord(s) /\ CurrentVerify(s) /\ CurrentApprove(s) /\ CurrentPay(s)

Current(s) == CurrentRow(s) /\ CurrentLines(s)

AllCurrent == \A r \in Requests : InFlight(r) /\ {req[r].b} \notin crossed => Current(req[r])

\* Nothing session s has loaded or is about to write can set back line c of
\* bill b.
NotBehind(b, c, s) ==
    /\ s.writes[c].status \in Due(bill[b]) \cup {"NONE"}
    /\ s.snap[c].status \in Due(bill[b]) \cup {"NONE"}

\* The cost lines of a bill are where they are due, whatever a session that met
\* none of the bill's own commits.
Followed ==
    \A b \in Bills : \A c \in LinesOf(bill[b]) : ~Contended(b, c) =>
        /\ costLine[c].status \in Due(bill[b])
        /\ \A r \in Requests : {b, req[r].b} \notin crossed => NotBehind(b, c, req[r])

SerialInv == Met /\ Billing /\ AllCurrent /\ LedgerAgrees /\ Followed

\* Every bill's lines are cost lines.
LEMMA LinesAreCostLines ==
    ASSUME NEW row \in BillRow
    PROVE  LinesOf(row) \subseteq CostLines
<1>1. row.lines \in Seq(PayableLine)
  BY DEF BillRow
<1>2. \A k \in DOMAIN row.lines : row.lines[k] \in PayableLine
  BY <1>1
<1> QED
  BY <1>2 DEF LinesOf, PayableLine

\* A cost line where it is due stays there when an operation advances it.
LEMMA AdvanceStaysDue ==
    ASSUME NEW s, NEW row, NEW status \in Due(row)
    PROVE  Advance(s, status) \in Due(row)
<1>1. CASE status = "PAID"
  BY <1>1 DEF Advance, Due, FromBilled
<1>2. CASE status = "APPROVED"
  BY <1>2 DEF Advance, Due, FromBilled
<1>3. CASE status = "VERIFIED"
  BY <1>3 DEF Advance, Due, FromBilled
<1>4. CASE status = "BILLED"
  BY <1>4 DEF Advance, Due, FromBilled
<1> QED
  BY <1>1, <1>2, <1>3, <1>4 DEF Due, FromBilled

\* A session that has loaded and written no cost line sets none back.
LEMMA QuietSession ==
    ASSUME NEW t, t.writes = NoLines, t.snap = NoLines
    PROVE  /\ \A b : \A c \in CostLines : NotBehind(b, c, t)
           /\ t.op # "record" => BilledSession(t)
<1>1. \A c \in CostLines : t.writes[c].status = "NONE" /\ t.snap[c].status = "NONE"
  BY DEF NoLines, NoLine
<1> QED
  BY <1>1 DEF NotBehind, BilledSession, FromBilled

LEMMA IdleIsQuiet == Idle.writes = NoLines /\ Idle.snap = NoLines /\ Idle.op = "none" /\ Idle.pc = "idle"
  BY DEF Idle

\* A step that only gives request r the session t keeps SerialInv when t is
\* current, unless it met another on its bill, and sets back no line of a bill
\* it did not meet.
LEMMA SerialSession ==
    ASSUME IInv, SerialInv, UNCHANGED db, crossed \subseteq crossed', Met',
           NEW r \in Requests, NEW t, req' = [req EXCEPT ![r] = t],
           BilledSession(t),
           t.pc # "idle" /\ {t.b} \notin crossed' => Current(t),
           \A b \in Bills : \A c \in LinesOf(bill[b]) :
               ~Contended(b, c) /\ {b, t.b} \notin crossed' => NotBehind(b, c, t)
    PROVE  SerialInv'
<1>1. bill' = bill /\ costLine' = costLine /\ paidSum' = paidSum /\ credited' = credited
      /\ debited' = debited
  BY DEF db
<1>2. req'[r] = t /\ \A q \in Requests \ {r} : req'[q] = req[q]
  BY DEF IInv, TypeOK
<1>3. ASSUME NEW b, NEW c, ~Contended(b, c)' PROVE ~Contended(b, c)
  BY <1>1, <1>3 DEF Contended, LinesOf
<1>4. Billing'
  <2>1. \A q \in Requests : BilledSession(req'[q])
    BY <1>2 DEF SerialInv, Billing
  <2>2. ASSUME NEW q \in Requests PROVE BilledSession(req[q])'
    BY <1>1, <2>1 DEF BilledSession, StatusAfter, OwnLines, LinesOf
  <2>3. \A b \in Bills : \A c \in LinesOf(bill[b])' : costLine'[c].status \in FromBilled
    BY <1>1 DEF SerialInv, Billing, LinesOf
  <2> QED
    BY <2>2, <2>3 DEF Billing
<1>5. AllCurrent'
  <2> SUFFICES ASSUME NEW q \in Requests, req'[q].pc # "idle", {req'[q].b} \notin crossed'
               PROVE  Current(req[q])'
    BY DEF AllCurrent, InFlight
  <2>1. Current(req'[q])
    BY <1>2 DEF SerialInv, AllCurrent, InFlight
  <2>2. CurrentRow(req[q])'
    BY <1>1, <2>1 DEF Current, CurrentRow, CurrentRecord, CurrentVerify, CurrentApprove, CurrentPay
  <2>3. CurrentLines(req[q])'
    BY <1>1, <1>3, <2>1 DEF Current, CurrentLines, LinesOf, StatusAfter, Reached
  <2> QED
    BY <2>2, <2>3 DEF Current
<1>6. LedgerAgrees'
  BY <1>1 DEF SerialInv, LedgerAgrees
<1>7. Followed'
  <2> SUFFICES ASSUME NEW b \in Bills, NEW c \in LinesOf(bill[b])', ~Contended(b, c)'
               PROVE  /\ costLine'[c].status \in Due(bill[b])'
                      /\ \A q \in Requests : {b, req'[q].b} \notin crossed' => NotBehind(b, c, req[q])'
    BY DEF Followed
  <2>1. c \in LinesOf(bill[b]) /\ Due(bill[b])' = Due(bill[b]) /\ ~Contended(b, c)
    BY <1>1, <1>3 DEF LinesOf, Due
  <2>2. \A q \in Requests : {b, req'[q].b} \notin crossed' => NotBehind(b, c, req'[q])
    BY <1>2, <2>1 DEF SerialInv, Followed
  <2> QED
    BY <1>1, <2>1, <2>2 DEF SerialInv, Followed, NotBehind
<1> QED
  BY <1>4, <1>5, <1>6, <1>7 DEF SerialInv

\* A request that goes on, or ends, has met the same ones as before.
LEMMA GoesOn ==
    ASSUME IInv, Met, crossed' = crossed, NEW r \in Requests, InFlight(r), NEW t,
           req' = [req EXCEPT ![r] = t], t.b = req[r].b \/ t.pc = "idle"
    PROVE  Met'
<1>1. req'[r] = t /\ \A q \in Requests \ {r} : req'[q] = req[q]
  BY DEF IInv, TypeOK
<1> SUFFICES ASSUME NEW p \in Requests, NEW q \in Requests, req'[p].pc # "idle",
                    req'[q].pc # "idle", p # q
             PROVE  {req'[p].b, req'[q].b} \in crossed
  BY DEF Met, InFlight
<1>2. InFlight(p) /\ InFlight(q) /\ req'[p].b = req[p].b /\ req'[q].b = req[q].b
  BY <1>1 DEF InFlight
<1> QED
  BY <1>2 DEF Met

\* A request that begins meets all that are in flight.
LEMMA Begins ==
    ASSUME IInv, Met, NEW r \in Requests, req[r].pc = "idle", NEW b \in Bills,
           crossed' = crossed \cup Meeting(b), NEW t, t.b = b, req' = [req EXCEPT ![r] = t]
    PROVE  Met'
<1>1. req'[r] = t /\ \A q \in Requests \ {r} : req'[q] = req[q]
  BY DEF IInv, TypeOK
<1>2. ASSUME NEW q \in Requests, req[q].pc # "idle" PROVE {b, req[q].b} \in crossed'
  BY <1>2 DEF Meeting
<1> SUFFICES ASSUME NEW p \in Requests, NEW q \in Requests, req'[p].pc # "idle",
                    req'[q].pc # "idle", p # q
             PROVE  {req'[p].b, req'[q].b} \in crossed'
  BY DEF Met, InFlight
<1>3. CASE p # r /\ q # r
  BY <1>1, <1>3 DEF Met, InFlight
<1>4. CASE p # r /\ q = r
  <2>1. {b, req[p].b} \in crossed' /\ req'[p].b = req[p].b /\ req'[q].b = b
    BY <1>1, <1>2, <1>4
  <2>2. {req[p].b, b} = {b, req[p].b}
    OBVIOUS
  <2> QED
    BY <2>1, <2>2
<1>5. CASE p = r /\ q # r
  BY <1>1, <1>2, <1>5
<1> QED
  BY <1>3, <1>4, <1>5

LEMMA RollbackSerial ==
    ASSUME IInv, SerialInv, NEW r \in Requests, Rollback(r)
    PROVE  SerialInv'
<1>1. UNCHANGED db /\ crossed' = crossed /\ req' = [req EXCEPT ![r] = Idle] /\ InFlight(r)
  BY DEF Rollback, InFlight
<1>2. Met'
  BY <1>1, IdleIsQuiet, GoesOn DEF SerialInv
<1>3. \A b \in Bills : LinesOf(bill[b]) \subseteq CostLines
  BY LinesAreCostLines DEF IInv, TypeOK
<1>4. BilledSession(Idle) /\ \A b \in Bills : \A c \in LinesOf(bill[b]) : NotBehind(b, c, Idle)
  BY <1>3, IdleIsQuiet, QuietSession
<1> QED
  BY <1>1, <1>2, <1>4, IdleIsQuiet, SerialSession

LEMMA LoadRecordSerial ==
    ASSUME IInv, SerialInv, NEW r \in Requests, NEW b \in Bills, NEW i \in BillInputs,
           LoadRecord(r, b, i)
    PROVE  SerialInv'
<1> DEFINE ses(todo) == [Idle EXCEPT !.pc = "matching", !.op = "record", !.b = b, !.snap = costLine,
                         !.new = [NoBill EXCEPT !.total = i.tax], !.todo = todo]
<1>1. PICK todo : req' = [req EXCEPT ![r] = ses(todo)]
  <2> DEFINE list(ids) == [k \in DOMAIN i.lines |->
                [code |-> i.lines[k].code, id |-> ids[k], amount |-> i.lines[k].amount]]
  <2>1. PICK ids \in [DOMAIN i.lines -> CostLines \cup {"none"}] :
           req' = [req EXCEPT ![r] = ses(list(ids))]
    BY Zenon DEF LoadRecord
  <2> HIDE DEF ses, list
  <2> QED
    BY <2>1
<1>2. UNCHANGED db /\ crossed' = crossed \cup Meeting(b) /\ req[r].pc = "idle"
  BY DEF LoadRecord
<1> DEFINE t == ses(todo)
<1>3. /\ t.pc = "matching" /\ t.op = "record" /\ t.b = b /\ t.snap = costLine
      /\ t.writes = NoLines /\ t.new.lines = <<>> /\ t.new.verification = "PENDING"
  BY DEF Idle, NoBill
<1> HIDE DEF t, ses
<1>4. Current(t) /\ BilledSession(t)
  <2>1. LinesOf(t.new) = {}
    BY <1>3 DEF LinesOf
  <2>2. \A c \in CostLines : t.writes[c].status = "NONE"
    BY <1>3 DEF NoLines, NoLine
  <2> QED
    BY <1>3, <2>1, <2>2 DEF Current, CurrentRow, CurrentRecord, CurrentVerify, CurrentApprove,
       CurrentPay, CurrentLines, BilledSession
<1>5. ASSUME NEW x \in Bills, NEW c \in LinesOf(bill[x]), ~Contended(x, c)
      PROVE  NotBehind(x, c, t)
  <2>1. c \in CostLines
    BY LinesAreCostLines DEF IInv, TypeOK
  <2>2. costLine[c].status \in Due(bill[x])
    BY <1>5 DEF SerialInv, Followed
  <2> QED
    BY <1>3, <2>1, <2>2 DEF NotBehind, NoLines, NoLine
<1>6. Met'
  BY <1>1, <1>2, <1>3, Begins DEF SerialInv, t
<1> QED
  BY <1>1, <1>2, <1>4, <1>5, <1>6, SerialSession DEF t

\* A request that has just loaded bill b holds it as it is.
LEMMA LoadedSerial ==
    ASSUME IInv, SerialInv, UNCHANGED db, NEW r \in Requests, req[r].pc = "idle", NEW b \in Bills,
           crossed' = crossed \cup Meeting(b), NEW t, req' = [req EXCEPT ![r] = t],
           t.b = b, t.row = bill[b], t.snap = NoLines, t.writes = NoLines,
           t.pc # "flushed", t.op # "record", CurrentRow(t)
    PROVE  SerialInv'
<1>1. \A x \in Bills : LinesOf(bill[x]) \subseteq CostLines
  BY LinesAreCostLines DEF IInv, TypeOK
<1>2. BilledSession(t) /\ \A x \in Bills : \A c \in LinesOf(bill[x]) : NotBehind(x, c, t)
  BY <1>1, QuietSession
<1>3. Met'
  BY Begins DEF SerialInv
<1>4. Current(t)
  BY DEF Current, CurrentLines
<1> QED
  BY <1>2, <1>3, <1>4, SerialSession

LEMMA LoadVerifySerial ==
    ASSUME IInv, SerialInv, NEW r \in Requests, NEW b \in Bills, NEW allow \in BOOLEAN,
           LoadVerify(r, b, allow)
    PROVE  SerialInv'
<1> DEFINE lines == [k \in DOMAIN bill[b].lines |->
                       [bill[b].lines[k] EXCEPT !.status = "VERIFIED"]]
           new == [bill[b] EXCEPT !.verification = "VERIFIED", !.status = "VERIFIED", !.lines = lines]
           t == Loaded(b, "verify", "checked", new)
<1>1. /\ req' = [req EXCEPT ![r] = t] /\ UNCHANGED db /\ bill[b].status # "PAID"
      /\ crossed' = crossed \cup Meeting(b) /\ req[r].pc = "idle"
  BY DEF LoadVerify, Verifiable
<1>2. new.verification = "VERIFIED"
  BY DEF IInv, TypeOK, BillRow
<1> HIDE DEF new
<1>3. /\ t.pc = "checked" /\ t.op = "verify" /\ t.b = b /\ t.row = bill[b] /\ t.new = new
      /\ t.snap = NoLines /\ t.writes = NoLines
  BY DEF Loaded, Idle
<1> HIDE DEF t
<1>4. CurrentRow(t)
  BY <1>1, <1>2, <1>3 DEF CurrentRow, CurrentRecord, CurrentVerify, CurrentApprove, CurrentPay
<1> QED
  BY <1>1, <1>3, <1>4, LoadedSerial

LEMMA DetectVarianceSerial ==
    ASSUME IInv, SerialInv, NEW r \in Requests, NEW b \in Bills, DetectVariance(r, b)
    PROVE  SerialInv'
<1> DEFINE new == [bill[b] EXCEPT !.verification = "VARIANCE_DETECTED"]
           t == Loaded(b, "verify", "raised", new)
<1>1. /\ req' = [req EXCEPT ![r] = t] /\ UNCHANGED db /\ bill[b].status # "PAID"
      /\ crossed' = crossed \cup Meeting(b) /\ req[r].pc = "idle"
  BY DEF DetectVariance, Verifiable
<1>2. /\ t.pc = "raised" /\ t.op = "verify" /\ t.b = b /\ t.row = bill[b]
      /\ t.snap = NoLines /\ t.writes = NoLines
  BY DEF Loaded, Idle
<1> HIDE DEF t
<1>3. CurrentRow(t)
  BY <1>1, <1>2 DEF CurrentRow, CurrentRecord, CurrentVerify, CurrentApprove, CurrentPay
<1> QED
  BY <1>1, <1>2, <1>3, LoadedSerial

LEMMA LoadApproveSerial ==
    ASSUME IInv, SerialInv, NEW r \in Requests, NEW b \in Bills, LoadApprove(r, b)
    PROVE  SerialInv'
<1> DEFINE new == [bill[b] EXCEPT !.approval = "APPROVED", !.status = "APPROVED"]
           t == Loaded(b, "approve", "checked", new)
<1>1. /\ req' = [req EXCEPT ![r] = t] /\ UNCHANGED db /\ bill[b].verification = "VERIFIED"
      /\ crossed' = crossed \cup Meeting(b) /\ req[r].pc = "idle"
  BY DEF LoadApprove, Approvable
<1>2. new.verification = "VERIFIED"
  BY <1>1 DEF IInv, TypeOK, BillRow
<1> HIDE DEF new
<1>3. /\ t.pc = "checked" /\ t.op = "approve" /\ t.b = b /\ t.row = bill[b] /\ t.new = new
      /\ t.snap = NoLines /\ t.writes = NoLines
  BY DEF Loaded, Idle
<1> HIDE DEF t
<1>4. CurrentRow(t)
  BY <1>1, <1>2, <1>3 DEF CurrentRow, CurrentRecord, CurrentVerify, CurrentApprove, CurrentPay
<1> QED
  BY <1>1, <1>3, <1>4, LoadedSerial

LEMMA LoadPaySerial ==
    ASSUME IInv, SerialInv, NEW r \in Requests, NEW b \in Bills, NEW a \in PayAmounts,
           LoadPay(r, b, a)
    PROVE  SerialInv'
<1> DEFINE t == [Loaded(b, "pay", "loaded", bill[b]) EXCEPT !.amount = a]
<1>1. /\ req' = [req EXCEPT ![r] = t] /\ UNCHANGED db /\ a > 0
      /\ crossed' = crossed \cup Meeting(b) /\ req[r].pc = "idle"
  BY DEF LoadPay
<1>2. /\ t.pc = "loaded" /\ t.op = "pay" /\ t.b = b /\ t.row = bill[b] /\ t.new = bill[b]
      /\ t.amount = a /\ t.snap = NoLines /\ t.writes = NoLines
  BY DEF Loaded, Idle
<1> HIDE DEF t
<1>3. CurrentRow(t)
  BY <1>1, <1>2 DEF CurrentRow, CurrentRecord, CurrentVerify, CurrentApprove, CurrentPay
<1> QED
  BY <1>1, <1>2, <1>3, LoadedSerial

LEMMA SumPaymentsSerial ==
    ASSUME IInv, SerialInv, NEW r \in Requests, SumPayments(r)
    PROVE  SerialInv'
<1> DEFINE s == req[r]
           paid == paidSum[s.b] + s.amount
           status == StatusOncePaid(s.row.total, paid)
           t == [s EXCEPT !.pc = "checked", !.new.paid = paid, !.new.status = status]
<1>1. s \in Session /\ SessionInv(s) /\ s.pc = "loaded" /\ UNCHANGED db /\ crossed' = crossed
  BY DEF IInv, TypeOK, SumPayments
<1>2. req' = [req EXCEPT ![r] = t]
  BY <1>1 DEF SumPayments
<1>3. s.op = "pay"
  BY <1>1 DEF Session, SessionInv, IdleSession, RecordSession, VerifySession, ApproveSession, Idle
<1>4. /\ t.pc = "checked" /\ t.op = "pay" /\ t.b = s.b /\ t.row = s.row /\ t.amount = s.amount
      /\ t.writes = s.writes /\ t.snap = s.snap /\ t.new.paid = paid /\ t.new.status = status
      /\ t.new.verification = s.new.verification
  BY <1>1, <1>3 DEF Session, BillRow
<1> HIDE DEF t
<1>5. InFlight(r) /\ ({s.b} \notin crossed => Current(s))
  BY <1>1 DEF SerialInv, AllCurrent, InFlight
<1>6. {t.b} \notin crossed => Current(t)
  BY <1>3, <1>4, <1>5 DEF Current, CurrentRow, CurrentRecord, CurrentVerify, CurrentApprove,
     CurrentPay, CurrentLines
<1>7. \A x \in Bills : \A c \in LinesOf(bill[x]) :
         ~Contended(x, c) /\ {x, t.b} \notin crossed => NotBehind(x, c, t)
  BY <1>4 DEF SerialInv, Followed, NotBehind
<1>8. BilledSession(t)
  <2>1. BilledSession(s)
    BY DEF SerialInv, Billing
  <2> QED
    BY <1>3, <1>4, <2>1 DEF BilledSession, OwnLines
<1>9. Met'
  BY <1>1, <1>2, <1>4, <1>5, GoesOn DEF SerialInv
<1> QED
  BY <1>1, <1>2, <1>6, <1>7, <1>8, <1>9, SerialSession

\* One more line on a bill that is being recorded, when what is written to its
\* cost line sets no bill back that the session did not meet.
LEMMA LineAddedSerial ==
    ASSUME IInv, SerialInv, UNCHANGED db, crossed' = crossed, NEW r \in Requests,
           req[r].pc = "matching", NEW c \in CostLines, NEW line, NEW variance, NEW status,
           NEW written,
           req' = [req EXCEPT ![r] = WithLine(req[r], c, line, variance, status, written)],
           \A x \in Bills :
               c \in LinesOf(bill[x]) /\ ~Contended(x, c) /\ {x, req[r].b} \notin crossed =>
                   written.status \in Due(bill[x]) \cup {"NONE"},
           \/ written.status \in FromBilled
           \/ written.status = "NONE" /\ costLine[c].status \in FromBilled
    PROVE  SerialInv'
<1> DEFINE s == req[r]
           t == WithLine(s, c, line, variance, status, written)
<1>1. s \in Session /\ SessionInv(s) /\ InFlight(r)
  BY DEF IInv, TypeOK, InFlight
<1>2. s.op = "record"
  BY <1>1 DEF Session, SessionInv, IdleSession, BillSession, Idle
<1>3. /\ t.pc = "matching" /\ t.op = "record" /\ t.b = s.b /\ t.snap = s.snap
      /\ t.writes = [s.writes EXCEPT ![c] = written]
      /\ t.new.verification = s.new.verification
      /\ t.new.lines = Append(s.new.lines, [cl |-> c, status |-> status])
  BY <1>1, <1>2 DEF WithLine, Session, BillRow
<1>4. t.writes[c] = written /\ \A d \in CostLines \ {c} : t.writes[d] = s.writes[d]
  BY <1>1, <1>3 DEF Session
<1>5. s.new \in BillRow /\ s.new.lines \in Seq(PayableLine)
  BY <1>1 DEF Session, BillRow
<1>6. \A d \in LinesOf(t.new) : d = c \/ d \in LinesOf(s.new)
  <2> HIDE DEF t, s
  <2> SUFFICES ASSUME NEW k \in DOMAIN t.new.lines
               PROVE  t.new.lines[k].cl = c \/ t.new.lines[k].cl \in LinesOf(s.new)
    BY DEF LinesOf
  <2>1. k \in 1 .. Len(s.new.lines) + 1 /\ Len(s.new.lines) \in Nat
    BY <1>3, <1>5
  <2>2. CASE k = Len(s.new.lines) + 1
    BY <1>3, <1>5, <2>1, <2>2
  <2>3. CASE k \in 1 .. Len(s.new.lines)
    <3>1. t.new.lines[k] = s.new.lines[k] /\ k \in DOMAIN s.new.lines
      BY <1>3, <1>5, <2>1, <2>3
    <3> QED
      BY <3>1 DEF LinesOf
  <2> QED
    BY <2>1, <2>2, <2>3
<1>7. LinesOf(s.new) \subseteq CostLines
  BY <1>5, LinesAreCostLines
<1>8. {s.b} \notin crossed => Current(s)
  BY <1>1 DEF SerialInv, AllCurrent
<1>9. BilledSession(s)
  BY DEF SerialInv, Billing
<1>10. c \in LinesOf(t.new) /\ LinesOf(s.new) \subseteq LinesOf(t.new)
  <2> HIDE DEF t, s
  <2>1. /\ Len(s.new.lines) + 1 \in DOMAIN t.new.lines
        /\ t.new.lines[Len(s.new.lines) + 1] = [cl |-> c, status |-> status]
    BY <1>3, <1>5
  <2>2. \A k \in DOMAIN s.new.lines : k \in DOMAIN t.new.lines /\ t.new.lines[k] = s.new.lines[k]
    BY <1>3, <1>5
  <2> QED
    BY <2>1, <2>2 DEF LinesOf
<1> HIDE DEF t
<1>11. {t.b} \notin crossed' => Current(t)
  BY <1>2, <1>3, <1>8 DEF Current, CurrentRow, CurrentRecord, CurrentVerify, CurrentApprove,
     CurrentPay, CurrentLines
<1>12. BilledSession(t)
  <2>1. StatusAfter(t, c) \in FromBilled
    BY <1>4 DEF StatusAfter, FromBilled
  <2>2. ASSUME NEW d \in LinesOf(s.new), d # c PROVE StatusAfter(t, d) \in FromBilled
    BY <1>2, <1>4, <1>7, <1>9, <2>2 DEF BilledSession, StatusAfter
  <2>3. \A d \in LinesOf(t.new) : StatusAfter(t, d) \in FromBilled
    BY <1>6, <2>1, <2>2
  <2>4. ASSUME NEW d \in CostLines
        PROVE  /\ t.writes[d].status \in FromBilled \cup {"NONE"}
               /\ t.writes[d].status # "NONE" => d \in LinesOf(t.new)
               /\ t.snap[d].status \in FromBilled => costLine[d].status \in FromBilled
    <3>1. CASE d = c
      BY <1>3, <1>4, <1>9, <1>10, <3>1 DEF BilledSession
    <3>2. CASE d # c
      BY <1>2, <1>3, <1>4, <1>9, <1>10, <3>2 DEF BilledSession, OwnLines
    <3> QED
      BY <3>1, <3>2
  <2> QED
    BY <1>3, <2>3, <2>4 DEF BilledSession, OwnLines
<1>13. ASSUME NEW x \in Bills, NEW d \in LinesOf(bill[x]), ~Contended(x, d), {x, t.b} \notin crossed'
       PROVE  NotBehind(x, d, t)
  <2>1. d \in CostLines
    BY LinesAreCostLines DEF IInv, TypeOK
  <2>2. NotBehind(x, d, s)
    BY <1>3, <1>13 DEF SerialInv, Followed
  <2>3. CASE d = c
    BY <1>3, <1>4, <1>13, <2>2, <2>3 DEF NotBehind
  <2>4. CASE d # c
    BY <1>3, <1>4, <2>1, <2>2, <2>4 DEF NotBehind
  <2> QED
    BY <2>3, <2>4
<1>14. Met'
  BY <1>1, <1>3, GoesOn DEF SerialInv, t
<1> QED
  BY <1>11, <1>12, <1>13, <1>14, SerialSession DEF t

LEMMA MatchLineSerial ==
    ASSUME IInv, SerialInv, NEW r \in Requests, MatchLine(r)
    PROVE  SerialInv'
<1> DEFINE s == req[r]
<1>1. PICK c \in CostLines :
        /\ Seen(s, c).status # "NONE"
        /\ req' = [req EXCEPT ![r] = WithLine(s, c, Head(s.todo), Variance(s, c),
                                           MatchStatus(Variance(s, c)), Billed(s, c))]
  BY DEF MatchLine
<1>2. /\ s \in Session /\ SessionInv(s) /\ s.pc = "matching" /\ UNCHANGED db
      /\ crossed' = crossed /\ costLine[c] \in Line
  BY DEF IInv, TypeOK, MatchLine
<1>3. s.op = "record" /\ s.writes[c].status \in {"NONE", "BILLED"}
  BY <1>2 DEF Session, SessionInv, IdleSession, BillSession, RecordSession, Idle
<1>4. ASSUME NEW x \in Bills, c \in LinesOf(bill[x]), ~Contended(x, c), {x, s.b} \notin crossed
      PROVE  Billed(s, c).status \in Due(bill[x]) \cup {"NONE"}
  <2>1. NotBehind(x, c, s) /\ costLine[c].status \in Due(bill[x])
    BY <1>4 DEF SerialInv, Followed
  <2>2. Seen(s, c).status \in Due(bill[x])
    BY <1>1, <2>1 DEF NotBehind, Seen
  <2>3. Billed(s, c) = s.writes[c]
    BY <2>2 DEF Billed, Due, FromBilled
  <2> QED
    BY <2>1, <2>3 DEF NotBehind
<1>5. \/ Billed(s, c).status \in FromBilled
      \/ Billed(s, c).status = "NONE" /\ costLine[c].status \in FromBilled
  <2>1. BilledSession(s) /\ s.snap[c] \in Line /\ Seen(s, c) \in Line
    BY <1>2 DEF SerialInv, Billing, Session, Seen
  <2>2. CASE Seen(s, c).status \in {"ESTIMATED", "ACCRUED"}
    BY <2>1, <2>2 DEF Billed, Line, FromBilled
  <2>3. CASE Seen(s, c).status \notin {"ESTIMATED", "ACCRUED"}
    <3>1. Seen(s, c).status \in FromBilled
      BY <1>1, <2>1, <2>3 DEF Line, CostStatus, FromBilled
    <3>2. costLine[c].status \in FromBilled
      BY <2>1, <3>1 DEF BilledSession, Seen
    <3>3. Billed(s, c) = s.writes[c]
      BY <2>3 DEF Billed
    <3> QED
      BY <1>3, <3>2, <3>3 DEF FromBilled
  <2> QED
    BY <2>2, <2>3
<1> QED
  BY <1>1, <1>2, <1>4, <1>5, LineAddedSerial

LEMMA AddChargeSerial ==
    ASSUME IInv, SerialInv, NEW r \in Requests, AddCharge(r)
    PROVE  SerialInv'
<1> DEFINE line == Head(req[r].todo)
           charge == [code |-> line.code, amount |-> line.amount, status |-> "BILLED"]
<1>1. PICK c \in CostLines :
        /\ costLine[c].status = "NONE"
        /\ req' = [req EXCEPT ![r] = WithLine(req[r], c, line, line.amount, "ADDITIONAL_CHARGE", charge)]
  BY DEF AddCharge
<1>2. req[r].pc = "matching" /\ UNCHANGED db /\ crossed' = crossed
  BY DEF AddCharge
<1>3. charge.status = "BILLED"
  OBVIOUS
<1> HIDE DEF charge
<1>4. ASSUME NEW x \in Bills, c \in LinesOf(bill[x]) PROVE FALSE
  <2>1. costLine[c].status \in FromBilled
    BY <1>4 DEF SerialInv, Billing
  <2> QED
    BY <1>1, <2>1 DEF FromBilled
<1>5. charge.status \in FromBilled
  BY <1>3 DEF FromBilled
<1> QED
  BY <1>1, <1>2, <1>4, <1>5, LineAddedSerial

LEMMA InsertPayableSerial ==
    ASSUME IInv, SerialInv, NEW r \in Requests, InsertPayable(r)
    PROVE  SerialInv'
<1> DEFINE s == req[r]
           t == [s EXCEPT !.pc = "flushed", !.new.status = "RECEIVED", !.snap = NoLines]
<1>1. /\ s \in Session /\ SessionInv(s) /\ s.pc = "matching" /\ UNCHANGED db /\ crossed' = crossed
      /\ InFlight(r)
  BY DEF IInv, TypeOK, InsertPayable, InFlight
<1>2. req' = [req EXCEPT ![r] = t]
  <2>1. req[r] \in Session /\ req \in [Requests -> Session]
    BY DEF IInv, TypeOK
  <2> QED
    BY <2>1 DEF InsertPayable
<1>3. s.op = "record"
  BY <1>1 DEF Session, SessionInv, IdleSession, BillSession, Idle
<1>4. /\ t.pc = "flushed" /\ t.op = "record" /\ t.writes = s.writes /\ t.b = s.b
      /\ t.snap = NoLines /\ t.new.verification = s.new.verification /\ t.new.lines = s.new.lines
  BY <1>1, <1>3 DEF Session, BillRow
<1> HIDE DEF t
<1>5. {t.b} \notin crossed => Current(t)
  <2> SUFFICES ASSUME {s.b} \notin crossed PROVE Current(t)
    BY <1>4
  <2>1. CurrentRecord(s)
    BY <1>1 DEF SerialInv, AllCurrent, Current, CurrentRow
  <2>2. LinesOf(bill[s.b]) = {}
    <3>1. s.b \in Bills /\ ~Exists(s.b)
      BY <1>1 DEF IInv, HasBill, InFlight, InsertPayable
    <3> QED
      BY <3>1 DEF IInv, BillInv, NoBill, LinesOf
  <2> QED
    BY <1>3, <1>4, <2>1, <2>2 DEF Current, CurrentRow, CurrentRecord, CurrentVerify, CurrentApprove,
       CurrentPay, CurrentLines
<1>6. ASSUME NEW x \in Bills, NEW c \in LinesOf(bill[x]), ~Contended(x, c), {x, t.b} \notin crossed
      PROVE  NotBehind(x, c, t)
  <2>1. c \in CostLines /\ NotBehind(x, c, s)
    BY <1>4, <1>6, LinesAreCostLines DEF IInv, TypeOK, SerialInv, Followed
  <2> QED
    BY <1>4, <2>1 DEF NotBehind, NoLines, NoLine
<1>7. BilledSession(t)
  <2>1. BilledSession(s)
    BY DEF SerialInv, Billing
  <2>2. LinesOf(t.new) = LinesOf(s.new) /\ \A c : StatusAfter(t, c) = StatusAfter(s, c)
    BY <1>4 DEF LinesOf, StatusAfter
  <2>3. \A c \in CostLines : t.snap[c].status = "NONE"
    BY <1>4 DEF NoLines, NoLine
  <2> QED
    BY <1>3, <1>4, <2>1, <2>2, <2>3 DEF BilledSession, OwnLines, FromBilled
<1>8. Met'
  BY <1>1, <1>2, <1>4, GoesOn DEF SerialInv
<1> QED
  BY <1>1, <1>2, <1>5, <1>6, <1>7, <1>8, SerialSession

\* What each operation makes of a cost line that is where it is due.
LEMMA VerifyReaches ==
    ASSUME NEW s, s.op = "verify", NEW status \in FromBilled
    PROVE  Advance(s, status) \in FromBilled \ {"BILLED"}
<1>1. CASE status = "BILLED"
  BY <1>1 DEF Advance, FromBilled
<1>2. CASE status # "BILLED"
  BY <1>2 DEF Advance, FromBilled
<1> QED
  BY <1>1, <1>2

LEMMA ApproveReaches ==
    ASSUME NEW s, s.op = "approve", NEW status \in FromBilled \ {"BILLED"}
    PROVE  Advance(s, status) \in {"APPROVED", "PAID"}
<1>1. CASE status = "VERIFIED"
  BY <1>1 DEF Advance
<1>2. CASE status # "VERIFIED"
  BY <1>2 DEF Advance, FromBilled
<1> QED
  BY <1>1, <1>2

LEMMA PaymentReaches ==
    ASSUME NEW s, s.op = "pay", s.new.status = "PAID", NEW status \in {"APPROVED", "PAID"}
    PROVE  Advance(s, status) = "PAID"
<1>1. CASE status = "APPROVED"
  BY <1>1 DEF Advance
<1>2. CASE status = "PAID"
  BY <1>2 DEF Advance
<1> QED
  BY <1>1, <1>2

LEMMA FlushSerial ==
    ASSUME IInv, SerialInv, NEW r \in Requests, Flush(r)
    PROVE  SerialInv'
<1> DEFINE s == req[r]
           writes == [c \in CostLines |->
                 IF c \in LinesOf(s.row) /\ Advance(s, costLine[c].status) # costLine[c].status
                 THEN [costLine[c] EXCEPT !.status = Advance(s, costLine[c].status)] ELSE NoLine]
           t == [s EXCEPT !.pc = "flushed", !.writes = writes]
<1>1. /\ s \in Session /\ SessionInv(s) /\ s.pc = "checked" /\ UNCHANGED db /\ crossed' = crossed
      /\ InFlight(r) /\ s.b \in Bills
  BY DEF IInv, TypeOK, Flush, InFlight, HasBill
<1>2. req' = [req EXCEPT ![r] = t]
  BY <1>1 DEF Flush
<1>3. s.op \in {"verify", "approve", "pay"}
  BY <1>1 DEF Session, SessionInv, IdleSession, RecordSession, Idle
<1>4. LinesOf(s.row) = LinesOf(bill[s.b])
  BY <1>1, <1>3 DEF SessionInv, BillSession
<1>5. ASSUME NEW c \in CostLines
      PROVE  /\ writes[c].status \in {"NONE", Advance(s, costLine[c].status)}
             /\ c \in LinesOf(s.row) /\ writes[c].status = "NONE" =>
                   Advance(s, costLine[c].status) = costLine[c].status
  <2>1. costLine[c] \in Line
    BY DEF IInv, TypeOK
  <2>2. CASE c \in LinesOf(s.row) /\ Advance(s, costLine[c].status) # costLine[c].status
    <3>1. writes[c].status = Advance(s, costLine[c].status)
      BY <2>1, <2>2 DEF Line
    <3>2. Advance(s, costLine[c].status) # "NONE"
      BY <2>2 DEF Advance
    <3> QED
      BY <3>1, <3>2
  <2>3. CASE ~(c \in LinesOf(s.row) /\ Advance(s, costLine[c].status) # costLine[c].status)
    BY <2>3 DEF NoLine
  <2> QED
    BY <2>2, <2>3
<1>6. /\ t.pc = "flushed" /\ t.op = s.op /\ t.b = s.b /\ t.row = s.row /\ t.amount = s.amount
      /\ t.writes = writes /\ t.new = s.new /\ t.snap = s.snap
  BY <1>1 DEF Session
<1> HIDE DEF t, writes
<1>7. \A c \in CostLines : c \in LinesOf(s.row) => StatusAfter(t, c) = Advance(s, costLine[c].status)
  BY <1>5, <1>6 DEF StatusAfter
<1>8. {t.b} \notin crossed' => Current(t)
  <2> SUFFICES ASSUME {s.b} \notin crossed PROVE Current(t)
    BY <1>1, <1>6
  <2>1. CurrentRow(s)
    BY <1>1 DEF SerialInv, AllCurrent, Current
  <2>2. CurrentRow(t)
    BY <1>1, <1>3, <1>6, <2>1 DEF CurrentRow, CurrentRecord, CurrentVerify, CurrentApprove, CurrentPay
  <2>3. ASSUME NEW c \in LinesOf(bill[s.b]), ~Contended(s.b, c)
        PROVE  StatusAfter(t, c) \in Reached(t)
    <3>1. c \in CostLines /\ costLine[c].status \in Due(bill[s.b])
      BY <1>1, <2>3, LinesAreCostLines DEF SerialInv, Followed, IInv, TypeOK
    <3>2. StatusAfter(t, c) = Advance(s, costLine[c].status)
      BY <1>4, <1>7, <3>1
    <3>3. Due(bill[s.b]) \subseteq FromBilled
      BY DEF Due, FromBilled
    <3>4. CASE s.op = "verify"
      <4>1. Advance(s, costLine[c].status) \in FromBilled \ {"BILLED"}
        BY <3>1, <3>3, <3>4, VerifyReaches
      <4> QED
        BY <1>6, <3>2, <3>4, <4>1 DEF Reached
    <3>5. CASE s.op = "approve"
      <4>1. Due(bill[s.b]) \subseteq FromBilled \ {"BILLED"}
        BY <2>1, <3>5 DEF CurrentRow, CurrentApprove, Due, FromBilled
      <4>2. Advance(s, costLine[c].status) \in {"APPROVED", "PAID"}
        BY <3>1, <3>5, <4>1, ApproveReaches
      <4> QED
        BY <1>6, <3>2, <3>5, <4>2 DEF Reached
    <3>6. CASE s.op = "pay" /\ s.new.status = "PAID"
      <4>1. Due(bill[s.b]) \subseteq {"APPROVED", "PAID"}
        BY <1>1, <3>6 DEF SessionInv, PaySession, Due
      <4>2. Advance(s, costLine[c].status) = "PAID"
        BY <3>1, <3>6, <4>1, PaymentReaches
      <4> QED
        BY <1>6, <3>2, <3>6, <4>2 DEF Reached
    <3>7. CASE s.op = "pay" /\ s.new.status # "PAID"
      <4>1. Advance(s, costLine[c].status) \in FromBilled
        BY <3>1, <3>3, AdvanceStaysDue
      <4> QED
        BY <1>6, <3>2, <3>7, <4>1 DEF Reached
    <3> QED
      BY <1>3, <3>4, <3>5, <3>6, <3>7
  <2> QED
    BY <1>6, <2>2, <2>3 DEF Current, CurrentLines
<1>9. ASSUME NEW x \in Bills, NEW c \in LinesOf(bill[x]), ~Contended(x, c), {x, t.b} \notin crossed
      PROVE  NotBehind(x, c, t)
  <2>1. c \in CostLines /\ NotBehind(x, c, s) /\ costLine[c].status \in Due(bill[x])
    BY <1>6, <1>9, LinesAreCostLines DEF IInv, TypeOK, SerialInv, Followed
  <2>2. Advance(s, costLine[c].status) \in Due(bill[x])
    BY <2>1, AdvanceStaysDue
  <2> QED
    BY <1>5, <1>6, <2>1, <2>2 DEF NotBehind
<1>10. BilledSession(t)
  <2>1. BilledSession(s)
    BY DEF SerialInv, Billing
  <2>2. ASSUME NEW c \in CostLines, writes[c].status # "NONE"
        PROVE  c \in LinesOf(s.row) /\ writes[c].status \in FromBilled
    <3>1. c \in LinesOf(s.row)
      BY <2>2 DEF writes, NoLine
    <3>2. costLine[c].status \in FromBilled
      BY <1>1, <1>4, <3>1 DEF SerialInv, Billing
    <3>3. Advance(s, costLine[c].status) \in FromBilled
      BY <3>2 DEF Advance, FromBilled
    <3> QED
      BY <1>5, <2>2, <3>1, <3>3
  <2> QED
    BY <1>3, <1>4, <1>6, <2>1, <2>2 DEF BilledSession, OwnLines
<1>11. Met'
  BY <1>1, <1>2, <1>6, GoesOn DEF SerialInv
<1> QED
  BY <1>1, <1>2, <1>8, <1>9, <1>10, <1>11, SerialSession

\* What a commit leaves of the bill and its ledger, when no two requests on the
\* bill met.
LEMMA CommittedAlone ==
    ASSUME IInv, SerialInv, NEW r \in Requests, Commit(r), {req[r].b} \notin crossed
    PROVE  LET s == req[r]
               b == req[r].b
               new == Committed(s)
           IN  /\ credited'[b] = IF new.approval = "APPROVED" THEN new.total ELSE 0
               /\ debited'[b] = new.paid /\ new.paid = paidSum'[b]
               /\ new.status = "PAID" <=> new.paid > 0 /\ new.paid = new.total
               /\ \A c \in LinesOf(new) : ~Contended(b, c) => StatusAfter(s, c) \in Due(new)
<1> DEFINE s == req[r]
           b == req[r].b
           new == Committed(s)
<1>1. s \in Session /\ SessionInv(s) /\ b \in Bills /\ s.pc = "flushed"
  BY DEF IInv, TypeOK, HasBill, Commit
<1>2. CurrentRow(s) /\ CurrentLines(s)
  BY <1>1 DEF SerialInv, AllCurrent, InFlight, Current
<1>3. /\ bill[b] \in BillRow /\ s.new \in BillRow /\ s.row \in BillRow
      /\ paidSum[b] \in Nat /\ credited[b] \in Nat /\ s.amount \in Nat
  BY <1>1 DEF IInv, TypeOK, Session
<1>4. /\ paidSum'[b] = paidSum[b] + s.amount /\ debited'[b] = debited[b] + s.amount
      /\ credited'[b] = (IF s.op = "approve" THEN credited[b] + s.row.total ELSE credited[b])
  BY <1>1 DEF Commit, IInv, TypeOK
<1>5. /\ credited[b] = IF bill[b].approval = "APPROVED" THEN bill[b].total ELSE 0
      /\ debited[b] = bill[b].paid /\ bill[b].paid = paidSum[b]
      /\ bill[b].status = "PAID" <=> bill[b].paid > 0 /\ bill[b].paid = bill[b].total
  BY <1>1 DEF SerialInv, LedgerAgrees
<1>6. ASSUME NEW c \in LinesOf(bill[b]), ~Contended(b, c)
      PROVE  StatusAfter(s, c) \in Due(bill[b]) /\ StatusAfter(s, c) \in Reached(s)
  <2>1. {b, s.b} = {s.b}
    OBVIOUS
  <2> QED
    BY <1>1, <1>2, <1>6, <2>1 DEF SerialInv, Followed, NotBehind, StatusAfter, CurrentLines
<1>7. bill[b].total \in Nat /\ bill[b].paid \in Nat /\ s.new.total \in Nat
  BY <1>3 DEF BillRow
<1>8. CASE s.op = "record"
  <2>1. new = s.new /\ ~Exists(b)
    BY <1>1, <1>8 DEF Committed, SessionInv, RecordSession
  <2>2. bill[b].approval = "PENDING" /\ bill[b].paid = 0 /\ paidSum[b] = 0
    BY <1>1, <2>1 DEF IInv, BillInv, NoBill
  <2>3. /\ s.new.paid = 0 /\ s.new.approval = "PENDING" /\ s.new.status = "RECEIVED" /\ s.amount = 0
    BY <1>1, <1>8 DEF SessionInv, RecordSession
  <2>4. \A c \in LinesOf(s.new) : StatusAfter(s, c) \in FromBilled
    BY <1>8 DEF SerialInv, Billing, BilledSession
  <2>5. Due(s.new) = FromBilled
    BY <1>2, <1>8, <2>3 DEF Due, CurrentRow, CurrentRecord
  <2> QED
    BY <1>4, <1>5, <1>8, <2>1, <2>2, <2>3, <2>4, <2>5
<1>9. CASE s.op # "record"
  <2>0. s.op \in {"verify", "approve", "pay"} /\ s.row = bill[b]
    BY <1>1, <1>2, <1>9 DEF Session, SessionInv, IdleSession, Idle, CurrentRow, CurrentVerify,
       CurrentApprove, CurrentPay
  <2>1. /\ new.total = bill[b].total /\ new.status = s.new.status
        /\ new.approval = s.new.approval /\ new.paid = s.new.paid
        /\ LinesOf(new) = LinesOf(bill[b])
    BY <1>1, <1>9, <2>0, CommittedRow DEF Written
  <2>2. new.verification = s.new.verification
    BY <1>3, <1>9, <2>0 DEF Committed, Written, BillRow
  <2> HIDE DEF new
  <2>3. CASE s.op = "verify"
    <3>1. /\ s.new.approval = bill[b].approval /\ s.new.paid = bill[b].paid /\ s.amount = 0
          /\ s.new.status = "VERIFIED" /\ bill[b].status # "PAID"
      BY <1>1, <1>2, <2>0, <2>3 DEF SessionInv, VerifySession, CurrentRow, CurrentVerify
    <3>2. s.new.verification = "VERIFIED" /\ Reached(s) = FromBilled \ {"BILLED"}
      BY <1>1, <1>2, <2>3 DEF CurrentRow, CurrentVerify, Reached
    <3>3. \A c \in LinesOf(new) : ~Contended(b, c) => StatusAfter(s, c) \in Due(new)
      BY <1>6, <2>1, <2>2, <3>1, <3>2 DEF Due, FromBilled
    <3> QED
      BY <1>4, <1>5, <1>7, <2>1, <2>3, <3>1, <3>3 DEF new
  <2>4. CASE s.op = "approve"
    <3>1. /\ s.new.approval = "APPROVED" /\ s.new.status = "APPROVED" /\ s.new.paid = bill[b].paid
          /\ s.amount = 0 /\ bill[b].approval # "APPROVED"
      BY <1>1, <2>0, <2>4 DEF SessionInv, ApproveSession
    <3>2. paidSum[b] = 0
      BY <1>1, <1>3, <3>1 DEF IInv, RecognisedBeforePaid
    <3>3. Reached(s) = {"APPROVED", "PAID"}
      BY <2>4 DEF Reached
    <3>4. \A c \in LinesOf(new) : ~Contended(b, c) => StatusAfter(s, c) \in Due(new)
      BY <1>6, <2>1, <3>1, <3>3 DEF Due
    <3> QED
      BY <1>4, <1>5, <1>7, <2>0, <2>1, <2>4, <3>1, <3>2, <3>4 DEF new
  <2>5. CASE s.op = "pay"
    <3>1. /\ s.new.approval = bill[b].approval /\ bill[b].approval = "APPROVED"
          /\ s.new.paid <= bill[b].total
      BY <1>1, <2>0, <2>5 DEF SessionInv, PaySession
    <3>2. /\ s.new.paid = paidSum[b] + s.amount /\ s.amount > 0
          /\ s.new.status = StatusOncePaid(bill[b].total, s.new.paid)
      BY <1>1, <1>2, <2>0, <2>5 DEF CurrentRow, CurrentPay
    <3>3. s.new.status = "PAID" => Reached(s) = {"PAID"}
      BY <2>5 DEF Reached
    <3>4. \A c \in LinesOf(bill[b]) : ~Contended(b, c) => StatusAfter(s, c) \in {"APPROVED", "PAID"}
      BY <1>6, <3>1 DEF Due
    <3>5. \A c \in LinesOf(new) : ~Contended(b, c) => StatusAfter(s, c) \in Due(new)
      BY <1>6, <2>1, <3>1, <3>3, <3>4 DEF Due
    <3>6. s.new.status = "PAID" <=> s.new.paid > 0 /\ s.new.paid = bill[b].total
      BY <1>3, <1>7, <3>1, <3>2 DEF StatusOncePaid
    <3> QED
      BY <1>3, <1>4, <1>5, <1>7, <2>1, <2>5, <3>1, <3>2, <3>5, <3>6 DEF new
  <2> QED
    BY <2>0, <2>3, <2>4, <2>5
<1> QED
  BY <1>8, <1>9

\* The lines of a bill are settled when it is recorded.
LEMMA CommitKeepsLines ==
    ASSUME IInv, NEW r \in Requests, Commit(r)
    PROVE  /\ LinesOf(bill'[req[r].b]) = OwnLines(req[r])
           /\ \A x \in Bills : Exists(x) => LinesOf(bill'[x]) = LinesOf(bill[x])
           /\ \A x \in Bills : LinesOf(bill[x]) \subseteq LinesOf(bill'[x])
<1> DEFINE s == req[r]
           b == req[r].b
<1>1. s \in Session /\ SessionInv(s) /\ b \in Bills /\ s.pc = "flushed"
  BY DEF IInv, TypeOK, HasBill, Commit
<1>2. bill'[b] = Committed(s) /\ \A x \in Bills \ {b} : bill'[x] = bill[x]
  BY <1>1 DEF Commit, IInv, TypeOK
<1>3. CASE s.op = "record"
  <2>1. bill'[b] = s.new /\ ~Exists(b)
    BY <1>1, <1>2, <1>3 DEF Committed, SessionInv, RecordSession
  <2>2. LinesOf(bill[b]) = {}
    BY <1>1, <2>1 DEF IInv, BillInv, NoBill, LinesOf
  <2> QED
    BY <1>2, <1>3, <2>1, <2>2 DEF OwnLines
<1>4. CASE s.op # "record"
  <2>1. LinesOf(bill'[b]) = LinesOf(bill[b])
    BY <1>1, <1>2, <1>4, CommittedRow
  <2> QED
    BY <1>2, <1>4, <2>1 DEF OwnLines
<1> QED
  BY <1>3, <1>4

LEMMA CommitSerial ==
    ASSUME IInv, IInv', SerialInv, NEW r \in Requests, Commit(r)
    PROVE  SerialInv'
<1> DEFINE s == req[r]
           b == req[r].b
<1>1. s \in Session /\ b \in Bills /\ s.pc = "flushed" /\ InFlight(r) /\ crossed' = crossed
  BY DEF IInv, TypeOK, HasBill, Commit, InFlight
<1>2. bill'[b] = Committed(s) /\ \A x \in Bills \ {b} : bill'[x] = bill[x]
  BY <1>1 DEF Commit, IInv, TypeOK
<1>3. /\ req' = [req EXCEPT ![r] = Idle]
      /\ req'[r] = Idle /\ \A q \in Requests \ {r} : req'[q] = req[q]
      /\ \A x \in Bills \ {b} : /\ paidSum'[x] = paidSum[x] /\ credited'[x] = credited[x]
                                /\ debited'[x] = debited[x]
  BY <1>1 DEF Commit, IInv, TypeOK
<1>4. \A c \in CostLines : costLine'[c].status = StatusAfter(s, c)
  BY DEF Commit, StatusAfter
<1>5. BilledSession(s) /\ \A x \in Bills : LinesOf(bill[x]) \subseteq CostLines /\ LinesOf(bill'[x]) \subseteq CostLines
  BY LinesAreCostLines DEF SerialInv, Billing, IInv, TypeOK
<1>6. ASSUME NEW c \in CostLines
      PROVE  /\ costLine[c].status \in FromBilled => costLine'[c].status \in FromBilled
             /\ c \notin LinesOf(bill'[b]) => costLine'[c].status = costLine[c].status
  BY <1>4, <1>5, CommitKeepsLines DEF BilledSession, StatusAfter
<1>7. ASSUME NEW x, NEW c, ~Contended(x, c)'
      PROVE  ~Contended(x, c) /\ \A y \in Bills : {x, y} \in crossed => c \notin LinesOf(bill'[y])
  BY <1>1, <1>7, CommitKeepsLines DEF Contended, LinesOf
<1>8. Met'
  BY <1>1, <1>3, GoesOn, IdleIsQuiet DEF SerialInv
<1>9. Billing'
  <2>1. ASSUME NEW q \in Requests PROVE BilledSession(req[q])'
    <3>1. CASE q = r
      <4>1. req'[q] = Idle /\ \A c \in CostLines : Idle.writes[c].status = "NONE" /\ Idle.snap[c].status = "NONE"
        BY <1>3, <3>1, IdleIsQuiet DEF NoLines, NoLine
      <4> QED
        BY <4>1, IdleIsQuiet DEF BilledSession, FromBilled
    <3>2. CASE q # r
      <4>1. req'[q] = req[q] /\ BilledSession(req[q]) /\ req[q] \in Session /\ SessionInv(req[q])
        BY <1>3, <3>2 DEF SerialInv, Billing, IInv, TypeOK
      <4>2. ASSUME NEW c \in CostLines, req[q].writes[c].status # "NONE"
            PROVE  c \in OwnLines(req[q])'
        <5>1. c \in OwnLines(req[q])
          BY <4>1, <4>2 DEF BilledSession
        <5>2. CASE req[q].op = "record"
          BY <4>1, <5>1, <5>2 DEF OwnLines, LinesOf
        <5>3. CASE req[q].op # "record"
          <6>1. req[q].pc # "idle" /\ req[q].op # "none"
            BY <4>1, <4>2, IdleIsQuiet DEF SessionInv, IdleSession, NoLines, NoLine
          <6>2. req[q].b \in Bills /\ Exists(req[q].b)
            BY <4>1, <5>3, <6>1 DEF IInv, HasBill, SessionInv, BillSession, Session
          <6>3. LinesOf(bill[req[q].b])' = LinesOf(bill[req[q].b])
            <7>1. LinesOf(bill'[req[q].b]) = LinesOf(bill[req[q].b])
              BY <6>2, CommitKeepsLines
            <7> QED
              BY <4>1, <7>1 DEF LinesOf
          <6> QED
            BY <4>1, <5>1, <5>3, <6>3 DEF OwnLines
        <5> QED
          BY <5>2, <5>3
      <4>3. req[q].new \in BillRow /\ LinesOf(req[q].new) \subseteq CostLines
        BY <4>1, LinesAreCostLines DEF Session
      <4>4. \A c \in CostLines : StatusAfter(req[q], c) \in FromBilled => StatusAfter(req[q], c)' \in FromBilled
        BY <1>6, <4>1 DEF StatusAfter
      <4>5. LinesOf(req[q].new)' = LinesOf(req[q].new)
        BY <4>1 DEF LinesOf
      <4> QED
        BY <1>6, <4>1, <4>2, <4>3, <4>4, <4>5 DEF BilledSession
    <3> QED
      BY <3>1, <3>2
  <2>2. ASSUME NEW x \in Bills, NEW c \in LinesOf(bill'[x]) PROVE costLine'[c].status \in FromBilled
    <3>1. c \in CostLines
      BY <1>5
    <3>2. CASE c \in LinesOf(bill[x])
      BY <1>6, <3>1, <3>2 DEF SerialInv, Billing
    <3>3. CASE x = b /\ s.op = "record"
      <4>1. c \in LinesOf(s.new)
        BY <3>3, CommitKeepsLines DEF OwnLines
      <4> QED
        BY <1>4, <1>5, <3>1, <3>3, <4>1 DEF BilledSession
    <3> QED
      BY <1>2, <2>2, <3>2, <3>3, CommitKeepsLines DEF OwnLines
  <2> QED
    BY <2>1, <2>2 DEF Billing, LinesOf
<1>10. AllCurrent'
  <2> SUFFICES ASSUME NEW q \in Requests, req'[q].pc # "idle", {req'[q].b} \notin crossed
               PROVE  Current(req[q])'
    BY <1>1 DEF AllCurrent, InFlight
  <2>1. q # r /\ req'[q] = req[q] /\ InFlight(q)
    BY <1>3, IdleIsQuiet DEF InFlight
  <2>2. {req[q].b, b} \in crossed
    BY <1>1, <2>1 DEF SerialInv, Met
  <2>3. req[q].b # b
    BY <2>1, <2>2
  <2>4. req[q].b \in Bills /\ bill'[req[q].b] = bill[req[q].b] /\ paidSum'[req[q].b] = paidSum[req[q].b]
    BY <1>2, <1>3, <2>1, <2>3 DEF IInv, HasBill, InFlight
  <2>5. Current(req[q])
    BY <2>1 DEF SerialInv, AllCurrent
  <2>6. CurrentRow(req[q])'
    BY <2>1, <2>4, <2>5 DEF Current, CurrentRow, CurrentRecord, CurrentVerify, CurrentApprove, CurrentPay
  <2>7. CurrentLines(req[q])'
    <3> SUFFICES ASSUME req[q].pc = "flushed", NEW c \in LinesOf(bill[req[q].b]), ~Contended(req[q].b, c)'
                 PROVE  StatusAfter(req[q], c)' \in Reached(req[q])
      BY <2>1, <2>4 DEF CurrentLines, LinesOf, Reached, Contended
    <3>1. c \in CostLines /\ c \notin LinesOf(bill'[b]) /\ ~Contended(req[q].b, c)
      <4>1. PICK x \in Bills : x = req[q].b /\ x = req'[q].b
        BY <2>1, <2>4
      <4>2. ~Contended(x, c)'
        BY <4>1 DEF Contended
      <4> QED
        BY <1>1, <1>5, <1>7, <2>2, <4>1, <4>2
    <3>2. StatusAfter(req[q], c)' = StatusAfter(req[q], c)
      BY <1>6, <2>1, <3>1 DEF StatusAfter
    <3> QED
      BY <2>5, <3>1, <3>2 DEF Current, CurrentLines
  <2> QED
    BY <2>6, <2>7 DEF Current
<1>11. LedgerAgrees'
  <2> SUFFICES ASSUME NEW x \in Bills, {x} \notin crossed
               PROVE  /\ credited'[x] = IF bill'[x].approval = "APPROVED" THEN bill'[x].total ELSE 0
                      /\ debited'[x] = bill'[x].paid /\ bill'[x].paid = paidSum'[x]
                      /\ bill'[x].status = "PAID" <=> bill'[x].paid > 0 /\ bill'[x].paid = bill'[x].total
    BY <1>1 DEF LedgerAgrees
  <2>1. CASE x = b
    BY <1>2, <2>1, CommittedAlone
  <2>2. CASE x # b
    BY <1>2, <1>3, <2>2 DEF SerialInv, LedgerAgrees
  <2> QED
    BY <2>1, <2>2
<1>12. ASSUME NEW x \in Bills, NEW c \in LinesOf(bill'[x]), ~Contended(x, c)'
       PROVE  /\ costLine'[c].status \in Due(bill'[x])
              /\ \A q \in Requests : {x, req'[q].b} \notin crossed => NotBehind(x, c, req[q])'
  <2>0. c \in CostLines /\ ~Contended(x, c)
    BY <1>5, <1>7, <1>12
  <2>1. ASSUME NEW q \in Requests, req'[q] = Idle PROVE NotBehind(x, c, req[q])'
    BY <2>0, <2>1, IdleIsQuiet DEF NotBehind, NoLines, NoLine
  <2>2. CASE x = b
    <3>1. {x, x} = {x} /\ {x} \notin crossed
      BY <1>7, <1>12
    <3>2. costLine'[c].status \in Due(bill'[x])
      BY <1>2, <1>4, <2>0, <2>2, <3>1, CommittedAlone
    <3>3. ASSUME NEW q \in Requests, {x, req'[q].b} \notin crossed PROVE req'[q] = Idle
      <4> SUFFICES ASSUME q # r PROVE req[q] = Idle
        BY <1>3
      <4>1. {x, req[q].b} = {req[q].b, b} /\ req'[q] = req[q]
        BY <1>3, <2>2
      <4>2. ~InFlight(q)
        BY <1>1, <3>3, <4>1 DEF SerialInv, Met
      <4> QED
        BY <4>2 DEF InFlight, IInv, SessionInv, IdleSession
    <3> QED
      BY <2>1, <3>2, <3>3
  <2>3. CASE x # b
    <3>1. bill'[x] = bill[x] /\ c \in LinesOf(bill[x])
      BY <1>2, <2>3
    <3>2. /\ costLine[c].status \in Due(bill[x])
          /\ \A q \in Requests : {x, req[q].b} \notin crossed => NotBehind(x, c, req[q])
      BY <2>0, <3>1 DEF SerialInv, Followed
    <3>3. ASSUME NEW q \in Requests, {x, req'[q].b} \notin crossed PROVE NotBehind(x, c, req[q])'
      <4>1. CASE q = r
        BY <1>3, <2>1, <4>1
      <4>2. CASE q # r
        <5>1. req'[q] = req[q] /\ NotBehind(x, c, req[q])
          BY <1>3, <3>2, <3>3, <4>2
        <5> QED
          BY <3>1, <5>1 DEF NotBehind, Due
      <4> QED
        BY <4>1, <4>2
    <3>4. costLine'[c].status \in Due(bill[x])
      <4>1. CASE {x, b} \in crossed
        BY <1>1, <1>6, <1>7, <1>12, <2>0, <3>2, <4>1
      <4>2. CASE {x, b} \notin crossed
        BY <1>4, <2>0, <3>2, <4>2 DEF NotBehind, StatusAfter
      <4> QED
        BY <4>1, <4>2
    <3> QED
      BY <3>1, <3>3, <3>4
  <2> QED
    BY <2>2, <2>3
<1>13. Followed'
  BY <1>1, <1>12 DEF Followed, LinesOf, Due
<1> QED
  BY <1>8, <1>9, <1>10, <1>11, <1>13 DEF SerialInv

LEMMA InitSerial == Init => SerialInv
<1> SUFFICES ASSUME Init PROVE SerialInv
  OBVIOUS
<1>1. \A r \in Requests : ~InFlight(r) /\ BilledSession(req[r])
  BY IdleIsQuiet, QuietSession DEF Init, InFlight
<1>2. \A b \in Bills : bill[b] = NoBill /\ paidSum[b] = 0 /\ credited[b] = 0 /\ debited[b] = 0
  BY DEF Init
<1>3. \A b \in Bills : LinesOf(bill[b]) = {}
  BY <1>2 DEF LinesOf, NoBill
<1>4. LedgerAgrees
  BY <1>2 DEF LedgerAgrees, NoBill
<1>5. Followed /\ Billing
  BY <1>1, <1>3 DEF Followed, Billing
<1> QED
  BY <1>1, <1>4, <1>5 DEF SerialInv, Met, AllCurrent

LEMMA StepSerial == IInv /\ IInv' /\ SerialInv /\ [Next]_vars => SerialInv'
<1>1. ASSUME IInv, SerialInv, UNCHANGED vars PROVE SerialInv'
  <2>0. \A b, c : Contended(b, c)' <=> Contended(b, c)
    BY <1>1 DEF vars, Contended, LinesOf
  <2>1. Met' /\ LedgerAgrees'
    BY <1>1 DEF vars, SerialInv, Met, InFlight, LedgerAgrees
  <2>2. Billing'
    BY <1>1 DEF vars, SerialInv, Billing, BilledSession, OwnLines, StatusAfter, LinesOf
  <2>3. AllCurrent'
    BY <1>1, <2>0 DEF vars, SerialInv, AllCurrent, InFlight, Current, CurrentRow, CurrentRecord,
       CurrentVerify, CurrentApprove, CurrentPay, CurrentLines, StatusAfter, LinesOf, Reached
  <2>4. Followed'
    BY <1>1, <2>0 DEF vars, SerialInv, Followed, NotBehind, Due, LinesOf
  <2> QED
    BY <2>1, <2>2, <2>3, <2>4 DEF SerialInv
<1>2. ASSUME IInv, IInv', SerialInv, NEW r \in Requests, Begin(r) \/ Proceed(r) PROVE SerialInv'
  <2>1. CASE Begin(r)
    BY <1>2, <2>1, LoadRecordSerial, LoadVerifySerial, DetectVarianceSerial, LoadApproveSerial,
       LoadPaySerial DEF Begin
  <2>2. CASE Proceed(r)
    BY <1>2, <2>2, MatchLineSerial, AddChargeSerial, InsertPayableSerial, SumPaymentsSerial,
       FlushSerial, CommitSerial, RollbackSerial DEF Proceed
  <2> QED
    BY <1>2, <2>1, <2>2
<1> QED
  BY <1>1, <1>2 DEF Next

LEMMA AlwaysSerial == Spec => []SerialInv
<1>1. Init => IInv /\ SerialInv
  BY InitIInv, InitSerial
<1>2. (IInv /\ SerialInv) /\ [Next]_vars => (IInv /\ SerialInv)'
  BY StepIInv, StepSerial
<1> QED
  BY <1>1, <1>2, PTL DEF Spec

\* The liability approve_payable posts, the payments record_payment posts and
\* the bill's own columns agree on every bill no two requests on which met,
\* however requests on other bills overlap with them.
THEOREM LedgerAgreesWithBills == Spec => []LedgerAgrees
<1>1. SerialInv => LedgerAgrees
  BY DEF SerialInv
<1> QED
  BY <1>1, AlwaysSerial, PTL

\* A cost line is never behind a bill that has it, unless requests on that bill
\* and on a bill with the same line met; other bills may share the line and
\* their requests interleave without locks.
THEOREM CostLedgerKeepsUp == Spec => []CostLedgerFollows
<1>1. SerialInv => CostLedgerFollows
  BY DEF SerialInv, Followed, CostLedgerFollows, Due
<1> QED
  BY <1>1, AlwaysSerial, PTL
=============================================================================
