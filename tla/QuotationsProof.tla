--------------------------- MODULE QuotationsProof --------------------------
(***************************************************************************)
(* Proofs about Quotations, for any number of quotations, rates and         *)
(* concurrent requests: an accepted quotation and its job go together, job  *)
(* numbers are dense, and an acceptance nothing disturbed meets at its      *)
(* commit what it checked.                                                  *)
(***************************************************************************)
EXTENDS Quotations, FiniteSetTheorems, TLAPS

\* A session holds the row of its quotation, alone.
LocksExclude ==
    /\ \A r \in Requests : req[r].pc = "idle" <=> req[r].q = "none"
    /\ \A r, x \in Requests : r # x /\ req[r].q # "none" => req[x].q # req[r].q

\* A quotation some session holds is not yet accepted, and the session is not
\* about to insert an accepted one, or a job without a number.
HeldIsOpen ==
    /\ \A r \in Requests : req[r].q # "none" => quote[req[r].q].status # "ACCEPTED"
    /\ \A r \in Requests : req[r].new.status # "ACCEPTED"
    /\ \A r \in Requests : req[r].pc \in {"counted", "inserted"} => req[r].number > 0

IInv == TypeOK /\ LocksExclude /\ HeldIsOpen /\ AcceptedIffJob

LEMMA SellType == ASSUME NEW rt \in RateIds, NEW m \in Markups PROVE Sell(rt, m) \in Nat
  <1>1. Cost[rt] \in Nat /\ m \in Nat
    BY QuotationsAssumption
  <1>2. Cost[rt] * (100 + m) \in Nat
    BY <1>1
  <1>3. \A n \in Nat : n \div 100 \in Nat
    OBVIOUS
  <1> QED BY <1>2, <1>3 DEF Sell

LEMMA JobCountType == JobCount \in Nat
  <1>1. IsFiniteSet({q \in Quotes : job[q] # 0})
    BY FS_Subset, QuotationsAssumption
  <1> QED BY <1>1, FS_CardinalityType DEF JobCount

LEMMA InitHolds == Init => IInv
  <1> SUFFICES ASSUME Init PROVE IInv
    OBVIOUS
  <1>1. TypeOK
    BY QuotationsAssumption DEF Init, TypeOK, QuoteRow, NoQuote, QuoteStatus, Session, Idle
  <1>2. LocksExclude /\ HeldIsOpen
    BY DEF Init, LocksExclude, HeldIsOpen, Idle, NoQuote
  <1>3. AcceptedIffJob
    BY DEF Init, AcceptedIffJob, NoQuote
  <1> QED BY <1>1, <1>2, <1>3 DEF IInv

LEMMA IdleType == Idle \in Session
  BY DEF Idle, Session, NoQuote, QuoteRow, QuoteStatus

LEMMA TypeStep == TypeOK /\ LocksExclude /\ [Next]_vars => TypeOK'
  <1> SUFFICES ASSUME TypeOK, LocksExclude, [Next]_vars PROVE TypeOK'
    OBVIOUS
  <1>1. ASSUME NEW r \in Requests, NEW q \in Quotes, NEW rt \in RateIds, NEW m \in Markups,
               NEW requested \in RateIds \cup {"none"},
               NEW expiry \in {today + Validity, LastDay}, Price(r, q, rt, requested, m, expiry)
        PROVE TypeOK'
    <2> DEFINE row == [status |-> FirstStatus(rt, m), rate |-> rt, total |-> Sell(rt, m), expiry |-> expiry]
               s == [Idle EXCEPT !.pc = "priced", !.q = q, !.new = row]
    <2>1. expiry \in Nat
      BY QuotationsAssumption DEF TypeOK
    <2>2. row \in QuoteRow
      BY <2>1, SellType DEF QuoteRow, QuoteStatus, FirstStatus
    <2>3. s \in Session
      <3> HIDE DEF row
      <3> QED BY <2>2 DEF Session, Idle
    <2>4. req' = [req EXCEPT ![r] = s] /\ UNCHANGED <<db, disturbed>>
      BY <1>1 DEF Price
    <2> HIDE DEF s
    <2> QED BY <2>3, <2>4 DEF TypeOK, db
  <1>2. ASSUME NEW r \in Requests, CommitQuotation(r) PROVE TypeOK'
    BY <1>2, IdleType DEF CommitQuotation, TypeOK, Session
  <1>3. ASSUME NEW r \in Requests, NEW q \in Quotes, LockForSend(r, q) PROVE TypeOK'
    <2> DEFINE s == [Idle EXCEPT !.pc = "sending", !.q = q]
    <2>1. s \in Session
      BY IdleType DEF Session
    <2>2. req' = [req EXCEPT ![r] = s] /\ UNCHANGED <<db, disturbed>>
      BY <1>3 DEF LockForSend
    <2> HIDE DEF s
    <2> QED BY <2>1, <2>2 DEF TypeOK, db
  <1>4. ASSUME NEW r \in Requests, NEW q \in Quotes, LockForAccept(r, q) PROVE TypeOK'
    <2> DEFINE s == [Idle EXCEPT !.pc = "locked", !.q = q]
    <2>1. s \in Session
      BY IdleType DEF Session
    <2>2. req' = [req EXCEPT ![r] = s] /\ UNCHANGED <<db, disturbed>>
      BY <1>4 DEF LockForAccept
    <2> HIDE DEF s
    <2> QED BY <2>1, <2>2 DEF TypeOK, db
  <1>5. ASSUME NEW r \in Requests, CommitSend(r) PROVE TypeOK'
    BY <1>5, IdleType DEF CommitSend, TypeOK, QuoteRow, QuoteStatus
  <1>6. ASSUME NEW r \in Requests, CheckCredit(r) \/ CheckRates(r) \/ InsertJob(r) PROVE TypeOK'
    <2>1. \E to \in {"credit", "rates", "inserted"} : req' = [req EXCEPT ![r].pc = to]
      BY <1>6 DEF CheckCredit, CheckRates, InsertJob, Pass
    <2>2. UNCHANGED <<db, disturbed>>
      BY <1>6 DEF CheckCredit, CheckRates, InsertJob, Pass
    <2>3. req' \in [Requests -> Session]
      BY <2>1 DEF TypeOK, Session
    <2> QED BY <2>2, <2>3 DEF TypeOK, db
  <1>7. ASSUME NEW r \in Requests, CountJobs(r) PROVE TypeOK'
    <2> DEFINE s == [req[r] EXCEPT !.pc = "counted", !.number = JobCount + 1]
    <2>3. req[r] \in Session /\ JobCount + 1 \in Nat
      BY JobCountType DEF TypeOK
    <2>4. s \in Session
      BY <2>3 DEF Session
    <2>5. req' = [req EXCEPT ![r] = s]
      BY <1>7 DEF CountJobs, TypeOK
    <2>1. req' \in [Requests -> Session]
      <3> HIDE DEF s
      <3> QED BY <2>4, <2>5 DEF TypeOK
    <2>2. UNCHANGED <<db, disturbed>>
      BY <1>7 DEF CountJobs
    <2> QED BY <2>1, <2>2 DEF TypeOK, db
  <1>8. ASSUME NEW r \in Requests, CommitAccept(r) PROVE TypeOK'
    <2>1. req[r].number \in Nat
      BY DEF TypeOK, Session
    <2>2. job' \in [Quotes -> Nat]
      BY <1>8, <2>1 DEF CommitAccept, TypeOK
    <2>3. quote' \in [Quotes -> QuoteRow]
      BY <1>8 DEF CommitAccept, TypeOK, QuoteRow, QuoteStatus
    <2>4. req' \in [Requests -> Session]
      BY <1>8, IdleType DEF CommitAccept, TypeOK
    <2> QED BY <1>8, <2>2, <2>3, <2>4 DEF CommitAccept, TypeOK
  <1>9. ASSUME NEW r \in Requests, Rollback(r) PROVE TypeOK'
    BY <1>9, IdleType DEF Rollback, TypeOK, db
  <1>10. ASSUME NEW r \in Requests, NEW q \in Quotes, InvoiceJob(r, q) PROVE TypeOK'
    BY <1>10 DEF InvoiceJob, TypeOK, Accepting
  <1>11. ASSUME NEW r \in Requests, NEW rt \in RateIds, EndRate(r, rt) PROVE TypeOK'
    BY <1>11 DEF EndRate, TypeOK, Accepting
  <1>12. CASE NextDay
    BY <1>12 DEF NextDay, TypeOK
  <1>13. CASE UNCHANGED vars
    BY <1>13 DEF vars, TypeOK
  <1> QED
    BY <1>1, <1>2, <1>3, <1>4, <1>5, <1>6, <1>7, <1>8, <1>9, <1>10, <1>11, <1>12, <1>13 DEF Next, Progress

LEMMA LocksStep == TypeOK /\ LocksExclude /\ [Next]_vars => LocksExclude'
  <1> SUFFICES ASSUME TypeOK, LocksExclude, [Next]_vars PROVE LocksExclude'
    OBVIOUS
  <1> USE DEF LocksExclude, db
  <1>1. ASSUME NEW r \in Requests, NEW q \in Quotes, NEW s, s.pc # "idle", s.q = q,
               \A x \in Requests : req[x].q # q, req' = [req EXCEPT ![r] = s]
        PROVE LocksExclude'
    <2>1. q # "none"
      BY QuotationsAssumption
    <2>2. req'[r] = s /\ \A x \in Requests : x # r => req'[x] = req[x]
      BY <1>1 DEF TypeOK
    <2> QED BY <1>1, <2>1, <2>2
  <1>2. ASSUME NEW r \in Requests, NEW q \in Quotes, NEW rt \in RateIds, NEW m \in Markups,
               NEW requested \in RateIds \cup {"none"},
               NEW expiry \in {today + Validity, LastDay}, Price(r, q, rt, requested, m, expiry)
        PROVE LocksExclude'
    <2> DEFINE row == [status |-> FirstStatus(rt, m), rate |-> rt, total |-> Sell(rt, m), expiry |-> expiry]
               s == [Idle EXCEPT !.pc = "priced", !.q = q, !.new = row]
    <2>1. s.pc # "idle" /\ s.q = q
      BY DEF Idle
    <2>2. (\A x \in Requests : req[x].q # q) /\ req' = [req EXCEPT ![r] = s]
      BY <1>2 DEF Price
    <2> HIDE DEF s
    <2> QED BY <1>1, <2>1, <2>2
  <1>3. ASSUME NEW r \in Requests, NEW q \in Quotes, LockForSend(r, q) PROVE LocksExclude'
    <2> DEFINE s == [Idle EXCEPT !.pc = "sending", !.q = q]
    <2>1. s.pc # "idle" /\ s.q = q
      BY DEF Idle
    <2>2. (\A x \in Requests : req[x].q # q) /\ req' = [req EXCEPT ![r] = s]
      BY <1>3 DEF LockForSend, RowIsFree
    <2> HIDE DEF s
    <2> QED BY <1>1, <2>1, <2>2
  <1>4. ASSUME NEW r \in Requests, NEW q \in Quotes, LockForAccept(r, q) PROVE LocksExclude'
    <2> DEFINE s == [Idle EXCEPT !.pc = "locked", !.q = q]
    <2>1. s.pc # "idle" /\ s.q = q
      BY DEF Idle
    <2>2. (\A x \in Requests : req[x].q # q) /\ req' = [req EXCEPT ![r] = s]
      BY <1>4 DEF LockForAccept, RowIsFree
    <2> HIDE DEF s
    <2> QED BY <1>1, <2>1, <2>2
  <1>5. ASSUME NEW r \in Requests, CommitQuotation(r) \/ CommitSend(r) \/ CommitAccept(r) \/ Rollback(r)
        PROVE LocksExclude'
    <2>1. req'[r] = Idle /\ \A x \in Requests : x # r => req'[x] = req[x]
      BY <1>5 DEF CommitQuotation, CommitSend, CommitAccept, Rollback, TypeOK
    <2> QED BY <2>1 DEF Idle
  <1>6. ASSUME NEW r \in Requests, CheckCredit(r) \/ CheckRates(r) \/ InsertJob(r) \/ CountJobs(r)
        PROVE LocksExclude'
    <2>1. \A x \in Requests : req'[x].q = req[x].q /\ (req'[x].pc = "idle" <=> req[x].pc = "idle")
      BY <1>6 DEF CheckCredit, CheckRates, InsertJob, Pass, CountJobs, TypeOK, Session
    <2> QED BY <2>1
  <1>7. ASSUME req' = req PROVE LocksExclude'
    BY <1>7
  <1>8. ASSUME NEW r \in Requests, (\E q \in Quotes : InvoiceJob(r, q)) \/ (\E rt \in RateIds : EndRate(r, rt))
        PROVE LocksExclude'
    BY <1>7, <1>8 DEF InvoiceJob, EndRate
  <1>9. CASE NextDay \/ UNCHANGED vars
    BY <1>7, <1>9 DEF NextDay, vars
  <1> QED
    BY <1>2, <1>3, <1>4, <1>5, <1>6, <1>8, <1>9 DEF Next, Progress

\* What the actions do to statuses and jobs: a session's row keeps its status
\* unless that session itself commits.
LEMMA HeldStep == IInv /\ [Next]_vars => HeldIsOpen'
  <1> SUFFICES ASSUME TypeOK, LocksExclude, HeldIsOpen, [Next]_vars PROVE HeldIsOpen'
    BY DEF IInv
  <1> USE DEF HeldIsOpen, db
  <1>1. ASSUME NEW r \in Requests, NEW s, req' = [req EXCEPT ![r] = s], UNCHANGED quote,
               s.q # "none" => quote[s.q].status # "ACCEPTED", s.new.status # "ACCEPTED",
               s.pc \notin {"counted", "inserted"}
        PROVE HeldIsOpen'
    <2>1. req'[r] = s /\ \A x \in Requests : x # r => req'[x] = req[x]
      BY <1>1 DEF TypeOK
    <2> QED BY <1>1, <2>1
  <1>2. ASSUME NEW r \in Requests, NEW q \in Quotes, NEW rt \in RateIds, NEW m \in Markups,
               NEW requested \in RateIds \cup {"none"},
               NEW expiry \in {today + Validity, LastDay}, Price(r, q, rt, requested, m, expiry)
        PROVE HeldIsOpen'
    <2> DEFINE row == [status |-> FirstStatus(rt, m), rate |-> rt, total |-> Sell(rt, m), expiry |-> expiry]
               s == [Idle EXCEPT !.pc = "priced", !.q = q, !.new = row]
    <2>1. row.status # "ACCEPTED"
      BY DEF FirstStatus
    <2>2. s.q = q /\ s.new = row /\ s.pc \notin {"counted", "inserted"}
      BY DEF Idle
    <2>3. req' = [req EXCEPT ![r] = s] /\ UNCHANGED quote /\ quote[q].status # "ACCEPTED"
      BY <1>2 DEF Price, NoQuote
    <2> HIDE DEF s, row
    <2> QED BY <1>1, <2>1, <2>2, <2>3
  <1>3. ASSUME NEW r \in Requests, NEW q \in Quotes, LockForSend(r, q) PROVE HeldIsOpen'
    <2> DEFINE s == [Idle EXCEPT !.pc = "sending", !.q = q]
    <2>1. s.q = q /\ s.new.status # "ACCEPTED" /\ s.pc \notin {"counted", "inserted"}
      BY DEF Idle, NoQuote
    <2>2. req' = [req EXCEPT ![r] = s] /\ UNCHANGED quote /\ quote[q].status # "ACCEPTED"
      BY <1>3 DEF LockForSend, Sendable
    <2> HIDE DEF s
    <2> QED BY <1>1, <2>1, <2>2
  <1>4. ASSUME NEW r \in Requests, NEW q \in Quotes, LockForAccept(r, q) PROVE HeldIsOpen'
    <2> DEFINE s == [Idle EXCEPT !.pc = "locked", !.q = q]
    <2>1. s.q = q /\ s.new.status # "ACCEPTED" /\ s.pc \notin {"counted", "inserted"}
      BY DEF Idle, NoQuote
    <2>2. req' = [req EXCEPT ![r] = s] /\ UNCHANGED quote /\ quote[q].status # "ACCEPTED"
      BY <1>4 DEF LockForAccept, Acceptable
    <2> HIDE DEF s
    <2> QED BY <1>1, <2>1, <2>2
  \* A commit changes the row its session held, which nobody else holds.
  <1>5. ASSUME NEW r \in Requests, CommitQuotation(r) \/ CommitSend(r) \/ CommitAccept(r) \/ Rollback(r)
        PROVE HeldIsOpen'
    <2>1. req'[r] = Idle /\ \A x \in Requests : x # r => req'[x] = req[x]
      BY <1>5 DEF CommitQuotation, CommitSend, CommitAccept, Rollback, TypeOK
    <2>2. \A q \in Quotes : q # req[r].q => quote'[q] = quote[q]
      BY <1>5 DEF CommitQuotation, CommitSend, CommitAccept, Rollback, TypeOK
    <2>3. req[r].q # "none"
      BY <1>5 DEF CommitQuotation, CommitSend, CommitAccept, Rollback, LocksExclude
    <2>4. ASSUME NEW x \in Requests, x # r, req[x].q # "none" PROVE quote'[req[x].q] = quote[req[x].q]
      <3>1. req[x].q \in Quotes /\ req[x].q # req[r].q
        BY <2>3, <2>4 DEF LocksExclude, TypeOK, Session
      <3> QED BY <2>2, <3>1
    <2> QED BY <2>1, <2>4 DEF Idle, NoQuote
  <1>6. ASSUME NEW r \in Requests, CheckCredit(r) \/ CheckRates(r) PROVE HeldIsOpen'
    <2>1. \A x \in Requests : /\ req'[x].q = req[x].q /\ req'[x].new = req[x].new
                              /\ req'[x].number = req[x].number
                              /\ req'[x].pc \in {"counted", "inserted"} => req[x].pc \in {"counted", "inserted"}
      BY <1>6 DEF CheckCredit, CheckRates, Pass, TypeOK, Session
    <2>2. quote' = quote
      BY <1>6 DEF CheckCredit, CheckRates, Pass
    <2> QED BY <2>1, <2>2
  <1>7. ASSUME NEW r \in Requests, InsertJob(r) PROVE HeldIsOpen'
    <2>1. \A x \in Requests : /\ req'[x].q = req[x].q /\ req'[x].new = req[x].new
                              /\ req'[x].number = req[x].number
                              /\ req'[x].pc \in {"counted", "inserted"} => req[x].pc \in {"counted", "inserted"}
      BY <1>7 DEF InsertJob, Pass, TypeOK, Session
    <2>2. quote' = quote
      BY <1>7 DEF InsertJob, Pass
    <2> QED BY <2>1, <2>2
  <1>8. ASSUME NEW r \in Requests, CountJobs(r) PROVE HeldIsOpen'
    <2>1. /\ req'[r].q = req[r].q /\ req'[r].new = req[r].new /\ req'[r].number = JobCount + 1
          /\ \A x \in Requests : x # r => req'[x] = req[x]
      BY <1>8 DEF CountJobs, TypeOK, Session
    <2>2. quote' = quote
      BY <1>8 DEF CountJobs
    <2>3. req'[r].number > 0
      BY <2>1, JobCountType
    <2> QED BY <2>1, <2>2, <2>3
  <1>9. ASSUME req' = req, quote' = quote PROVE HeldIsOpen'
    BY <1>9
  <1>10. ASSUME NEW r \in Requests, (\E q \in Quotes : InvoiceJob(r, q)) \/ (\E rt \in RateIds : EndRate(r, rt))
         PROVE HeldIsOpen'
    BY <1>9, <1>10 DEF InvoiceJob, EndRate
  <1>11. CASE NextDay \/ UNCHANGED vars
    BY <1>9, <1>11 DEF NextDay, vars
  <1> QED
    BY <1>2, <1>3, <1>4, <1>5, <1>6, <1>7, <1>8, <1>10, <1>11 DEF Next, Progress

LEMMA AcceptedStep == IInv /\ [Next]_vars => AcceptedIffJob'
  <1> SUFFICES ASSUME IInv, [Next]_vars PROVE AcceptedIffJob'
    OBVIOUS
  <1> USE DEF IInv, AcceptedIffJob, db
  \* Acceptance sets status and job together.
  <1>1. ASSUME NEW r \in Requests, CommitAccept(r) PROVE AcceptedIffJob'
    <2>1. req[r].q \in Quotes /\ req[r].number > 0 /\ req[r].number \in Nat
      BY <1>1 DEF CommitAccept, LocksExclude, HeldIsOpen, TypeOK, Session
    <2>2. quote'[req[r].q].status = "ACCEPTED" /\ job'[req[r].q] = req[r].number
      BY <1>1, <2>1 DEF CommitAccept, TypeOK, QuoteRow
    <2>3. \A q \in Quotes : q # req[r].q => quote'[q] = quote[q] /\ job'[q] = job[q]
      BY <1>1 DEF CommitAccept, TypeOK
    <2> QED BY <2>1, <2>2, <2>3
  \* The other commits find, and leave, a quotation without a job.
  <1>2. ASSUME NEW r \in Requests, CommitSend(r) PROVE AcceptedIffJob'
    <2>1. req[r].q \in Quotes /\ quote[req[r].q].status # "ACCEPTED"
      BY <1>2 DEF CommitSend, LocksExclude, HeldIsOpen, TypeOK, Session
    <2>2. quote'[req[r].q].status = "SENT_TO_CUSTOMER" /\ job' = job
      BY <1>2, <2>1 DEF CommitSend, TypeOK, QuoteRow
    <2>3. \A q \in Quotes : q # req[r].q => quote'[q] = quote[q]
      BY <1>2 DEF CommitSend, TypeOK
    <2> QED BY <2>1, <2>2, <2>3
  <1>3. ASSUME NEW r \in Requests, CommitQuotation(r) PROVE AcceptedIffJob'
    <2>1. req[r].q \in Quotes /\ quote[req[r].q].status # "ACCEPTED" /\ req[r].new.status # "ACCEPTED"
      BY <1>3 DEF CommitQuotation, LocksExclude, HeldIsOpen, TypeOK, Session
    <2>2. quote'[req[r].q] = req[r].new /\ job' = job
      BY <1>3, <2>1 DEF CommitQuotation, TypeOK
    <2>3. \A q \in Quotes : q # req[r].q => quote'[q] = quote[q]
      BY <1>3 DEF CommitQuotation, TypeOK
    <2> QED BY <2>1, <2>2, <2>3
  <1>4. ASSUME quote' = quote, job' = job PROVE AcceptedIffJob'
    BY <1>4
  <1>5. ASSUME NEW r \in Requests, NEW q \in Quotes,
               \/ \E rt \in RateIds, requested \in RateIds \cup {"none"}, m \in Markups,
                     expiry \in {today + Validity, LastDay} : Price(r, q, rt, requested, m, expiry)
               \/ LockForSend(r, q) \/ LockForAccept(r, q) \/ InvoiceJob(r, q)
        PROVE AcceptedIffJob'
    BY <1>4, <1>5 DEF Price, LockForSend, LockForAccept, InvoiceJob
  <1>6. ASSUME NEW r \in Requests, CheckCredit(r) \/ CheckRates(r) \/ CountJobs(r) \/ InsertJob(r) \/ Rollback(r)
        PROVE AcceptedIffJob'
    BY <1>4, <1>6 DEF CheckCredit, CheckRates, CountJobs, InsertJob, Pass, Rollback
  <1>7. ASSUME NEW r \in Requests, NEW rt \in RateIds, EndRate(r, rt) PROVE AcceptedIffJob'
    BY <1>4, <1>7 DEF EndRate
  <1>8. CASE NextDay \/ UNCHANGED vars
    BY <1>4, <1>8 DEF NextDay, vars
  <1> QED
    BY <1>1, <1>2, <1>3, <1>5, <1>6, <1>7, <1>8 DEF Next, Progress

LEMMA Invariance == Spec => []IInv
  <1>1. IInv /\ [Next]_vars => IInv'
    BY TypeStep, LocksStep, HeldStep, AcceptedStep DEF IInv
  <1> QED BY InitHolds, <1>1, PTL DEF Spec

\* The tables and the sessions keep their types for every set of quotations,
\* rates and requests.
THEOREM QuotationsTypeCorrect == Spec => []TypeOK
  <1>1. IInv => TypeOK
    BY DEF IInv
  <1> QED BY <1>1, Invariance, PTL

\* accept_quotation, send_quotation: because both lock the quotation's row, a
\* quotation is ACCEPTED exactly when its job exists, in every interleaving.
THEOREM AcceptanceIsFinal == Spec => []AcceptedIffJob
  <1>1. IInv => AcceptedIffJob
    BY DEF IInv
  <1> QED BY <1>1, Invariance, PTL

-----------------------------------------------------------------------------
(* Job numbers                                                              *)

\* A number counted is at most the next one, and the sessions that inserted
\* their jobs have numbers of their own.
Numbered ==
    /\ JobNumbersAreDense
    /\ \A r \in Requests : req[r].pc \in {"counted", "inserted"} => req[r].number <= JobCount + 1
    /\ \A r \in Requests : req[r].pc = "inserted" => \A q \in Quotes : job[q] # req[r].number
    /\ \A r, x \in Requests :
          r # x /\ req[r].pc = "inserted" /\ req[x].pc = "inserted" => req[r].number # req[x].number

LEMMA NumberedInit == Init => Numbered
  <1> SUFFICES ASSUME Init PROVE Numbered
    OBVIOUS
  <1>1. {q \in Quotes : job[q] # 0} = {}
    BY DEF Init
  <1>2. JobCount = 0
    BY <1>1, FS_EmptySet DEF JobCount
  <1>3. JobNumbersAreDense
    BY <1>1, <1>2 DEF JobNumbersAreDense
  <1>4. \A r \in Requests : req[r].pc = "idle"
    BY DEF Init, Idle
  <1> QED BY <1>3, <1>4 DEF Numbered

\* No job is committed, and a session that takes part in numbering is as before.
LEMMA NumberedQuiet ==
    ASSUME Numbered, job' = job,
           \A x \in Requests : req'[x].pc \in {"counted", "inserted"} => req'[x] = req[x]
    PROVE  Numbered'
  <1>1. JobCount' = JobCount
    BY DEF JobCount
  <1>2. JobNumbersAreDense'
    BY <1>1 DEF Numbered, JobNumbersAreDense
  <1>3. \A r \in Requests : req'[r].pc \in {"counted", "inserted"} => req'[r].number <= JobCount' + 1
    BY <1>1 DEF Numbered
  <1>4. \A r \in Requests : req'[r].pc = "inserted" => \A q \in Quotes : job'[q] # req'[r].number
    BY DEF Numbered
  <1>5. \A r, x \in Requests :
           r # x /\ req'[r].pc = "inserted" /\ req'[x].pc = "inserted" => req'[r].number # req'[x].number
    BY DEF Numbered
  <1> QED BY <1>2, <1>3, <1>4, <1>5 DEF Numbered

LEMMA NumberedCount == ASSUME TypeOK, Numbered, NEW r \in Requests, CountJobs(r) PROVE Numbered'
  <1>1. job' = job /\ JobCount' = JobCount
    BY DEF CountJobs, db, JobCount
  <1>2. /\ req'[r].pc = "counted" /\ req'[r].number = JobCount + 1
        /\ \A x \in Requests : x # r => req'[x] = req[x]
    BY DEF CountJobs, TypeOK, Session
  <1>3. JobNumbersAreDense'
    BY <1>1 DEF Numbered, JobNumbersAreDense
  <1>4. \A x \in Requests : req'[x].pc \in {"counted", "inserted"} => req'[x].number <= JobCount' + 1
    BY <1>1, <1>2, JobCountType DEF Numbered
  <1>5. \A x \in Requests : req'[x].pc = "inserted" => \A q \in Quotes : job'[q] # req'[x].number
    BY <1>1, <1>2 DEF Numbered
  <1>6. \A y, x \in Requests :
           y # x /\ req'[y].pc = "inserted" /\ req'[x].pc = "inserted" => req'[y].number # req'[x].number
    BY <1>2 DEF Numbered
  <1> QED BY <1>3, <1>4, <1>5, <1>6 DEF Numbered

LEMMA NumberedInsert == ASSUME TypeOK, Numbered, NEW r \in Requests, InsertJob(r) PROVE Numbered'
  <1>1. job' = job /\ JobCount' = JobCount
    BY DEF InsertJob, Pass, db, JobCount
  <1>2. /\ req[r].pc = "counted" /\ req'[r].pc = "inserted" /\ req'[r].number = req[r].number
        /\ \A x \in Requests : x # r => req'[x] = req[x]
    BY DEF InsertJob, Pass, TypeOK, Session
  <1>3. JobNumbersAreDense'
    BY <1>1 DEF Numbered, JobNumbersAreDense
  <1>4. \A x \in Requests : req'[x].pc \in {"counted", "inserted"} => req'[x].number <= JobCount' + 1
    BY <1>1, <1>2 DEF Numbered
  <1>5. \A x \in Requests : req'[x].pc = "inserted" => \A q \in Quotes : job'[q] # req'[x].number
    BY <1>1, <1>2 DEF Numbered, InsertJob, NumberIsFree
  <1>6. \A y, x \in Requests :
           y # x /\ req'[y].pc = "inserted" /\ req'[x].pc = "inserted" => req'[y].number # req'[x].number
    BY <1>2 DEF Numbered, InsertJob
  <1> QED BY <1>3, <1>4, <1>5, <1>6 DEF Numbered

\* The number inserted is the next one: it is not above it, and not one of those
\* that are taken.
LEMMA NumberedAccept == ASSUME IInv, Numbered, NEW r \in Requests, CommitAccept(r) PROVE Numbered'
  <1> DEFINE n == req[r].number
             c == req[r].q
             Jobs == {q \in Quotes : job[q] # 0}
             JobsAfter == {q \in Quotes : job'[q] # 0}
  <1>1. c \in Quotes /\ n \in Nat /\ n > 0 /\ job[c] = 0 /\ n <= JobCount + 1 /\ \A q \in Quotes : job[q] # n
    BY DEF IInv, CommitAccept, TypeOK, Session, LocksExclude, HeldIsOpen, AcceptedIffJob, Numbered
  <1>2. \A q \in Quotes : job'[q] = IF q = c THEN n ELSE job[q]
    BY <1>1 DEF IInv, TypeOK, CommitAccept
  <1>3. \A x \in Requests : req'[x] = IF x = r THEN Idle ELSE req[x]
    BY DEF IInv, TypeOK, CommitAccept
  <1>4. JobsAfter = Jobs \cup {c} /\ c \notin Jobs
    BY <1>1, <1>2
  <1>5. IsFiniteSet(Jobs)
    BY FS_Subset, QuotationsAssumption
  <1>6. Cardinality(JobsAfter) = Cardinality(Jobs) + 1
    BY <1>4, <1>5, FS_AddElement
  <1>7. JobCount' = JobCount + 1
    BY <1>6 DEF JobCount
  <1>8. {job[q] : q \in Jobs} = 1 .. JobCount
    BY DEF Numbered, JobNumbersAreDense
  <1>9. n \notin 1 .. JobCount
    BY <1>1, <1>8
  <1>10. n = JobCount + 1
    BY <1>1, <1>9, JobCountType
  <1>11. {job'[q] : q \in JobsAfter} = {job[q] : q \in Jobs} \cup {n}
    BY <1>1, <1>2, <1>4
  <1>12. (1 .. JobCount) \cup {JobCount + 1} = 1 .. (JobCount + 1)
    BY JobCountType
  <1>13. {job'[q] : q \in JobsAfter} = 1 .. JobCount'
    BY <1>7, <1>8, <1>10, <1>11, <1>12
  <1>14. JobNumbersAreDense'
    BY <1>13 DEF JobNumbersAreDense
  <1>15. Idle.pc = "idle"
    BY DEF Idle
  <1>16. \A x \in Requests : req'[x].pc \in {"counted", "inserted"} => x # r /\ req'[x] = req[x]
    BY <1>3, <1>15
  <1> HIDE DEF n, c, Jobs, JobsAfter
  <1>17. ASSUME NEW x \in Requests, req'[x].pc \in {"counted", "inserted"} PROVE req'[x].number <= JobCount' + 1
    <2>1. req'[x] = req[x] /\ req[x].number <= JobCount + 1 /\ req[x].number \in Nat
      BY <1>16, <1>17 DEF Numbered, IInv, TypeOK, Session
    <2> QED BY <1>7, <2>1, JobCountType
  <1>18. \A x \in Requests : req'[x].pc = "inserted" => \A q \in Quotes : job'[q] # req'[x].number
    BY <1>2, <1>16 DEF Numbered, CommitAccept, n
  <1>19. \A y, x \in Requests :
            y # x /\ req'[y].pc = "inserted" /\ req'[x].pc = "inserted" => req'[y].number # req'[x].number
    BY <1>16 DEF Numbered
  <1> QED BY <1>14, <1>17, <1>18, <1>19 DEF Numbered

LEMMA NumberedNext == IInv /\ Numbered /\ [Next]_vars => Numbered'
  <1> SUFFICES ASSUME IInv, Numbered, [Next]_vars PROVE Numbered'
    OBVIOUS
  <1>1. TypeOK
    BY DEF IInv
  <1>2. ASSUME NEW r \in Requests, NEW s, s.pc \notin {"counted", "inserted"}, req' = [req EXCEPT ![r] = s], job' = job
        PROVE  Numbered'
    <2>1. \A x \in Requests : req'[x] = IF x = r THEN s ELSE req[x]
      BY <1>1, <1>2 DEF TypeOK
    <2> QED BY <1>2, <2>1, NumberedQuiet
  <1>3. ASSUME NEW r \in Requests, NEW q \in Quotes, NEW rt \in RateIds, NEW m \in Markups,
               NEW requested \in RateIds \cup {"none"},
               NEW expiry \in {today + Validity, LastDay}, Price(r, q, rt, requested, m, expiry)
        PROVE  Numbered'
    <2> DEFINE row == [status |-> FirstStatus(rt, m), rate |-> rt, total |-> Sell(rt, m), expiry |-> expiry]
               s == [Idle EXCEPT !.pc = "priced", !.q = q, !.new = row]
    <2>1. s.pc = "priced"
      BY DEF Idle
    <2>2. req' = [req EXCEPT ![r] = s] /\ job' = job
      BY <1>3 DEF Price, db
    <2> HIDE DEF s
    <2> QED BY <1>2, <2>1, <2>2
  <1>4. ASSUME NEW r \in Requests, NEW q \in Quotes, LockForSend(r, q) \/ LockForAccept(r, q) PROVE Numbered'
    <2>1. /\ job' = job
          /\ \E to \in {"sending", "locked"} : req' = [req EXCEPT ![r] = [Idle EXCEPT !.pc = to, !.q = q]]
      BY <1>4 DEF LockForSend, LockForAccept, db
    <2>2. PICK to \in {"sending", "locked"} : req' = [req EXCEPT ![r] = [Idle EXCEPT !.pc = to, !.q = q]]
      BY <2>1
    <2> DEFINE s == [Idle EXCEPT !.pc = to, !.q = q]
    <2>3. s.pc \notin {"counted", "inserted"}
      BY DEF Idle
    <2> HIDE DEF s
    <2>4. req' = [req EXCEPT ![r] = s]
      BY <2>2 DEF s
    <2> QED BY <1>2, <2>1, <2>3, <2>4
  <1>5. ASSUME NEW r \in Requests, CommitQuotation(r) \/ CommitSend(r) \/ Rollback(r) PROVE Numbered'
    <2>1. req' = [req EXCEPT ![r] = Idle] /\ job' = job /\ Idle.pc = "idle"
      BY <1>5 DEF CommitQuotation, CommitSend, Rollback, db, Idle
    <2> QED BY <1>2, <2>1
  <1>6. ASSUME NEW r \in Requests, CheckCredit(r) \/ CheckRates(r) PROVE Numbered'
    <2>1. job' = job /\ \A x \in Requests : req'[x].pc \in {"counted", "inserted"} => req'[x] = req[x]
      BY <1>1, <1>6 DEF CheckCredit, CheckRates, Pass, db, TypeOK, Session
    <2> QED BY <2>1, NumberedQuiet
  <1>7. ASSUME req' = req, job' = job PROVE Numbered'
    BY <1>7, NumberedQuiet
  <1>8. ASSUME NEW r \in Requests, (\E q \in Quotes : InvoiceJob(r, q)) \/ (\E rt \in RateIds : EndRate(r, rt))
        PROVE  Numbered'
    BY <1>7, <1>8 DEF InvoiceJob, EndRate
  <1>9. CASE NextDay \/ UNCHANGED vars
    BY <1>7, <1>9 DEF NextDay, vars
  <1> QED
    BY <1>1, <1>3, <1>4, <1>5, <1>6, <1>8, <1>9, NumberedCount, NumberedInsert, NumberedAccept DEF Next, Progress

\* accept_quotation: although the count of jobs is read without a lock, jobs are
\* numbered 1, 2, 3, ... without a gap and without a number given twice, for any
\* number of quotations and of acceptances in flight.
THEOREM JobNumbersStayDense == Spec => []JobNumbersAreDense
  <1>1. IInv /\ Numbered /\ [Next]_vars => (IInv /\ Numbered)'
    BY TypeStep, LocksStep, HeldStep, AcceptedStep, NumberedNext DEF IInv
  <1>2. Numbered => JobNumbersAreDense
    BY DEF Numbered
  <1> QED BY InitHolds, NumberedInit, <1>1, <1>2, PTL DEF Spec

-----------------------------------------------------------------------------
(* What an acceptance checked                                               *)

\* What an undisturbed acceptance has checked still holds; only quotations
\* with a job have been invoiced.
Checked ==
    /\ \A q \in invoiced : job[q] # 0
    /\ \A r \in Requests : r \notin disturbed =>
          /\ req[r].pc \in {"credit", "rates", "counted", "inserted"} => Exposure + quote[req[r].q].total <= CreditLimit
          /\ req[r].pc \in {"rates", "counted", "inserted"} => quote[req[r].q].rate \in valid

\* The exposure depends on the invoiced quotations' totals only.
LEMMA ExposureStep ==
    ASSUME invoiced' = invoiced, \A q \in invoiced : quote'[q].total = quote[q].total
    PROVE  Exposure' = Exposure
  <1>1. [q \in invoiced' |-> quote'[q].total] = [q \in invoiced |-> quote[q].total]
    OBVIOUS
  <1> QED BY <1>1 DEF Exposure

\* One session goes on; the tables stay.
LEMMA CheckedSession ==
    ASSUME TypeOK, Checked, NEW r \in Requests, NEW s, req' = [req EXCEPT ![r] = s],
           valid' = valid, quote' = quote, job' = job, invoiced' = invoiced,
           \A x \in Requests : x # r /\ x \in disturbed => x \in disturbed',
           r \notin disturbed' =>
               /\ s.pc \in {"credit", "rates", "counted", "inserted"} => Exposure + quote[s.q].total <= CreditLimit
               /\ s.pc \in {"rates", "counted", "inserted"} => quote[s.q].rate \in valid
    PROVE  Checked'
  <1>1. \A x \in Requests : req'[x] = IF x = r THEN s ELSE req[x]
    BY DEF TypeOK
  <1>2. Exposure' = Exposure
    BY ExposureStep
  <1>3. \A x \in Requests : x # r /\ x \notin disturbed' => x \notin disturbed
    OBVIOUS
  <1> QED BY <1>1, <1>2, <1>3 DEF Checked

\* A commit writes the row its session held, which no invoice and no other
\* session refers to.
LEMMA CheckedCommit ==
    ASSUME IInv, Checked, NEW r \in Requests, CommitQuotation(r) \/ CommitSend(r) \/ CommitAccept(r)
    PROVE  Checked'
  <1> DEFINE c == req[r].q
  <1>1. /\ c \in Quotes /\ quote[c].status # "ACCEPTED" /\ job[c] = 0 /\ c # "none"
    BY QuotationsAssumption
    DEF IInv, CommitQuotation, CommitSend, CommitAccept, TypeOK, Session, LocksExclude, HeldIsOpen, AcceptedIffJob
  <1>2. /\ \A q \in Quotes : q # c => quote'[q] = quote[q] /\ job'[q] = job[q]
        /\ invoiced' = invoiced /\ valid' = valid /\ invoiced \subseteq Quotes
    BY DEF IInv, TypeOK, CommitQuotation, CommitSend, CommitAccept
  <1>3. c \notin invoiced
    BY <1>1 DEF Checked
  <1>4. Exposure' = Exposure
    BY <1>2, <1>3, ExposureStep
  <1>5. \A q \in invoiced' : job'[q] # 0
    BY <1>2, <1>3 DEF Checked
  <1>6. \A x \in Requests : req'[x] = IF x = r THEN Idle ELSE req[x]
    BY DEF IInv, TypeOK, CommitQuotation, CommitSend, CommitAccept
  <1>7. Idle.pc = "idle"
    BY DEF Idle
  <1>8. \A x \in Requests : x # r /\ x \notin disturbed' => x \notin disturbed
    BY DEF CommitQuotation, CommitSend, CommitAccept
  <1>9. \A x \in Requests : x # r /\ req[x].pc # "idle" => req[x].q \in Quotes /\ req[x].q # c
    BY <1>1 DEF IInv, LocksExclude, TypeOK, Session
  <1> HIDE DEF c
  <1>10. ASSUME NEW x \in Requests, x \notin disturbed'
         PROVE  /\ req'[x].pc \in {"credit", "rates", "counted", "inserted"} =>
                      Exposure' + quote'[req'[x].q].total <= CreditLimit
                /\ req'[x].pc \in {"rates", "counted", "inserted"} => quote'[req'[x].q].rate \in valid'
    <2>1. CASE req'[x].pc = "idle"
      BY <2>1
    <2>2. CASE req'[x].pc # "idle"
      <3>1. x # r /\ req'[x] = req[x] /\ x \notin disturbed
        BY <1>6, <1>7, <1>8, <1>10, <2>2
      <3>2. quote'[req[x].q] = quote[req[x].q]
        BY <1>2, <1>9, <2>2, <3>1
      <3> QED BY <1>2, <1>4, <3>1, <3>2 DEF Checked
    <2> QED BY <2>1, <2>2
  <1> QED BY <1>5, <1>10 DEF Checked

\* An invoice or the end of a rate disturbs every acceptance in progress.
LEMMA CheckedDisturbed ==
    ASSUME Checked, quote' = quote, job' = job, req' = req, disturbed' = disturbed \cup Accepting,
           \A q \in invoiced' : job[q] # 0
    PROVE  Checked'
  <1>1. \A r \in Requests : r \notin disturbed' => req[r].pc \notin {"locked", "credit", "rates", "counted", "inserted"}
    BY DEF Accepting
  <1> QED BY <1>1 DEF Checked

LEMMA CheckedNext == IInv /\ Checked /\ [Next]_vars => Checked'
  <1> SUFFICES ASSUME IInv, Checked, [Next]_vars PROVE Checked'
    OBVIOUS
  <1>1. TypeOK
    BY DEF IInv
  <1>2. ASSUME NEW r \in Requests, NEW s, s.pc \notin {"credit", "rates", "counted", "inserted"}, req' = [req EXCEPT ![r] = s],
               UNCHANGED <<valid, quote, job, invoiced>>,
               \A x \in Requests : x # r /\ x \in disturbed => x \in disturbed'
        PROVE  Checked'
    <2>1. valid' = valid /\ quote' = quote /\ job' = job /\ invoiced' = invoiced
      BY <1>2
    <2> QED BY <1>1, <1>2, <2>1, CheckedSession
  <1>3. ASSUME NEW r \in Requests, NEW q \in Quotes, NEW rt \in RateIds, NEW m \in Markups,
               NEW requested \in RateIds \cup {"none"},
               NEW expiry \in {today + Validity, LastDay}, Price(r, q, rt, requested, m, expiry)
        PROVE  Checked'
    <2> DEFINE row == [status |-> FirstStatus(rt, m), rate |-> rt, total |-> Sell(rt, m), expiry |-> expiry]
               s == [Idle EXCEPT !.pc = "priced", !.q = q, !.new = row]
    <2>1. s.pc \notin {"credit", "rates", "counted", "inserted"}
      BY DEF Idle
    <2>2. /\ req' = [req EXCEPT ![r] = s] /\ UNCHANGED <<valid, quote, job, invoiced>>
          /\ \A x \in Requests : x # r /\ x \in disturbed => x \in disturbed'
      BY <1>3 DEF Price, db
    <2> HIDE DEF s
    <2> QED BY <1>2, <2>1, <2>2
  <1>4. ASSUME NEW r \in Requests, NEW q \in Quotes, LockForSend(r, q) \/ LockForAccept(r, q) PROVE Checked'
    <2>1. /\ UNCHANGED <<valid, quote, job, invoiced>>
          /\ \A x \in Requests : x # r /\ x \in disturbed => x \in disturbed'
      BY <1>4 DEF LockForSend, LockForAccept, db
    <2>2. PICK to \in {"sending", "locked"} : req' = [req EXCEPT ![r] = [Idle EXCEPT !.pc = to, !.q = q]]
      BY <1>4 DEF LockForSend, LockForAccept, db
    <2> DEFINE s == [Idle EXCEPT !.pc = to, !.q = q]
    <2>3. s.pc \notin {"credit", "rates", "counted", "inserted"}
      BY DEF Idle
    <2> HIDE DEF s
    <2>4. req' = [req EXCEPT ![r] = s]
      BY <2>2 DEF s
    <2> QED BY <1>2, <2>1, <2>3, <2>4
  <1>5. ASSUME NEW r \in Requests, Rollback(r) PROVE Checked'
    <2>1. /\ req' = [req EXCEPT ![r] = Idle] /\ UNCHANGED <<valid, quote, job, invoiced>>
          /\ \A x \in Requests : x # r /\ x \in disturbed => x \in disturbed'
          /\ Idle.pc \notin {"credit", "rates", "counted", "inserted"}
      BY <1>5 DEF Rollback, Idle, db
    <2> QED BY <1>2, <2>1
  <1>6. ASSUME NEW r \in Requests, NEW s, s.q = req[r].q, req' = [req EXCEPT ![r] = s], UNCHANGED <<db, disturbed>>,
               \/ s.pc = "credit" /\ WithinLimit(req[r].q)
               \/ s.pc = "rates" /\ req[r].pc = "credit" /\ quote[req[r].q].rate \in valid
               \/ s.pc \in {"counted", "inserted"} /\ req[r].pc \in {"rates", "counted"}
        PROVE  Checked'
    <2>1. valid' = valid /\ quote' = quote /\ job' = job /\ invoiced' = invoiced /\ disturbed' = disturbed
      BY <1>6 DEF db
    <2>2. r \notin disturbed' =>
             /\ s.pc \in {"credit", "rates", "counted", "inserted"} => Exposure + quote[s.q].total <= CreditLimit
             /\ s.pc \in {"rates", "counted", "inserted"} => quote[s.q].rate \in valid
      BY <1>6, <2>1 DEF Checked, WithinLimit
    <2> QED BY <1>1, <1>6, <2>1, <2>2, CheckedSession
  <1>7. ASSUME NEW r \in Requests, CheckCredit(r) PROVE Checked'
    <2> DEFINE s == [req[r] EXCEPT !.pc = "credit"]
    <2>1. s.pc = "credit" /\ s.q = req[r].q
      BY <1>1 DEF TypeOK, Session
    <2>2. req' = [req EXCEPT ![r] = s] /\ UNCHANGED <<db, disturbed>> /\ WithinLimit(req[r].q)
      BY <1>7 DEF CheckCredit, Pass
    <2> HIDE DEF s
    <2> QED BY <1>6, <2>1, <2>2
  <1>8. ASSUME NEW r \in Requests, CheckRates(r) PROVE Checked'
    <2> DEFINE s == [req[r] EXCEPT !.pc = "rates"]
    <2>1. s.pc = "rates" /\ s.q = req[r].q
      BY <1>1 DEF TypeOK, Session
    <2>2. req' = [req EXCEPT ![r] = s] /\ UNCHANGED <<db, disturbed>> /\ req[r].pc = "credit" /\ quote[req[r].q].rate \in valid
      BY <1>8 DEF CheckRates, Pass
    <2> HIDE DEF s
    <2> QED BY <1>6, <2>1, <2>2
  <1>9. ASSUME NEW r \in Requests, CountJobs(r) PROVE Checked'
    <2> DEFINE n == JobCount + 1
               s == [req[r] EXCEPT !.pc = "counted", !.number = n]
    <2>1. req' = [req EXCEPT ![r] = s] /\ UNCHANGED <<db, disturbed>> /\ req[r].pc = "rates"
      BY <1>9 DEF CountJobs
    <2> HIDE DEF n
    <2>2. s.pc = "counted" /\ s.q = req[r].q
      BY <1>1 DEF TypeOK, Session
    <2> HIDE DEF s
    <2> QED BY <1>6, <2>1, <2>2
  <1>10. ASSUME NEW r \in Requests, InsertJob(r) PROVE Checked'
    <2> DEFINE s == [req[r] EXCEPT !.pc = "inserted"]
    <2>1. s.pc = "inserted" /\ s.q = req[r].q
      BY <1>1 DEF TypeOK, Session
    <2>2. req' = [req EXCEPT ![r] = s] /\ UNCHANGED <<db, disturbed>> /\ req[r].pc = "counted"
      BY <1>10 DEF InsertJob, Pass
    <2> HIDE DEF s
    <2> QED BY <1>6, <2>1, <2>2
  <1>11. ASSUME NEW r \in Requests, NEW q \in Quotes, InvoiceJob(r, q) PROVE Checked'
    BY <1>11, CheckedDisturbed DEF InvoiceJob, Checked
  <1>12. ASSUME NEW r \in Requests, NEW rt \in RateIds, EndRate(r, rt) PROVE Checked'
    BY <1>12, CheckedDisturbed DEF EndRate, Checked
  <1>13. CASE NextDay \/ UNCHANGED vars
    <2>1. valid' = valid /\ quote' = quote /\ job' = job /\ invoiced' = invoiced /\ disturbed' = disturbed /\ req' = req
      BY <1>13 DEF NextDay, vars
    <2>2. Exposure' = Exposure
      BY <2>1, ExposureStep
    <2> QED BY <2>1, <2>2 DEF Checked
  <1> QED
    BY <1>3, <1>4, <1>5, <1>7, <1>8, <1>9, <1>10, <1>11, <1>12, <1>13, CheckedCommit DEF Next, Progress

\* accept_quotation: an acceptance in whose course no rate ended and no invoice
\* was issued meets its credit and rate checks at the moment it commits, although
\* neither invoices nor rates are locked, for any number of requests.
THEOREM AcceptanceMeetsChecks == Spec => AcceptedAsChecked
  <1> DEFINE A == \A r \in Requests \ disturbed : LET q == req[r].q IN
                     req[r].pc = "inserted" /\ quote'[q].status = "ACCEPTED" =>
                         Exposure + quote[q].total <= CreditLimit /\ quote[q].rate \in valid
  <1>1. Init => Checked
    BY DEF Init, Checked, Idle
  <1>2. IInv /\ Checked /\ [Next]_vars => (IInv /\ Checked)'
    BY TypeStep, LocksStep, HeldStep, AcceptedStep, CheckedNext DEF IInv
  <1>3. IInv /\ Checked /\ [Next]_vars => [A]_vars
    BY DEF Checked
  <1> QED BY InitHolds, <1>1, <1>2, <1>3, PTL DEF Spec, AcceptedAsChecked
=============================================================================
