----------------------------- MODULE RatesProof -----------------------------
(***************************************************************************)
(* Proofs about Rates: what the row lock of transition_rate and             *)
(* create_rate_version secures, for any number of rates and requests.       *)
(***************************************************************************)
EXTENDS Rates, TLAPS

\* A session holds the row of its rate, alone, from the lock to its end.
LocksExclude ==
    /\ \A r \in Requests : req[r].op = "idle" <=> req[r].rt = "none"
    /\ \A r \in Requests : req[r].rt \notin taken
    /\ \A r, q \in Requests : r # q /\ req[r].rt # "none" => req[q].rt # req[r].rt

\* What a session read under the lock still holds when it commits.
ReadsStayTrue ==
    /\ \A r \in Requests : req[r].op = "insert" => req[r].number = versions[req[r].rt] + 1
    /\ \A r \in Requests : req[r].op = "transition" => <<rate[req[r].rt], req[r].to>> \in Allowed

IInv == TypeOK /\ LocksExclude /\ ReadsStayTrue

LEMMA TypeInit == Init => TypeOK
  BY RatesAssumption DEF Init, TypeOK, Idle, Session

LEMMA TypeStep == TypeOK /\ LocksExclude /\ [Next]_vars => TypeOK'
  <1> SUFFICES ASSUME TypeOK, LocksExclude, [Next]_vars PROVE TypeOK'
    OBVIOUS
  <1> USE DEF TypeOK, task, table
  <1>1. ASSUME NEW r \in Requests, NEW rt \in RateIds, CreateRate(r, rt) PROVE TypeOK'
    BY <1>1 DEF CreateRate, RateStatus
  <1>2. ASSUME NEW r \in Requests, NEW rt \in RateIds, LockForVersion(r, rt) PROVE TypeOK'
    BY <1>2 DEF LockForVersion, Session, Idle
  <1>3. ASSUME NEW r \in Requests, NEW rt \in RateIds, NEW to \in RateStatus, LockForTransition(r, rt, to)
        PROVE TypeOK'
    BY <1>3 DEF LockForTransition, Session, Idle
  <1>4. ASSUME NEW r \in Requests, InsertVersion(r) PROVE TypeOK'
    <2>1. req[r].rt \in RateIds
      BY <1>4 DEF InsertVersion, LocksExclude, Session
    <2>2. NextNumber(req[r].rt) \in Nat
      BY <2>1 DEF NextNumber
    <2> QED BY <1>4, <2>1, <2>2 DEF InsertVersion, Session
  <1>5. ASSUME NEW r \in Requests, CommitVersion(r) PROVE TypeOK'
    BY <1>5 DEF CommitVersion, Session, Idle
  <1>6. ASSUME NEW r \in Requests, CommitTransition(r) PROVE TypeOK'
    BY <1>6 DEF CommitTransition, Session, Idle
  <1>7. ASSUME NEW r \in Requests, Rollback(r) PROVE TypeOK'
    BY <1>7 DEF Rollback, Session, Idle
  <1>8. CASE LoadOverdue
    BY <1>8 DEF LoadOverdue, Overdue
  <1>9. ASSUME NEW rt \in RateIds, TakeRow(rt) PROVE TypeOK'
    BY <1>9 DEF TakeRow
  <1>10. CASE CommitExpiry
    BY <1>10 DEF CommitExpiry, ExpiredStatus, RateStatus
  <1>11. CASE TaskDies
    BY <1>11 DEF TaskDies
  <1>12. CASE NextDay
    BY <1>12 DEF NextDay
  <1>13. CASE UNCHANGED vars
    BY <1>13 DEF vars
  <1> QED
    BY <1>1, <1>2, <1>3, <1>4, <1>5, <1>6, <1>7, <1>8, <1>9, <1>10, <1>11, <1>12, <1>13 DEF Next, Finish

LEMMA LocksInit == Init => LocksExclude
  BY DEF Init, LocksExclude, Idle

LEMMA LocksStep == TypeOK /\ LocksExclude /\ [Next]_vars => LocksExclude'
  <1> SUFFICES ASSUME TypeOK, LocksExclude, [Next]_vars PROVE LocksExclude'
    OBVIOUS
  <1> USE DEF LocksExclude, task, table
  \* A lock is taken only on a row nobody holds.
  <1>1. ASSUME NEW r \in Requests, NEW rt \in RateIds, NEW new,
               new.op # "idle", new.rt = rt, RowIsFree(rt),
               req' = [req EXCEPT ![r] = new], taken' = taken
        PROVE LocksExclude'
    <2>1. rt # "none" /\ rt \notin taken /\ \A q \in Requests : req[q].rt # rt
      BY <1>1, RatesAssumption DEF RowIsFree
    <2>2. req'[r] = new /\ \A q \in Requests : q # r => req'[q] = req[q]
      BY <1>1 DEF TypeOK
    <2> QED BY <1>1, <2>1, <2>2
  <1>2. ASSUME NEW r \in Requests, NEW rt \in RateIds, LockForVersion(r, rt) PROVE LocksExclude'
    <2> DEFINE new == [Idle EXCEPT !.op = "version", !.rt = rt]
    <2>1. new.op # "idle" /\ new.rt = rt
      BY DEF Idle
    <2>2. RowIsFree(rt) /\ req' = [req EXCEPT ![r] = new] /\ taken' = taken
      BY <1>2 DEF LockForVersion
    <2> HIDE DEF new
    <2> QED BY <1>1, <2>1, <2>2
  <1>3. ASSUME NEW r \in Requests, NEW rt \in RateIds, NEW to \in RateStatus, LockForTransition(r, rt, to)
        PROVE LocksExclude'
    <2> DEFINE new == [Idle EXCEPT !.op = "transition", !.rt = rt, !.to = to]
    <2>1. new.op # "idle" /\ new.rt = rt
      BY DEF Idle
    <2>2. RowIsFree(rt) /\ req' = [req EXCEPT ![r] = new] /\ taken' = taken
      BY <1>3 DEF LockForTransition
    <2> HIDE DEF new
    <2> QED BY <1>1, <2>1, <2>2
  \* It is given up when the session ends.
  <1>4. ASSUME NEW r \in Requests, req' = [req EXCEPT ![r] = Idle], taken' = taken
        PROVE LocksExclude'
    <2>1. "none" \notin taken
      BY RatesAssumption DEF TypeOK
    <2>2. req'[r] = Idle /\ \A q \in Requests : q # r => req'[q] = req[q]
      BY <1>4 DEF TypeOK
    <2> QED BY <1>4, <2>1, <2>2 DEF Idle
  <1>5. ASSUME NEW r \in Requests, CommitVersion(r) \/ CommitTransition(r) \/ Rollback(r) PROVE LocksExclude'
    BY <1>4, <1>5 DEF CommitVersion, CommitTransition, Rollback
  <1>6. ASSUME NEW r \in Requests, InsertVersion(r) PROVE LocksExclude'
    <2>1. /\ req'[r].op = "insert" /\ req[r].op = "version" /\ req'[r].rt = req[r].rt
          /\ \A q \in Requests : q # r => req'[q] = req[q]
      BY <1>6 DEF InsertVersion, TypeOK, Session
    <2>2. taken' = taken
      BY <1>6 DEF InsertVersion
    <2>3. \A q \in Requests : req'[q].rt = req[q].rt /\ (req'[q].op = "idle" <=> req[q].op = "idle")
      BY <2>1
    <2> QED BY <2>2, <2>3
  <1>7. ASSUME NEW rt \in RateIds, TakeRow(rt) PROVE LocksExclude'
    BY <1>7 DEF TakeRow, RowIsFree
  <1>8. CASE CommitExpiry \/ TaskDies
    BY <1>8 DEF CommitExpiry, TaskDies
  <1>9. CASE LoadOverdue \/ NextDay \/ UNCHANGED vars
    BY <1>9 DEF LoadOverdue, NextDay, vars
  <1>10. ASSUME NEW r \in Requests, NEW rt \in RateIds, CreateRate(r, rt) PROVE LocksExclude'
    BY <1>10 DEF CreateRate
  <1> QED
    BY <1>2, <1>3, <1>5, <1>6, <1>7, <1>8, <1>9, <1>10 DEF Next, Finish

LEMMA ReadsInit == Init => ReadsStayTrue
  BY DEF Init, ReadsStayTrue, Idle

LEMMA ReadsStep == IInv /\ [Next]_vars => ReadsStayTrue'
  <1> SUFFICES ASSUME TypeOK, LocksExclude, ReadsStayTrue, [Next]_vars PROVE ReadsStayTrue'
    BY DEF IInv
  <1> USE DEF ReadsStayTrue, task, table
  <1>1. ASSUME NEW r \in Requests, NEW rt \in RateIds, CreateRate(r, rt) PROVE ReadsStayTrue'
    <2>1. /\ rate[rt] = "NONE" /\ versions' = versions /\ req' = req
          /\ \A x \in RateIds : x # rt => rate'[x] = rate[x]
      BY <1>1 DEF CreateRate, TypeOK
    <2>2. ASSUME NEW q \in Requests, req[q].op = "transition" PROVE rate'[req[q].rt] = rate[req[q].rt]
      <3>1. req[q].rt \in RateIds
        BY <2>2 DEF LocksExclude, TypeOK, Session
      <3>2. req[q].rt # rt
        BY <2>1, <2>2 DEF Allowed
      <3> QED BY <2>1, <3>1, <3>2
    <2> QED BY <2>1, <2>2
  <1>2. ASSUME NEW r \in Requests, NEW rt \in RateIds, LockForVersion(r, rt) PROVE ReadsStayTrue'
    BY <1>2 DEF LockForVersion, Idle, TypeOK
  <1>3. ASSUME NEW r \in Requests, NEW rt \in RateIds, NEW to \in RateStatus, LockForTransition(r, rt, to)
        PROVE ReadsStayTrue'
    <2> DEFINE new == [Idle EXCEPT !.op = "transition", !.rt = rt, !.to = to]
    <2>1. new.op = "transition" /\ new.rt = rt /\ new.to = to
      BY DEF Idle
    <2>2. /\ req'[r] = new /\ rate' = rate /\ versions' = versions /\ <<rate[rt], to>> \in Allowed
          /\ \A q \in Requests : q # r => req'[q] = req[q]
      BY <1>3 DEF LockForTransition, TypeOK
    <2> HIDE DEF new
    <2> QED BY <2>1, <2>2
  <1>4. ASSUME NEW r \in Requests, InsertVersion(r) PROVE ReadsStayTrue'
    <2>1. /\ req'[r].op = "insert" /\ req'[r].rt = req[r].rt /\ req'[r].number = versions[req[r].rt] + 1
          /\ \A q \in Requests : q # r => req'[q] = req[q]
      BY <1>4 DEF InsertVersion, NextNumber, TypeOK, Session
    <2>2. rate' = rate /\ versions' = versions
      BY <1>4 DEF InsertVersion
    <2> QED BY <2>1, <2>2
  \* A commit touches only the rate whose row the session held.
  <1>5. ASSUME NEW r \in Requests, CommitVersion(r) \/ CommitTransition(r) PROVE ReadsStayTrue'
    <2>1. /\ req'[r] = Idle /\ \A q \in Requests : q # r => req'[q] = req[q]
          /\ req[r].op # "idle"
      BY <1>5 DEF CommitVersion, CommitTransition, TypeOK
    <2>2. \A x \in RateIds : x # req[r].rt => rate'[x] = rate[x] /\ versions'[x] = versions[x]
      BY <1>5 DEF CommitVersion, CommitTransition, TypeOK
    <2>3. ASSUME NEW q \in Requests, q # r, req[q].op # "idle"
          PROVE rate'[req[q].rt] = rate[req[q].rt] /\ versions'[req[q].rt] = versions[req[q].rt]
      <3>1. req[q].rt \in RateIds /\ req[q].rt # req[r].rt
        BY <2>1, <2>3 DEF LocksExclude, TypeOK, Session
      <3> QED BY <2>2, <3>1
    <2> QED BY <2>1, <2>3 DEF Idle
  <1>6. ASSUME NEW r \in Requests, Rollback(r) PROVE ReadsStayTrue'
    BY <1>6 DEF Rollback, Idle, TypeOK
  \* The task writes only rows it holds itself.
  <1>7. CASE CommitExpiry
    <2>1. req' = req /\ versions' = versions /\ \A x \in RateIds : x \notin taken => rate'[x] = rate[x]
      BY <1>7 DEF CommitExpiry
    <2>2. ASSUME NEW q \in Requests, req[q].op = "transition" PROVE rate'[req[q].rt] = rate[req[q].rt]
      <3>1. req[q].rt \in RateIds /\ req[q].rt \notin taken
        BY <2>2 DEF LocksExclude, TypeOK, Session
      <3> QED BY <2>1, <3>1
    <2> QED BY <2>1, <2>2
  <1>8. ASSUME NEW rt \in RateIds, TakeRow(rt) PROVE ReadsStayTrue'
    BY <1>8 DEF TakeRow
  <1>9. CASE LoadOverdue \/ TaskDies \/ NextDay \/ UNCHANGED vars
    BY <1>9 DEF LoadOverdue, TaskDies, NextDay, vars
  <1> QED
    BY <1>1, <1>2, <1>3, <1>4, <1>5, <1>6, <1>7, <1>8, <1>9 DEF Next, Finish

LEMMA Invariance == Spec => []IInv
  <1>1. Init => IInv
    BY TypeInit, LocksInit, ReadsInit DEF IInv
  <1>2. IInv /\ [Next]_vars => IInv'
    BY TypeStep, LocksStep, ReadsStep DEF IInv
  <1> QED BY <1>1, <1>2, PTL DEF Spec

\* The tables, the task's batch and the sessions keep their types, for any rates
\* and any number of requests (TypeOK needs the locks: a version is numbered
\* only for a rate that exists).
THEOREM RatesTypeCorrect == Spec => []TypeOK
  <1>1. IInv => TypeOK
    BY DEF IInv
  <1> QED BY <1>1, Invariance, PTL

\* create_rate_version: the lock on the parent rate makes max + 1 a number that
\* no other session has or gets.
THEOREM VersionNumbersUnique == Spec => []VersionsNeverCollide
  <1>1. IInv => VersionsNeverCollide
    <2> SUFFICES ASSUME IInv, NEW r \in Requests, req[r].op = "insert"
                 PROVE /\ req[r].number = versions[req[r].rt] + 1
                       /\ \A q \in Requests : q # r /\ req[q].op = "insert" => req[q].rt # req[r].rt
      BY DEF VersionsNeverCollide
    <2> QED BY DEF IInv, LocksExclude, ReadsStayTrue
  <1> QED BY <1>1, Invariance, PTL

LEMMA MapStep == IInv /\ [Next]_vars =>
    \A rt \in RateIds : rate'[rt] # rate[rt] =>
        \/ rate[rt] = "NONE" /\ rate'[rt] = "DRAFT"
        \/ <<rate[rt], rate'[rt]>> \in Allowed
        \/ rt \in batch /\ rate'[rt] = "EXPIRED"
  <1> SUFFICES ASSUME IInv, [Next]_vars, NEW rt \in RateIds, rate'[rt] # rate[rt]
               PROVE \/ rate[rt] = "NONE" /\ rate'[rt] = "DRAFT"
                     \/ <<rate[rt], rate'[rt]>> \in Allowed
                     \/ rt \in batch /\ rate'[rt] = "EXPIRED"
    OBVIOUS
  <1> USE DEF IInv, task, table
  <1>1. ASSUME NEW r \in Requests, NEW x \in RateIds, CreateRate(r, x)
        PROVE rate[rt] = "NONE" /\ rate'[rt] = "DRAFT"
    BY <1>1 DEF CreateRate, TypeOK
  <1>2. ASSUME NEW r \in Requests, CommitTransition(r) PROVE <<rate[rt], rate'[rt]>> \in Allowed
    <2>1. rt = req[r].rt /\ rate'[rt] = req[r].to
      BY <1>2 DEF CommitTransition, TypeOK
    <2>2. <<rate[req[r].rt], req[r].to>> \in Allowed
      BY <1>2 DEF CommitTransition, ReadsStayTrue
    <2> QED BY <2>1, <2>2
  <1>3. ASSUME CommitExpiry PROVE rt \in batch /\ rate'[rt] = "EXPIRED"
    BY <1>3 DEF CommitExpiry, ExpiredStatus
  <1>4. ASSUME NEW r \in Requests, NEW x \in RateIds,
               LockForVersion(r, x) \/ (\E to \in RateStatus : LockForTransition(r, x, to)) PROVE FALSE
    BY <1>4 DEF LockForVersion, LockForTransition
  <1>5. ASSUME NEW r \in Requests, InsertVersion(r) \/ CommitVersion(r) \/ Rollback(r) PROVE FALSE
    BY <1>5 DEF InsertVersion, CommitVersion, Rollback
  <1>6. ASSUME NEW x \in RateIds, TakeRow(x) PROVE FALSE
    BY <1>6 DEF TakeRow
  <1>7. ASSUME LoadOverdue \/ TaskDies \/ NextDay \/ UNCHANGED vars PROVE FALSE
    BY <1>7 DEF LoadOverdue, TaskDies, NextDay, vars
  <1> QED
    BY <1>1, <1>2, <1>3, <1>4, <1>5, <1>6, <1>7 DEF Next, Finish

\* transition_rate: under the lock the status that was checked is the status
\* that is replaced, so only the expiry task can leave the map.
THEOREM RatesFollowMap == Spec => ChangesFollowMap
  <1>1. IInv /\ [Next]_vars =>
          [\A rt \in RateIds : rate'[rt] # rate[rt] =>
              \/ rate[rt] = "NONE" /\ rate'[rt] = "DRAFT"
              \/ <<rate[rt], rate'[rt]>> \in Allowed
              \/ rt \in batch /\ rate'[rt] = "EXPIRED"]_vars
    BY MapStep
  <1> QED BY <1>1, Invariance, PTL DEF Spec, ChangesFollowMap
=============================================================================
