--------------------------- MODULE FinancialProof ---------------------------
(***************************************************************************)
(* Proofs about the two halves of app/modules/financial/service.py, for any  *)
(* number of concurrent requests, and about the shared cost of              *)
(* app/services/lcl_service.py.                                            *)
(*                                                                         *)
(* Ledger, for any table bound, postings and corrections: the types, the    *)
(* completeness of the correction trail, that no correction rewrites an     *)
(* entry, that all the entries of a posting add up to the one in force, and *)
(* that the ledger implements CorrectedLedger.                             *)
(* TrailIsComplete is not inductive alone: a session that loaded its entry  *)
(* before another reversed it still commits a reversal of it.  SessionInv   *)
(* says what such a stale session may rely on: amounts never change, and    *)
(* its entry is POSTED or, meanwhile, REVERSED.                            *)
(* The balances need what a sum over the rows and the root of a trail are.  *)
(* Both are recursive functions of the row number; UpTo is the induction    *)
(* over sets of numbers that gives their equations.  Corrects then says     *)
(* what a commit does from one table to the next, and CorrectRoots,         *)
(* CorrectTrails, CorrectNets and CorrectContested what that means for the  *)
(* trails, with two rows more in one of them and a reversal that cancels.   *)
(*                                                                         *)
(* Margin, for any exceptions and amounts: the types, the dates of closed   *)
(* exceptions, and that the watch restores the flag while requests come one *)
(* after the other.                                                        *)
(*                                                                         *)
(* CostAllocation, for any consolidation: the shares add up to the cost and  *)
(* are as close to the exact ones as rounding allows.                      *)
(***************************************************************************)
EXTENDS Ledger, Margin, CostAllocation, FiniteSetTheorems, WellFoundedInduction, TLAPS

-----------------------------------------------------------------------------
(* The ledger of corrections                                                *)

\* What a request knows about the entry it loaded.
SessionInv ==
    \A r \in Correctors : correction[r].pc # "idle" =>
        /\ correction[r].e \in 1 .. last
        /\ entry[correction[r].e].status \in {"POSTED", "REVERSED"}
        /\ correction[r].row.debit = entry[correction[r].e].debit
        /\ correction[r].row.credit = entry[correction[r].e].credit

\* A reversal and a correction name what they correct.
NamesItsEntry == \A e \in Ids : entry[e].status = "REVERSAL" => entry[e].of # 0

IInv == LedgerTypeOK /\ SessionInv /\ TrailIsComplete /\ ReversedIsCancelled /\ NamesItsEntry

-----------------------------------------------------------------------------
\* The first rows are the postings, numbered from 1.
LEMMA PostingsAreNumbered == \E n \in 0 .. MaxEntries :
        DOMAIN Originals = 1 .. n /\ Cardinality(DOMAIN Originals) = n
                             /\ Originals \in [1 .. n -> [debit : Nat, credit : Nat]]
<1>1. PICK n \in 0 .. MaxEntries : Originals \in [1 .. n -> [debit : Nat, credit : Nat]]
  BY LedgerAssumption
<1>2. DOMAIN Originals = 1 .. n
  BY <1>1
<1>3. Cardinality(1 .. n) = n
  BY FS_Interval, LedgerAssumption
<1> QED BY <1>1, <1>2, <1>3

LEMMA InitHolds == LedgerInit => IInv
<1> SUFFICES ASSUME LedgerInit PROVE IInv
  OBVIOUS
<1>1. PICK n \in 0 .. MaxEntries : DOMAIN Originals = 1 .. n /\ Cardinality(DOMAIN Originals) = n
                             /\ Originals \in [1 .. n -> [debit : Nat, credit : Nat]]
  BY PostingsAreNumbered
<1>2. last = n
  BY <1>1 DEF LedgerInit
<1>3. \A e \in Ids : e <= n => /\ entry[e].status = "POSTED" /\ entry[e].of = 0
                               /\ entry[e] \in Entry
  <2> SUFFICES ASSUME NEW e \in Ids, e <= n
               PROVE  entry[e].status = "POSTED" /\ entry[e].of = 0 /\ entry[e] \in Entry
    OBVIOUS
  <2>1. e \in DOMAIN Originals
    BY <1>1, LedgerAssumption DEF Ids
  <2>2. entry[e] = [NoEntry EXCEPT !.status = "POSTED", !.debit = Originals[e].debit,
                                   !.credit = Originals[e].credit]
    BY <2>1 DEF LedgerInit
  <2>3. Originals[e].debit \in Nat /\ Originals[e].credit \in Nat
    BY <1>1, <2>1
  <2> QED BY <2>2, <2>3 DEF NoEntry, Entry, Status
<1>4. \A e \in Ids : e > n => entry[e] = NoEntry
  <2> SUFFICES ASSUME NEW e \in Ids, e > n PROVE entry[e] = NoEntry
    OBVIOUS
  <2>1. e \notin DOMAIN Originals
    BY <1>1, LedgerAssumption DEF Ids
  <2> QED BY <2>1 DEF LedgerInit
<1>5. LedgerTypeOK
  <2>1. entry \in [Ids -> Entry]
    <3>1. NoEntry \in Entry
      BY DEF NoEntry, Entry, Status
    <3>2. \A e \in Ids : entry[e] \in Entry
      BY <1>3, <1>4, <3>1, LedgerAssumption DEF Ids
    <3> QED BY <3>2 DEF LedgerInit
  <2>2. \A e \in Ids : entry[e].status = "NONE" <=> e > n
    BY <1>3, <1>4, LedgerAssumption DEF Ids, NoEntry
  <2>3. correction \in [Correctors -> CorrectionState]
    BY DEF LedgerInit, CorrectionState, NoCorrection, NoEntry, Entry, Status
  <2> QED BY <1>2, <2>1, <2>2, <2>3 DEF LedgerTypeOK
<1>6. \A e \in Ids : entry[e].of = 0 /\ entry[e].status \in {"NONE", "POSTED"}
  BY <1>3, <1>4, LedgerAssumption DEF NoEntry, Ids
<1>7. SessionInv
  BY DEF LedgerInit, SessionInv, NoCorrection
<1> QED BY <1>5, <1>6, <1>7 DEF IInv, TrailIsComplete, ReversedIsCancelled, NamesItsEntry

-----------------------------------------------------------------------------
\* Steps that leave the table alone keep what is said of the table.
LEMMA TableUnchanged ==
    ASSUME IInv, UNCHANGED <<entry, last>>,
           correction' \in [Correctors -> CorrectionState], SessionInv'
    PROVE  IInv'
BY DEF IInv, LedgerTypeOK, TrailIsComplete, ReversedIsCancelled, NamesItsEntry, Cancels

LEMMA LoadKeeps ==
    ASSUME IInv, NEW r \in Correctors, NEW e \in Ids, NEW a \in Corrections, LoadEntry(r, e, a)
    PROVE  IInv'
<1> USE DEF IInv
<1>1. entry[e].status = "POSTED" /\ entry[e] \in Entry
  BY DEF LoadEntry, Reversible, LedgerTypeOK
<1>2. a.debit \in Nat /\ a.credit \in Nat
  BY LedgerAssumption
<1>3. correction' \in [Correctors -> CorrectionState]
  BY <1>1, <1>2 DEF LoadEntry, LedgerTypeOK, CorrectionState
<1>4. e \in 1 .. last
  BY <1>1, LedgerAssumption DEF LedgerTypeOK, Ids
<1>5. SessionInv'
  BY <1>1, <1>4 DEF LoadEntry, SessionInv, LedgerTypeOK
<1> QED BY <1>3, <1>5, TableUnchanged DEF LoadEntry

LEMMA FlushKeeps ==
    ASSUME IInv, NEW r \in Correctors, FlushReversal(r)
    PROVE  IInv'
<1> USE DEF IInv
<1>1. correction' \in [Correctors -> CorrectionState]
  BY DEF FlushReversal, LedgerTypeOK, CorrectionState
<1>2. SessionInv'
  BY DEF FlushReversal, SessionInv, LedgerTypeOK, CorrectionState
<1> QED BY <1>1, <1>2, TableUnchanged DEF FlushReversal

LEMMA RollbackKeeps ==
    ASSUME IInv, NEW r \in Correctors, RollbackReversal(r)
    PROVE  IInv'
<1> USE DEF IInv
<1>1. NoCorrection \in CorrectionState
  BY DEF NoCorrection, CorrectionState, NoEntry, Entry, Status
<1>2. correction' \in [Correctors -> CorrectionState]
  BY <1>1 DEF RollbackReversal, LedgerTypeOK
<1>3. SessionInv'
  BY DEF RollbackReversal, SessionInv, LedgerTypeOK, NoCorrection
<1> QED BY <1>2, <1>3, TableUnchanged DEF RollbackReversal

-----------------------------------------------------------------------------
\* What a commit does to the table, row by row.
LEMMA CommitRows ==
    ASSUME IInv, NEW r \in Correctors, CommitReversal(r)
    PROVE  /\ last \in Nat /\ last' = last + 2 /\ last + 2 <= MaxEntries
           /\ correction[r].e \in 1 .. last
           /\ entry' \in [Ids -> Entry]
           /\ \A e \in Ids : e # correction[r].e /\ e # last + 1 /\ e # last + 2 => entry'[e] = entry[e]
           /\ entry'[correction[r].e].status = "REVERSED"
           /\ entry'[correction[r].e].of = entry[correction[r].e].of
           /\ entry'[correction[r].e].debit = entry[correction[r].e].debit
           /\ entry'[correction[r].e].credit = entry[correction[r].e].credit
           /\ entry'[last + 1] = ReversalEntry(correction[r])
           /\ entry'[last + 2] = CorrectedEntry(correction[r])
<1> USE DEF IInv
<1>1. last \in Nat /\ last' = last + 2 /\ last + 2 <= MaxEntries /\ MaxEntries \in Nat
  BY LedgerAssumption DEF CommitReversal, LedgerTypeOK
<1>2. correction[r] \in CorrectionState /\ correction[r].e \in 1 .. last /\ correction[r].row \in Entry
  BY DEF CommitReversal, SessionInv, LedgerTypeOK, CorrectionState
<1>3. correction[r].e \in Ids /\ last + 1 \in Ids /\ last + 2 \in Ids
  BY <1>1, <1>2 DEF Ids
<1>4. ReversalEntry(correction[r]) \in Entry
  BY <1>2, <1>3 DEF ReversalEntry, Entry, Status
<1>5. CorrectedEntry(correction[r]) \in Entry
  BY <1>2, <1>3 DEF CorrectedEntry, Entry, Status, CorrectionState
<1>6. entry[correction[r].e] \in Entry
  BY <1>3 DEF LedgerTypeOK
<1>7. [entry[correction[r].e] EXCEPT !.status = "REVERSED"] \in Entry
  BY <1>6 DEF Entry, Status
<1>8. entry' = [e \in Ids |->
              IF e = correction[r].e THEN [entry[e] EXCEPT !.status = "REVERSED"]
              ELSE IF e = last + 1 THEN ReversalEntry(correction[r])
              ELSE IF e = last + 2 THEN CorrectedEntry(correction[r]) ELSE entry[e]]
  BY DEF CommitReversal
<1>9. entry' \in [Ids -> Entry]
  BY <1>4, <1>5, <1>7, <1>8 DEF LedgerTypeOK
<1>10. /\ entry'[correction[r].e] = [entry[correction[r].e] EXCEPT !.status = "REVERSED"]
       /\ entry'[last + 1] = ReversalEntry(correction[r])
       /\ entry'[last + 2] = CorrectedEntry(correction[r])
  BY <1>1, <1>2, <1>3, <1>8
<1>11. \A e \in Ids : e # correction[r].e /\ e # last + 1 /\ e # last + 2 => entry'[e] = entry[e]
  BY <1>8
<1>12. /\ entry'[correction[r].e].status = "REVERSED"
       /\ entry'[correction[r].e].of = entry[correction[r].e].of
       /\ entry'[correction[r].e].debit = entry[correction[r].e].debit
       /\ entry'[correction[r].e].credit = entry[correction[r].e].credit
  BY <1>10, <1>6 DEF Entry
<1> QED BY <1>1, <1>2, <1>9, <1>10, <1>11, <1>12

LEMMA CommitKeeps ==
    ASSUME IInv, NEW r \in Correctors, CommitReversal(r)
    PROVE  IInv'
<1> DEFINE x == correction[r].e
<1>1. /\ last \in Nat /\ last' = last + 2 /\ last + 2 <= MaxEntries
      /\ x \in 1 .. last
      /\ entry' \in [Ids -> Entry]
      /\ \A e \in Ids : e # x /\ e # last + 1 /\ e # last + 2 => entry'[e] = entry[e]
      /\ entry'[x].status = "REVERSED" /\ entry'[x].of = entry[x].of
      /\ entry'[x].debit = entry[x].debit /\ entry'[x].credit = entry[x].credit
      /\ entry'[last + 1] = ReversalEntry(correction[r])
      /\ entry'[last + 2] = CorrectedEntry(correction[r])
  BY CommitRows
<1>2. MaxEntries \in Nat /\ x \in Ids /\ last + 1 \in Ids /\ last + 2 \in Ids
  BY <1>1, LedgerAssumption DEF Ids
<1>3. /\ entry'[last + 1].status = "REVERSAL" /\ entry'[last + 1].of = x
      /\ entry'[last + 1].debit = correction[r].row.credit /\ entry'[last + 1].credit = correction[r].row.debit
      /\ entry'[last + 2].status = "POSTED" /\ entry'[last + 2].of = last + 1
  BY <1>1 DEF ReversalEntry, CorrectedEntry
<1>4. /\ entry[x].status \in {"POSTED", "REVERSED"}
      /\ correction[r].row.debit = entry[x].debit /\ correction[r].row.credit = entry[x].credit
  BY DEF IInv, SessionInv, CommitReversal
<1>5. \A e \in Ids : entry[e].status = "NONE" <=> e > last
  BY DEF IInv, LedgerTypeOK
<1>6. \A e \in Ids : e <= last => /\ entry'[e].debit = entry[e].debit /\ entry'[e].credit = entry[e].credit
                                  /\ entry'[e].of = entry[e].of
                                  /\ entry'[e].status = IF e = x THEN "REVERSED" ELSE entry[e].status
  BY <1>1 DEF Ids
<1>7. \A e \in Ids : e <= last \/ e = last + 1 \/ e = last + 2 \/ (e > last + 2 /\ entry'[e] = entry[e])
  BY <1>1, <1>2 DEF Ids
<1> HIDE DEF x
<1>8. LedgerTypeOK'
  <2>1. \A e \in Ids : entry'[e].status = "NONE" <=> e > last + 2
    BY <1>1, <1>2, <1>3, <1>4, <1>5, <1>6, <1>7 DEF Ids
  <2>2. correction' \in [Correctors -> CorrectionState]
    BY DEF IInv, LedgerTypeOK, CommitReversal, NoCorrection, CorrectionState, NoEntry, Entry, Status
  <2> QED BY <1>1, <1>2, <2>1, <2>2 DEF LedgerTypeOK
<1>9. SessionInv'
  <2> SUFFICES ASSUME NEW q \in Correctors, correction'[q].pc # "idle"
               PROVE  /\ correction'[q].e \in 1 .. last'
                      /\ entry'[correction'[q].e].status \in {"POSTED", "REVERSED"}
                      /\ correction'[q].row.debit = entry'[correction'[q].e].debit
                      /\ correction'[q].row.credit = entry'[correction'[q].e].credit
    BY DEF SessionInv
  <2>1. q # r /\ correction'[q] = correction[q]
    BY DEF CommitReversal, NoCorrection, IInv, LedgerTypeOK
  <2>2. /\ correction[q].e \in 1 .. last
        /\ entry[correction[q].e].status \in {"POSTED", "REVERSED"}
        /\ correction[q].row.debit = entry[correction[q].e].debit
        /\ correction[q].row.credit = entry[correction[q].e].credit
    BY <2>1 DEF IInv, SessionInv
  <2>3. correction[q].e \in Ids /\ correction[q].e <= last
    BY <2>2, <1>1, <1>2 DEF Ids
  <2> QED BY <2>1, <2>2, <2>3, <1>1, <1>6
<1>10. TrailIsComplete'
  <2> SUFFICES ASSUME NEW e \in Ids, entry'[e].of # 0
               PROVE  /\ entry'[e].of < e
                      /\ entry'[e].status = "REVERSAL" =>
                           /\ entry'[entry'[e].of].status = "REVERSED"
                           /\ entry'[e].debit = entry'[entry'[e].of].credit
                           /\ entry'[e].credit = entry'[entry'[e].of].debit
                      /\ entry'[e].status \in {"POSTED", "REVERSED"} =>
                           entry'[entry'[e].of].status = "REVERSAL"
    BY DEF TrailIsComplete, Cancels
  <2>1. CASE e = last + 1
    BY <2>1, <1>1, <1>3, <1>4
  <2>2. CASE e = last + 2
    BY <2>2, <1>1, <1>3
  <2>3. CASE e <= last
    <3> DEFINE y == entry[e].of
    <3>1. y # 0 /\ entry'[e].of = y
      BY <2>3, <1>6
    <3>2. y \in Ids
      BY <3>1 DEF IInv, LedgerTypeOK, Entry
    <3>3. /\ y < e
          /\ entry[e].status = "REVERSAL" =>
               entry[y].status = "REVERSED" /\ entry[e].debit = entry[y].credit /\ entry[e].credit = entry[y].debit
          /\ entry[e].status \in {"POSTED", "REVERSED"} => entry[y].status = "REVERSAL"
      BY <3>1 DEF IInv, TrailIsComplete, Cancels
    <3>4. y <= last
      BY <3>2, <3>3, <2>3, <1>1 DEF Ids
    <3> HIDE DEF y
    <3>5. /\ entry'[y].debit = entry[y].debit /\ entry'[y].credit = entry[y].credit
          /\ entry'[y].status = IF y = x THEN "REVERSED" ELSE entry[y].status
      BY <3>2, <3>4, <1>6
    <3>6. /\ entry'[e].debit = entry[e].debit /\ entry'[e].credit = entry[e].credit
          /\ entry'[e].status = IF e = x THEN "REVERSED" ELSE entry[e].status
      BY <2>3, <1>6
    <3> QED BY <3>1, <3>3, <3>5, <3>6, <1>4
  <2>4. CASE e > last + 2 /\ entry'[e] = entry[e]
    <3>1. entry[e].of # 0 => entry[e].of < e
      BY DEF IInv, TrailIsComplete
    <3>2. entry[e].status = "NONE"
      BY <2>4, <1>1, <1>5 DEF Ids
    <3> QED BY <2>4, <3>1, <3>2
  <2> QED BY <2>1, <2>2, <2>3, <2>4, <1>7
<1>11. ReversedIsCancelled'
  <2> SUFFICES ASSUME NEW e \in Ids, entry'[e].status = "REVERSED"
               PROVE  \E z \in Ids : entry'[z].status = "REVERSAL" /\ entry'[z].of = e
    BY DEF ReversedIsCancelled
  <2>1. CASE e = x
    BY <2>1, <1>2, <1>3
  <2>2. CASE e # x
    <3>1. e <= last /\ entry[e].status = "REVERSED"
      BY <2>2, <1>1, <1>3, <1>5, <1>6, <1>7 DEF Ids
    <3>2. PICK z \in Ids : entry[z].status = "REVERSAL" /\ entry[z].of = e
      BY <3>1 DEF IInv, ReversedIsCancelled
    <3>3. z <= last /\ z # x
      BY <3>2, <1>1, <1>4, <1>5 DEF Ids
    <3> QED BY <3>2, <3>3, <1>6
  <2> QED BY <2>1, <2>2
<1>12. NamesItsEntry'
  <2> SUFFICES ASSUME NEW e \in Ids, entry'[e].status = "REVERSAL" PROVE entry'[e].of # 0
    BY DEF NamesItsEntry
  <2>1. \A z \in Ids : entry[z].status = "REVERSAL" => entry[z].of # 0
    BY DEF IInv, NamesItsEntry
  <2> QED BY <2>1, <1>1, <1>2, <1>3, <1>6, <1>7 DEF Ids
<1> QED BY <1>8, <1>9, <1>10, <1>11, <1>12 DEF IInv

LEMMA StepKeeps == IInv /\ [LedgerNext]_ledgerVars => IInv'
<1> SUFFICES ASSUME IInv, [LedgerNext]_ledgerVars PROVE IInv'
  OBVIOUS
<1>1. CASE UNCHANGED ledgerVars
  <2>1. correction' \in [Correctors -> CorrectionState] /\ SessionInv'
    BY <1>1 DEF ledgerVars, IInv, LedgerTypeOK, SessionInv
  <2> QED BY <1>1, <2>1, TableUnchanged DEF ledgerVars
<1>2. ASSUME NEW r \in Correctors,
             \/ \E e \in Ids, a \in Corrections : LoadEntry(r, e, a)
             \/ FlushReversal(r) \/ CommitReversal(r) \/ RollbackReversal(r)
      PROVE  IInv'
  BY <1>2, LoadKeeps, FlushKeeps, CommitKeeps, RollbackKeeps
<1> QED BY <1>1, <1>2 DEF LedgerNext

-----------------------------------------------------------------------------
\* The ledger's table and the sessions of reverse_and_correct_entry keep their
\* types, and rows stay numbered without a gap.
THEOREM LedgerTypeCorrect == LedgerSpec => []LedgerTypeOK
<1>1. IInv => LedgerTypeOK
  BY DEF IInv
<1> QED BY InitHolds, StepKeeps, <1>1, PTL DEF LedgerSpec

\* However many requests reverse the same entry at once, every reversal cancels
\* a REVERSED entry exactly and every corrected entry names a reversal.
THEOREM CorrectionTrailComplete == LedgerSpec => []TrailIsComplete
<1>1. IInv => TrailIsComplete
  BY DEF IInv
<1> QED BY InitHolds, StepKeeps, <1>1, PTL DEF LedgerSpec

\* No entry is withdrawn without a reversal of it.
THEOREM ReversedEntriesCancelled == LedgerSpec => []ReversedIsCancelled
<1>1. IInv => ReversedIsCancelled
  BY DEF IInv
<1> QED BY InitHolds, StepKeeps, <1>1, PTL DEF LedgerSpec

\* What one step does to the entries that are there.
LEMMA StepKeepsAmounts ==
    ASSUME IInv, [LedgerNext]_ledgerVars, NEW e \in Ids, entry[e].status # "NONE"
    PROVE  /\ entry'[e].debit = entry[e].debit /\ entry'[e].credit = entry[e].credit
           /\ entry'[e].of = entry[e].of
           /\ entry'[e].status # entry[e].status =>
                entry[e].status = "POSTED" /\ entry'[e].status = "REVERSED"
<1>1. CASE UNCHANGED entry
  BY <1>1
<1>2. ASSUME NEW r \in Correctors, CommitReversal(r)
      PROVE  /\ entry'[e].debit = entry[e].debit /\ entry'[e].credit = entry[e].credit
             /\ entry'[e].of = entry[e].of
             /\ entry'[e].status # entry[e].status =>
                  entry[e].status = "POSTED" /\ entry'[e].status = "REVERSED"
  <2>1. e <= last /\ last \in Nat
    BY LedgerAssumption DEF IInv, LedgerTypeOK, Ids
  <2>2. entry[correction[r].e].status \in {"POSTED", "REVERSED"}
    BY <1>2 DEF IInv, SessionInv, CommitReversal
  <2>3. e # last + 1 /\ e # last + 2
    BY <2>1 DEF Ids
  <2>4. /\ \A z \in Ids : z # correction[r].e /\ z # last + 1 /\ z # last + 2 => entry'[z] = entry[z]
        /\ entry'[correction[r].e].status = "REVERSED" /\ entry'[correction[r].e].of = entry[correction[r].e].of
        /\ entry'[correction[r].e].debit = entry[correction[r].e].debit
        /\ entry'[correction[r].e].credit = entry[correction[r].e].credit
    BY <1>2, CommitRows
  <2>5. CASE e = correction[r].e
    BY <2>2, <2>4, <2>5
  <2>6. CASE e # correction[r].e
    BY <2>3, <2>4, <2>6
  <2> QED BY <2>5, <2>6
<1>3. UNCHANGED entry \/ \E r \in Correctors : CommitReversal(r)
  BY DEF LedgerNext, ledgerVars, LoadEntry, FlushReversal, RollbackReversal
<1> QED BY <1>1, <1>2, <1>3

\* "Financial entries are never updated": no step of any request changes an
\* amount or a reference of an entry, or its status other than to REVERSED.
THEOREM EntriesAreImmutable == LedgerSpec => AmountsAreImmutable
<1>1. IInv /\ [LedgerNext]_ledgerVars => [\A e \in Ids : entry[e].status # "NONE" =>
          /\ entry'[e].debit = entry[e].debit /\ entry'[e].credit = entry[e].credit
          /\ entry'[e].of = entry[e].of
          /\ entry'[e].status # entry[e].status =>
               entry[e].status = "POSTED" /\ entry'[e].status = "REVERSED"]_ledgerVars
  BY StepKeepsAmounts
<1> QED BY InitHolds, StepKeeps, <1>1, PTL DEF LedgerSpec, AmountsAreImmutable

-----------------------------------------------------------------------------
(* Sums over the rows and roots of a trail, by induction on the numbers     *)

\* Induction up to a bound, over a set.
LEMMA UpTo ==
    ASSUME NEW N \in Nat, NEW S, 0 \in S, \A n \in 0 .. N : n # N /\ n \in S => n + 1 \in S
    PROVE  \A n \in 0 .. N : n \in S
<1> DEFINE R == OpToRel(<, Nat)
           T == {n \in 0 .. N : n \notin S}
<1> SUFFICES ASSUME T # {} PROVE FALSE
  OBVIOUS
<1>1. T \subseteq Nat
  OBVIOUS
<1>2. IsWellFoundedOn(R, Nat)
  BY NatLessThanWellFounded
<1> HIDE DEF R
<1>3. PICK y \in T : \A z \in T : ~(<<z, y>> \in R)
  <2> HIDE DEF T
  <2> QED BY <1>1, <1>2, WFMin
<1>4. \A z \in T : ~(z < y)
  BY <1>1, <1>3 DEF R, OpToRel
<1>5. y # 0 /\ y - 1 \in 0 .. N /\ y - 1 # N /\ y - 1 < y
  OBVIOUS
<1>6. y - 1 \in S
  BY <1>4, <1>5
<1>7. (y - 1) + 1 \in S /\ (y - 1) + 1 = y
  BY <1>5, <1>6
<1> QED BY <1>7

\* The sums of the first n of N numbers, as the recursive definitions give them.
Sums(f, N) == CHOOSE s : s = [n \in 0 .. N |-> IF n = 0 THEN 0 ELSE s[n - 1] + f[n]]

IsSum(s, f, N) == /\ s \in [0 .. N -> Int] /\ s[0] = 0
                  /\ \A n \in 1 .. N : s[n] = s[n - 1] + f[n]

\* They add number after number.
LEMMA PrefixSums ==
    ASSUME NEW N \in Nat, NEW f, \A n \in 1 .. N : f[n] \in Int
    PROVE  IsSum(Sums(f, N), f, N)
<1> DEFINE Body(s) == [n \in 0 .. N |-> IF n = 0 THEN 0 ELSE s[n - 1] + f[n]]
           Partial(n, s) == s \in [0 .. n -> Int] /\ \A k \in 0 .. n : s[k] = IF k = 0 THEN 0 ELSE s[k - 1] + f[k]
           S == {n \in 0 .. N : \E s : Partial(n, s)}
<1>1. N \in Nat
  OBVIOUS
<1>2. 0 \in S
  <2>1. Partial(0, [k \in 0 .. 0 |-> 0])
    OBVIOUS
  <2>2. 0 \in 0 .. N
    BY <1>1
  <2>3. \E s : Partial(0, s)
    BY <2>1
  <2> HIDE DEF Partial
  <2> QED BY <2>2, <2>3
<1>3. ASSUME NEW n \in 0 .. N, n # N, n \in S PROVE n + 1 \in S
  <2>1. PICK s : Partial(n, s)
    BY <1>3
  <2> DEFINE t == [k \in 0 .. n + 1 |-> IF k = n + 1 THEN s[n] + f[n + 1] ELSE s[k]]
  <2>2. n + 1 \in 1 .. N /\ n + 1 \in 0 .. N /\ n \in Nat
    BY <1>1, <1>3
  <2>3. s[n] \in Int /\ f[n + 1] \in Int
    BY <2>1, <2>2
  <2>4. \A k \in 0 .. n + 1 : t[k] = IF k = n + 1 THEN s[n] + f[n + 1] ELSE s[k]
    OBVIOUS
  <2>5. t \in [0 .. n + 1 -> Int]
    <3>1. \A k \in 0 .. n + 1 : (IF k = n + 1 THEN s[n] + f[n + 1] ELSE s[k]) \in Int
      BY <2>1, <2>2, <2>3
    <3> QED BY <3>1
  <2> HIDE DEF t
  <2>6. ASSUME NEW k \in 0 .. n + 1 PROVE t[k] = IF k = 0 THEN 0 ELSE t[k - 1] + f[k]
    <3>1. CASE k = n + 1
      BY <2>2, <2>4, <3>1
    <3>2. CASE k # n + 1
      <4>1. k \in 0 .. n /\ t[k] = s[k] /\ (k # 0 => t[k - 1] = s[k - 1])
        BY <2>2, <2>4, <3>2
      <4> QED BY <2>1, <4>1
    <3> QED BY <3>1, <3>2
  <2>7. Partial(n + 1, t)
    BY <2>5, <2>6
  <2> QED BY <2>2, <2>7
<1>4. N \in S
  <2> HIDE DEF S
  <2> QED BY <1>1, <1>2, <1>3, UpTo
<1>5. PICK s : Partial(N, s)
  BY <1>4
<1>6. s = Body(s)
  BY <1>5
<1> DEFINE c == CHOOSE z : z = Body(z)
<1>7. c = Body(c)
  BY <1>6
<1>8. Sums(f, N) = c
  BY DEF Sums
<1> HIDE DEF c
<1>9. /\ \A n \in 0 .. N : c[n] = IF n = 0 THEN 0 ELSE c[n - 1] + f[n]
      /\ DOMAIN c = 0 .. N /\ c = [n \in 0 .. N |-> c[n]]
  <2> DEFINE d == Body(c)
  <2>1. \A n \in 0 .. N : d[n] = IF n = 0 THEN 0 ELSE c[n - 1] + f[n]
    OBVIOUS
  <2>2. d = [n \in 0 .. N |-> d[n]] /\ DOMAIN d = 0 .. N
    OBVIOUS
  <2>3. c = d
    BY <1>7
  <2> HIDE DEF d
  <2> QED BY <2>1, <2>2, <2>3
<1>10. \A n \in 0 .. N : c[n] \in Int
  <2> DEFINE T == {n \in 0 .. N : c[n] \in Int}
  <2>1. 0 \in T
    <3>1. 0 \in 0 .. N
      BY <1>1
    <3>2. c[0] = 0
      BY <1>9, <3>1
    <3> QED BY <3>1, <3>2
  <2>2. ASSUME NEW n \in 0 .. N, n # N, n \in T PROVE n + 1 \in T
    <3>1. n + 1 \in 0 .. N /\ n + 1 \in 1 .. N /\ n + 1 # 0 /\ (n + 1) - 1 = n
      BY <1>1, <2>2
    <3>2. c[n + 1] = c[n] + f[n + 1]
      BY <1>9, <3>1
    <3> QED BY <2>2, <3>1, <3>2
  <2>3. \A n \in 0 .. N : n \in T
    <3> HIDE DEF T
    <3> QED BY <1>1, <2>1, <2>2, UpTo
  <2> QED BY <2>3
<1>11. IsSum(c, f, N)
  <2>1. \A n \in 1 .. N : n \in 0 .. N /\ n # 0
    BY <1>1
  <2>2. 0 \in 0 .. N
    BY <1>1
  <2> QED BY <1>9, <1>10, <2>1, <2>2 DEF IsSum
<1> QED BY <1>8, <1>11

LEMMA SumFacts ==
    ASSUME NEW f \in [Ids -> Int]
    PROVE  \E s : IsSum(s, f, MaxEntries) /\ SumOfRows(f) = s[MaxEntries]
<1>1. MaxEntries \in Nat /\ \A n \in 1 .. MaxEntries : f[n] \in Int
  BY LedgerAssumption DEF Ids
<1>2. IsSum(Sums(f, MaxEntries), f, MaxEntries)
  BY <1>1, PrefixSums
<1>3. SumOfRows(f) = Sums(f, MaxEntries)[MaxEntries]
  BY DEF SumOfRows, Sums
<1> QED BY <1>2, <1>3

\* A change at one row changes the total by as much.
LEMMA SumChanges ==
    ASSUME NEW f \in [Ids -> Int], NEW g \in [Ids -> Int], NEW k \in Ids,
           \A e \in Ids : e # k => g[e] = f[e]
    PROVE  SumOfRows(f) \in Int /\ SumOfRows(g) = SumOfRows(f) + (g[k] - f[k])
<1>1. PICK s : IsSum(s, f, MaxEntries) /\ SumOfRows(f) = s[MaxEntries]
  BY SumFacts
<1>2. PICK t : IsSum(t, g, MaxEntries) /\ SumOfRows(g) = t[MaxEntries]
  BY SumFacts
<1>3. MaxEntries \in Nat /\ k \in Nat /\ k >= 1 /\ k <= MaxEntries
  BY LedgerAssumption DEF Ids
<1> DEFINE d == g[k] - f[k]
           S == {n \in 0 .. MaxEntries : t[n] = s[n] + (IF n >= k THEN d ELSE 0)}
<1>4. d \in Int
  OBVIOUS
<1>5. 0 \in S
  BY <1>1, <1>2, <1>3 DEF IsSum, Ids
<1>6. ASSUME NEW n \in 0 .. MaxEntries, n # MaxEntries, n \in S PROVE n + 1 \in S
  <2>1. n + 1 \in Ids /\ n + 1 \in 0 .. MaxEntries /\ n \in Nat /\ (n + 1) - 1 = n
    BY <1>3, <1>6 DEF Ids
  <2>2. t[n + 1] = t[n] + g[n + 1] /\ s[n + 1] = s[n] + f[n + 1]
    BY <1>1, <1>2, <2>1 DEF IsSum, Ids
  <2>3. s[n] \in Int /\ f[n + 1] \in Int /\ g[n + 1] \in Int
    BY <1>1, <2>1 DEF IsSum, Ids
  <2>4. t[n] = s[n] + (IF n >= k THEN d ELSE 0)
    BY <1>6
  <2>5. CASE n + 1 = k
    BY <1>3, <2>1, <2>2, <2>3, <2>4, <2>5
  <2>6. CASE n + 1 # k
    <3>1. g[n + 1] = f[n + 1] /\ (n + 1 >= k <=> n >= k)
      BY <1>3, <2>1, <2>6
    <3> HIDE DEF d
    <3>2. t[n + 1] = s[n + 1] + (IF n + 1 >= k THEN d ELSE 0)
      BY <1>4, <2>2, <2>3, <2>4, <3>1
    <3> QED BY <2>1, <3>2
  <2> QED BY <2>5, <2>6
<1>7. MaxEntries \in S
  <2> HIDE DEF S
  <2> QED BY <1>3, <1>5, <1>6, UpTo
<1>8. t[MaxEntries] = s[MaxEntries] + d
  BY <1>3, <1>7
<1>9. s[MaxEntries] \in Int
  BY <1>1, <1>3 DEF IsSum, Ids
<1> QED BY <1>1, <1>2, <1>8, <1>9

\* Only one row counts.
LEMMA SumOfOne ==
    ASSUME NEW f \in [Ids -> Int], NEW k \in Ids, \A e \in Ids : e # k => f[e] = 0
    PROVE  SumOfRows(f) = f[k]
<1> DEFINE z == [e \in Ids |-> 0]
<1>1. PICK s : IsSum(s, z, MaxEntries) /\ SumOfRows(z) = s[MaxEntries]
  BY SumFacts
<1>2. MaxEntries \in Nat
  BY LedgerAssumption
<1> DEFINE S == {n \in 0 .. MaxEntries : s[n] = 0}
<1>3. 0 \in S
  BY <1>1, <1>2 DEF IsSum, Ids
<1>4. ASSUME NEW n \in 0 .. MaxEntries, n # MaxEntries, n \in S PROVE n + 1 \in S
  <2>1. n + 1 \in Ids /\ n + 1 \in 0 .. MaxEntries /\ (n + 1) - 1 = n
    BY <1>2, <1>4 DEF Ids
  <2>2. s[n + 1] = s[n] + z[n + 1]
    BY <1>1, <2>1 DEF IsSum, Ids
  <2> QED BY <1>4, <2>1, <2>2
<1>5. MaxEntries \in S
  <2> HIDE DEF S
  <2> QED BY <1>2, <1>3, <1>4, UpTo
<1>6. SumOfRows(z) = 0
  BY <1>1, <1>5
<1>7. z \in [Ids -> Int] /\ (\A e \in Ids : z[e] = 0) /\ \A e \in Ids : e # k => f[e] = z[e]
  OBVIOUS
<1> HIDE DEF z
<1>8. SumOfRows(f) = SumOfRows(z) + (f[k] - z[k])
  BY <1>7, SumChanges
<1> QED BY <1>6, <1>7, <1>8

GoesBack(of) == of \in [Ids -> Nat] /\ \A e \in Ids : of[e] # 0 => of[e] \in Ids /\ of[e] < e

\* Each entry goes back to where the one it corrects goes back to.
LEMMA RootFacts ==
    ASSUME NEW of, GoesBack(of)
    PROVE  /\ Root(of) \in [Ids -> Ids]
           /\ \A e \in Ids : Root(of)[e] = IF of[e] = 0 THEN e ELSE Root(of)[of[e]]
<1> DEFINE Body(s) == [e \in Ids |-> IF of[e] = 0 THEN e ELSE s[of[e]]]
           Partial(n, s) == s \in [1 .. n -> Ids] /\ \A e \in 1 .. n : s[e] = IF of[e] = 0 THEN e ELSE s[of[e]]
           S == {n \in 0 .. MaxEntries : \E s : Partial(n, s)}
<1>1. MaxEntries \in Nat
  BY LedgerAssumption
<1>2. 0 \in S
  <2>1. Partial(0, [e \in 1 .. 0 |-> 0])
    OBVIOUS
  <2>2. 0 \in 0 .. MaxEntries
    BY <1>1
  <2>3. \E s : Partial(0, s)
    BY <2>1
  <2> HIDE DEF Partial
  <2> QED BY <2>2, <2>3
<1>3. ASSUME NEW n \in 0 .. MaxEntries, n # MaxEntries, n \in S PROVE n + 1 \in S
  <2>1. PICK s : Partial(n, s)
    BY <1>3
  <2> DEFINE v == IF of[n + 1] = 0 THEN n + 1 ELSE s[of[n + 1]]
             t == [e \in 1 .. n + 1 |-> IF e = n + 1 THEN v ELSE s[e]]
  <2>2. n + 1 \in Ids /\ n + 1 \in 0 .. MaxEntries /\ n \in Nat /\ \A e \in 1 .. n + 1 : e \in Ids
    BY <1>1, <1>3 DEF Ids
  <2>3. \A e \in 1 .. n + 1 : of[e] # 0 => of[e] \in 1 .. n /\ of[e] < e
    BY <2>2 DEF GoesBack, Ids
  <2>4. n + 1 \in 1 .. n + 1
    BY <2>2
  <2>5. v \in Ids
    BY <2>1, <2>2, <2>3, <2>4
  <2>6. \A e \in 1 .. n + 1 : t[e] = IF e = n + 1 THEN v ELSE s[e]
    OBVIOUS
  <2>7. \A e \in 1 .. n + 1 : e # n + 1 => e \in 1 .. n
    BY <2>2
  <2>8. t \in [1 .. n + 1 -> Ids]
    <3> HIDE DEF v
    <3>1. \A e \in 1 .. n + 1 : (IF e = n + 1 THEN v ELSE s[e]) \in Ids
      BY <2>1, <2>5, <2>7
    <3> QED BY <3>1
  <2> HIDE DEF t
  <2>9. ASSUME NEW e \in 1 .. n + 1 PROVE t[e] = IF of[e] = 0 THEN e ELSE t[of[e]]
    <3>1. of[e] # 0 => of[e] \in 1 .. n + 1 /\ of[e] # n + 1 /\ t[of[e]] = s[of[e]]
      <4>1. of[e] # 0 => of[e] \in 1 .. n + 1 /\ of[e] # n + 1
        BY <2>2, <2>3
      <4> QED BY <2>6, <4>1
    <3>2. CASE e = n + 1
      BY <2>6, <3>1, <3>2
    <3>3. CASE e # n + 1
      BY <2>1, <2>6, <2>7, <3>1, <3>3
    <3> QED BY <3>2, <3>3
  <2>10. Partial(n + 1, t)
    BY <2>8, <2>9
  <2>11. \E z : Partial(n + 1, z)
    BY <2>10
  <2> HIDE DEF Partial
  <2> QED BY <2>2, <2>11
<1>4. MaxEntries \in S
  <2> HIDE DEF S
  <2> QED BY <1>1, <1>2, <1>3, UpTo
<1>5. PICK s : Partial(MaxEntries, s)
  BY <1>4
<1>6. s = Body(s)
  BY <1>5 DEF Ids
<1> DEFINE c == CHOOSE z : z = Body(z)
<1>7. c = Body(c)
  BY <1>6
<1>8. Root(of) = c
  BY DEF Root
<1> HIDE DEF c
<1>9. (\A e \in Ids : c[e] = IF of[e] = 0 THEN e ELSE c[of[e]]) /\ c = [e \in Ids |-> c[e]]
  <2> DEFINE d == Body(c)
  <2>1. \A e \in Ids : d[e] = IF of[e] = 0 THEN e ELSE c[of[e]]
    OBVIOUS
  <2>2. d = [e \in Ids |-> d[e]]
    OBVIOUS
  <2>3. c = d
    BY <1>7
  <2> HIDE DEF d
  <2> QED BY <2>1, <2>2, <2>3
<1>10. \A e \in Ids : c[e] \in Ids
  <2> DEFINE T == {n \in 0 .. MaxEntries : \A e \in 1 .. n : c[e] \in Ids}
  <2>1. 0 \in T
    BY <1>1
  <2>2. ASSUME NEW n \in 0 .. MaxEntries, n # MaxEntries, n \in T PROVE n + 1 \in T
    <3>1. n + 1 \in Ids /\ n + 1 \in 0 .. MaxEntries /\ n \in Nat
      BY <1>1, <2>2 DEF Ids
    <3>2. of[n + 1] # 0 => of[n + 1] \in 1 .. n
      BY <3>1 DEF GoesBack, Ids
    <3>3. c[n + 1] \in Ids
      BY <1>9, <2>2, <3>1, <3>2
    <3>4. \A e \in 1 .. n + 1 : e \in 1 .. n \/ e = n + 1
      BY <3>1
    <3> QED BY <2>2, <3>1, <3>3, <3>4
  <2>3. MaxEntries \in T
    <3> HIDE DEF T
    <3> QED BY <1>1, <2>1, <2>2, UpTo
  <2> QED BY <2>3 DEF Ids
<1> QED BY <1>8, <1>9, <1>10

\* The roots of the first rows depend on these alone.
LEMMA RootsAgree ==
    ASSUME NEW of, NEW by, GoesBack(of), GoesBack(by), NEW N \in 0 .. MaxEntries,
           \A e \in 1 .. N : of[e] = by[e]
    PROVE  \A e \in 1 .. N : Root(of)[e] = Root(by)[e]
<1> DEFINE S == {n \in 0 .. N : \A e \in 1 .. n : Root(of)[e] = Root(by)[e]}
<1>1. MaxEntries \in Nat /\ N \in Nat
  BY LedgerAssumption
<1>2. /\ \A e \in Ids : Root(of)[e] = IF of[e] = 0 THEN e ELSE Root(of)[of[e]]
      /\ \A e \in Ids : Root(by)[e] = IF by[e] = 0 THEN e ELSE Root(by)[by[e]]
  BY RootFacts
<1>3. 0 \in S
  BY <1>1
<1>4. ASSUME NEW n \in 0 .. N, n # N, n \in S PROVE n + 1 \in S
  <2>1. n + 1 \in Ids /\ n + 1 \in 0 .. N /\ n + 1 \in 1 .. N /\ n \in Nat
    BY <1>1, <1>4 DEF Ids
  <2>2. of[n + 1] = by[n + 1] /\ (of[n + 1] # 0 => of[n + 1] \in 1 .. n)
    BY <2>1 DEF GoesBack, Ids
  <2>3. Root(of)[n + 1] = Root(by)[n + 1]
    BY <1>2, <1>4, <2>1, <2>2
  <2>4. \A e \in 1 .. n + 1 : e \in 1 .. n \/ e = n + 1
    BY <2>1
  <2> QED BY <1>4, <2>1, <2>3, <2>4
<1>5. N \in S
  <2> HIDE DEF S
  <2> QED BY <1>1, <1>3, <1>4, UpTo
<1> QED BY <1>5

-----------------------------------------------------------------------------
(* What a correction does to the trails, from one table to the next          *)

RootIn(t, e) == Root([x \in Ids |-> t[x].of])[e]
TrailIn(t, p) == {e \in Ids : t[e].status # "NONE" /\ RootIn(t, e) = p}
AmountIn(t, e) == t[e].debit - t[e].credit
NetIn(t, S) == SumOfRows([e \in Ids |-> IF e \in S THEN t[e].debit - t[e].credit ELSE 0])
ReversalsIn(t, e) == {x \in Ids : t[x].status = "REVERSAL" /\ t[x].of = e}
TwiceIn(t) == {e \in Ids : Cardinality(ReversalsIn(t, e)) > 1}
ContestedIn(t) == {RootIn(t, e) : e \in TwiceIn(t)}

\* A table of L rows that go back, and whose reversals name reversed entries.
SoundTable(t, L) ==
    /\ t \in [Ids -> Entry] /\ L \in Nat /\ L <= MaxEntries
    /\ \A e \in Ids : t[e].status = "NONE" <=> e > L
    /\ GoesBack([x \in Ids |-> t[x].of])
    /\ \A e \in Ids : t[e].status = "REVERSAL" => t[e].of \in Ids /\ t[t[e].of].status = "REVERSED"

\* CommitReversal: x is reversed, two rows follow.
Corrects(t, u, L, x) ==
    /\ SoundTable(t, L) /\ SoundTable(u, L + 2) /\ x \in 1 .. L
    /\ t[x].status \in {"POSTED", "REVERSED"}
    /\ \A e \in 1 .. L : /\ u[e].debit = t[e].debit /\ u[e].credit = t[e].credit /\ u[e].of = t[e].of
                         /\ u[e].status = IF e = x THEN "REVERSED" ELSE t[e].status
    /\ u[L + 1].status = "REVERSAL" /\ u[L + 1].of = x /\ AmountIn(u, L + 1) = 0 - AmountIn(t, x)
    /\ u[L + 2].status = "POSTED" /\ u[L + 2].of = L + 1

LEMMA IdRanges ==
    ASSUME NEW t, NEW u, NEW L, NEW x, Corrects(t, u, L, x)
    PROVE  /\ L \in Nat /\ MaxEntries \in Nat /\ L + 2 <= MaxEntries
           /\ x \in Ids /\ L + 1 \in Ids /\ L + 2 \in Ids
           /\ \A e \in 1 .. L : e \in Ids /\ e # L + 1 /\ e # L + 2
           /\ \A e \in Ids : e \in 1 .. L \/ e = L + 1 \/ e = L + 2 \/ e > L + 2
           /\ \A e \in Ids : t[e].status # "NONE" <=> e \in 1 .. L
           /\ \A e \in Ids : e > L + 2 => t[e].status = "NONE" /\ u[e].status = "NONE"
<1>1. /\ L \in Nat /\ MaxEntries \in Nat /\ L + 2 <= MaxEntries /\ x \in 1 .. L
      /\ \A e \in Ids : t[e].status = "NONE" <=> e > L
      /\ \A e \in Ids : u[e].status = "NONE" <=> e > L + 2
  BY LedgerAssumption DEF Corrects, SoundTable
<1> QED BY <1>1 DEF Ids

LEMMA CorrectRoots ==
    ASSUME NEW t, NEW u, NEW L, NEW x, Corrects(t, u, L, x)
    PROVE  /\ \A e \in 1 .. L : RootIn(u, e) = RootIn(t, e)
           /\ RootIn(u, L + 1) = RootIn(t, x) /\ RootIn(u, L + 2) = RootIn(t, x)
<1> DEFINE f == [y \in Ids |-> t[y].of]
           g == [y \in Ids |-> u[y].of]
<1>1. GoesBack(f) /\ GoesBack(g) /\ x \in 1 .. L
  BY DEF Corrects, SoundTable
<1>2. /\ L \in Nat /\ L \in 0 .. MaxEntries /\ L + 1 \in Ids /\ L + 2 \in Ids /\ \A e \in 1 .. L : e \in Ids
  BY IdRanges
<1>3. \A e \in 1 .. L : f[e] = g[e]
  BY <1>2 DEF Corrects
<1>4. g[L + 1] = x /\ g[L + 2] = L + 1 /\ x # 0 /\ L + 1 # 0
  BY <1>2 DEF Corrects
<1> HIDE DEF f, g
<1>5. \A e \in 1 .. L : Root(f)[e] = Root(g)[e]
  BY <1>1, <1>2, <1>3, RootsAgree
<1>6. \A e \in Ids : Root(g)[e] = IF g[e] = 0 THEN e ELSE Root(g)[g[e]]
  BY <1>1, RootFacts
<1>7. Root(g)[L + 1] = Root(g)[x] /\ Root(g)[L + 2] = Root(g)[L + 1]
  BY <1>2, <1>4, <1>6
<1>8. Root(g)[x] = Root(f)[x]
  BY <1>1, <1>5
<1> QED BY <1>5, <1>7, <1>8 DEF RootIn, f, g

LEMMA CorrectTrails ==
    ASSUME NEW t, NEW u, NEW L, NEW x, Corrects(t, u, L, x), NEW q
    PROVE  /\ TrailIn(t, q) \subseteq 1 .. L
           /\ q # RootIn(t, x) => TrailIn(u, q) = TrailIn(t, q)
           /\ q = RootIn(t, x) => TrailIn(u, q) = TrailIn(t, q) \cup {L + 1, L + 2}
<1>1. /\ x \in Ids /\ L + 1 \in Ids /\ L + 2 \in Ids
      /\ \A e \in 1 .. L : e \in Ids /\ e # L + 1 /\ e # L + 2
      /\ \A e \in Ids : e \in 1 .. L \/ e = L + 1 \/ e = L + 2 \/ e > L + 2
      /\ \A e \in Ids : t[e].status # "NONE" <=> e \in 1 .. L
      /\ \A e \in Ids : e > L + 2 => t[e].status = "NONE" /\ u[e].status = "NONE"
  BY IdRanges
<1>2. /\ \A e \in 1 .. L : RootIn(u, e) = RootIn(t, e)
      /\ RootIn(u, L + 1) = RootIn(t, x) /\ RootIn(u, L + 2) = RootIn(t, x)
  BY CorrectRoots
<1>3. \A e \in 1 .. L : u[e].status # "NONE"
  BY <1>1 DEF Corrects
<1>4. u[L + 1].status # "NONE" /\ u[L + 2].status # "NONE"
  BY DEF Corrects
<1>5. TrailIn(t, q) \subseteq 1 .. L
  BY <1>1 DEF TrailIn
<1>6. \A e \in Ids : e \in TrailIn(t, q) <=> e \in 1 .. L /\ RootIn(t, e) = q
  BY <1>1 DEF TrailIn
<1>7. \A e \in Ids : e \in TrailIn(u, q) <=>
         (e \in 1 .. L /\ RootIn(t, e) = q) \/ ((e = L + 1 \/ e = L + 2) /\ q = RootIn(t, x))
  BY <1>1, <1>2, <1>3, <1>4 DEF TrailIn
<1>8. TrailIn(t, q) \subseteq Ids /\ TrailIn(u, q) \subseteq Ids
  BY DEF TrailIn
<1>9. q # RootIn(t, x) => TrailIn(u, q) = TrailIn(t, q)
  BY <1>6, <1>7, <1>8
<1>10. q = RootIn(t, x) => TrailIn(u, q) = TrailIn(t, q) \cup {L + 1, L + 2}
  BY <1>1, <1>6, <1>7, <1>8
<1> QED BY <1>5, <1>9, <1>10

\* The balance of the posting changes by the correction, no other balance at all.
LEMMA CorrectNets ==
    ASSUME NEW t, NEW u, NEW L, NEW x, Corrects(t, u, L, x), NEW q
    PROVE  /\ NetIn(t, TrailIn(t, q)) \in Int
           /\ q # RootIn(t, x) => NetIn(u, TrailIn(u, q)) = NetIn(t, TrailIn(t, q))
           /\ q = RootIn(t, x) => NetIn(u, TrailIn(u, q)) =
                (NetIn(t, TrailIn(t, q)) - AmountIn(t, x)) + AmountIn(u, L + 2)
<1> DEFINE S == TrailIn(t, q)
           T == TrailIn(u, q)
           f == [e \in Ids |-> IF e \in S THEN t[e].debit - t[e].credit ELSE 0]
           g == [e \in Ids |-> IF e \in S THEN u[e].debit - u[e].credit ELSE 0]
           h == [e \in Ids |-> IF e \in T THEN u[e].debit - u[e].credit ELSE 0]
<1>1. \A e \in Ids : /\ t[e].debit \in Nat /\ t[e].credit \in Nat
                     /\ u[e].debit \in Nat /\ u[e].credit \in Nat
  BY DEF Corrects, SoundTable, Entry
<1>2. f \in [Ids -> Int] /\ h \in [Ids -> Int] /\ g \in [Ids -> Int]
  <2>1. \A e \in Ids : /\ t[e].debit - t[e].credit \in Int
                       /\ u[e].debit - u[e].credit \in Int
    BY <1>1
  <2> HIDE DEF S, T
  <2> QED BY <2>1
<1>3. L + 1 \in Ids /\ L + 2 \in Ids /\ L + 1 # L + 2 /\ x \in Ids /\ \A e \in 1 .. L : e # L + 1 /\ e # L + 2
  BY IdRanges
<1>4. /\ S \subseteq 1 .. L
      /\ q # RootIn(t, x) => T = S
      /\ q = RootIn(t, x) => T = S \cup {L + 1, L + 2}
  BY CorrectTrails
<1>5. f = g
  <2>1. \A e \in S : u[e].debit = t[e].debit /\ u[e].credit = t[e].credit
    BY <1>4 DEF Corrects
  <2> HIDE DEF S
  <2> QED BY <2>1
<1>6. NetIn(t, S) = SumOfRows(f) /\ NetIn(u, T) = SumOfRows(h)
  BY DEF NetIn
<1>7. SumOfRows(f) \in Int
  <2>1. \A e \in Ids : e # x => f[e] = f[e]
    OBVIOUS
  <2> HIDE DEF f
  <2> QED BY <1>2, <1>3, <2>1, SumChanges
<1>8. ASSUME q # RootIn(t, x) PROVE SumOfRows(h) = SumOfRows(f)
  <2>1. h = g
    BY <1>4, <1>8
  <2> HIDE DEF f, g, h
  <2> QED BY <1>5, <2>1
<1>9. ASSUME q = RootIn(t, x) PROVE SumOfRows(h) = (SumOfRows(f) - AmountIn(t, x)) + AmountIn(u, L + 2)
  <2> DEFINE m == [e \in Ids |-> IF e = L + 1 THEN u[e].debit - u[e].credit ELSE f[e]]
  <2>1. f[L + 1] = 0 /\ f[L + 2] = 0
    <3>1. L + 1 \notin S /\ L + 2 \notin S
      BY <1>3, <1>4
    <3> HIDE DEF S
    <3> QED BY <1>3, <3>1
  <2>2. \A e \in Ids : e # L + 1 /\ e # L + 2 => h[e] = f[e]
    <3>1. \A e \in Ids : e # L + 1 /\ e # L + 2 => h[e] = g[e]
      <4>1. T = S \cup {L + 1, L + 2}
        BY <1>4, <1>9
      <4> HIDE DEF S, T
      <4> QED BY <4>1
    <3> HIDE DEF f, g, h
    <3> QED BY <1>5, <3>1
  <2>3. h[L + 1] = AmountIn(u, L + 1) /\ h[L + 2] = AmountIn(u, L + 2)
    <3>1. L + 1 \in T /\ L + 2 \in T
      BY <1>4, <1>9
    <3> HIDE DEF T
    <3> QED BY <1>3, <3>1 DEF AmountIn
  <2>4. m[L + 1] = AmountIn(u, L + 1) /\ \A e \in Ids : e # L + 1 => m[e] = f[e]
    <3> HIDE DEF f
    <3> QED BY <1>3 DEF AmountIn
  <2>5. AmountIn(u, L + 1) \in Int /\ AmountIn(u, L + 2) \in Int /\ AmountIn(t, x) \in Int
    BY <1>1, <1>3 DEF AmountIn
  <2>6. m \in [Ids -> Int]
    <3>1. \A e \in Ids : u[e].debit - u[e].credit \in Int
      BY <1>1
    <3> HIDE DEF f
    <3> QED BY <1>2, <3>1
  <2> HIDE DEF f, g, h, m
  <2>7. SumOfRows(m) = SumOfRows(f) + (AmountIn(u, L + 1) - 0)
    BY <1>2, <1>3, <2>1, <2>4, <2>6, SumChanges
  <2>8. \A e \in Ids : e # L + 2 => h[e] = m[e]
    BY <2>2, <2>3, <2>4
  <2>9. m[L + 2] = 0
    BY <1>3, <2>1, <2>4
  <2>10. SumOfRows(h) = SumOfRows(m) + (AmountIn(u, L + 2) - 0)
    BY <1>2, <1>3, <2>3, <2>6, <2>8, <2>9, SumChanges
  <2>11. AmountIn(u, L + 1) = 0 - AmountIn(t, x)
    BY DEF Corrects
  <2> QED BY <1>7, <2>5, <2>7, <2>10, <2>11
<1> HIDE DEF f, g, h
<1> QED BY <1>6, <1>7, <1>8, <1>9

\* A posting becomes contested only when an entry is reversed that already was.
LEMMA CorrectContested ==
    ASSUME NEW t, NEW u, NEW L, NEW x, Corrects(t, u, L, x),
           t[x].status = "REVERSED" => ReversalsIn(t, x) # {}
    PROVE  /\ t[x].status = "POSTED" => ContestedIn(u) = ContestedIn(t)
           /\ t[x].status = "REVERSED" => ContestedIn(u) = ContestedIn(t) \cup {RootIn(t, x)}
<1>1. /\ MaxEntries \in Nat /\ x \in Ids /\ L + 1 \in Ids /\ L + 2 \in Ids /\ x \in 1 .. L
      /\ \A e \in 1 .. L : e \in Ids /\ e # L + 1 /\ e # L + 2
      /\ \A e \in Ids : e \in 1 .. L \/ e = L + 1 \/ e = L + 2 \/ e > L + 2
      /\ \A e \in Ids : t[e].status # "NONE" <=> e \in 1 .. L
      /\ \A e \in Ids : e > L + 2 => t[e].status = "NONE" /\ u[e].status = "NONE"
  BY IdRanges DEF Corrects
<1>2. \A e \in Ids : e # L + 1 => (u[e].status = "REVERSAL" <=> t[e].status = "REVERSAL")
                                   /\ (t[e].status = "REVERSAL" => u[e].of = t[e].of)
  <2> SUFFICES ASSUME NEW e \in Ids, e # L + 1
               PROVE  (u[e].status = "REVERSAL" <=> t[e].status = "REVERSAL")
                      /\ (t[e].status = "REVERSAL" => u[e].of = t[e].of)
    OBVIOUS
  <2>1. CASE e \in 1 .. L
    BY <2>1 DEF Corrects
  <2>2. CASE e = L + 2
    <3>1. e \notin 1 .. L
      BY <1>1, <2>2
    <3> QED BY <1>1, <2>2, <3>1 DEF Corrects
  <2>3. CASE e > L + 2
    BY <1>1, <2>3
  <2> QED BY <1>1, <2>1, <2>2, <2>3
<1>3. L + 1 \notin 1 .. L /\ t[L + 1].status = "NONE"
  BY <1>1
<1>4. u[L + 1].status = "REVERSAL" /\ u[L + 1].of = x
  BY DEF Corrects
<1>5. \A e \in Ids : e # x => ReversalsIn(u, e) = ReversalsIn(t, e)
  BY <1>2, <1>3, <1>4 DEF ReversalsIn
<1>6. ReversalsIn(u, x) = ReversalsIn(t, x) \cup {L + 1}
  BY <1>1, <1>2, <1>3, <1>4 DEF ReversalsIn
<1>7. \A e \in Ids : ReversalsIn(t, e) # {} => e \in 1 .. L /\ t[e].status = "REVERSED"
  <2>1. \A z \in Ids : t[z].status = "REVERSAL" => t[t[z].of].status = "REVERSED"
    BY DEF Corrects, SoundTable
  <2>2. \A e \in Ids : ReversalsIn(t, e) # {} => t[e].status = "REVERSED"
    BY <2>1 DEF ReversalsIn
  <2>3. \A e \in Ids : t[e].status = "REVERSED" => e \in 1 .. L
    BY <1>1
  <2> QED BY <2>2, <2>3
<1>8. \A e \in Ids : IsFiniteSet(ReversalsIn(t, e)) /\ IsFiniteSet(ReversalsIn(u, e))
  <2>1. IsFiniteSet(Ids)
    <3>1. 1 \in Int /\ MaxEntries \in Int
      BY <1>1
    <3>2. IsFiniteSet(1 .. MaxEntries)
      BY <3>1, FS_Interval
    <3> QED BY <3>2 DEF Ids
  <2>2. \A e \in Ids : ReversalsIn(t, e) \subseteq Ids /\ ReversalsIn(u, e) \subseteq Ids
    BY DEF ReversalsIn
  <2> QED BY <2>1, <2>2, FS_Subset
<1>9. \A e \in TwiceIn(t) : e \in Ids /\ e \in 1 .. L /\ t[e].status = "REVERSED"
  <2> SUFFICES ASSUME NEW e \in TwiceIn(t) PROVE e \in Ids /\ ReversalsIn(t, e) # {}
    BY <1>7
  <2>1. e \in Ids /\ Cardinality(ReversalsIn(t, e)) > 1
    BY DEF TwiceIn
  <2>2. Cardinality({}) = 0
    BY FS_EmptySet
  <2> QED BY <2>1, <2>2
<1>10. \A e \in 1 .. L : RootIn(u, e) = RootIn(t, e)
  BY CorrectRoots
<1>11. CASE t[x].status = "POSTED"
  <2>1. ReversalsIn(t, x) = {}
    BY <1>1, <1>7, <1>11
  <2>2. ReversalsIn(u, x) = {L + 1}
    BY <1>6, <2>1
  <2>3. Cardinality(ReversalsIn(u, x)) = 1
    BY <2>2, FS_Singleton
  <2>4. x \notin TwiceIn(u) /\ x \notin TwiceIn(t)
    <3>1. x \notin TwiceIn(t)
      BY <1>9, <1>11
    <3> QED BY <2>3, <3>1 DEF TwiceIn
  <2>5. TwiceIn(u) = TwiceIn(t)
    BY <1>5, <2>4 DEF TwiceIn
  <2>6. ContestedIn(u) = ContestedIn(t)
    BY <1>9, <1>10, <2>5 DEF ContestedIn
  <2> QED BY <1>11, <2>6
<1>12. CASE t[x].status = "REVERSED"
  <2>1. PICK z \in ReversalsIn(t, x) : TRUE
    BY <1>12
  <2>2. z # L + 1 /\ z \in ReversalsIn(u, x) /\ L + 1 \in ReversalsIn(u, x)
    BY <1>3, <1>6, <2>1 DEF ReversalsIn
  <2>3. Cardinality(ReversalsIn(u, x)) > 1
    <3>1. {z, L + 1} \subseteq ReversalsIn(u, x) /\ IsFiniteSet(ReversalsIn(u, x))
      BY <1>1, <1>8, <2>2
    <3>2. IsFiniteSet({z}) /\ Cardinality({z}) = 1
      BY FS_Singleton
    <3>3. Cardinality({z} \cup {L + 1}) = 2
      BY <2>2, <3>2, FS_AddElement
    <3>4. {z} \cup {L + 1} = {z, L + 1}
      OBVIOUS
    <3>5. Cardinality({z, L + 1}) = 2
      BY <3>3, <3>4
    <3>6. Cardinality({z, L + 1}) <= Cardinality(ReversalsIn(u, x)) /\ Cardinality(ReversalsIn(u, x)) \in Nat
      BY <3>1, FS_Subset, FS_CardinalityType
    <3> QED BY <3>5, <3>6
  <2>4. x \in TwiceIn(u)
    BY <1>1, <2>3 DEF TwiceIn
  <2>5. TwiceIn(u) = TwiceIn(t) \cup {x}
    BY <1>1, <1>5, <2>4 DEF TwiceIn
  <2>6. ContestedIn(u) = ContestedIn(t) \cup {RootIn(t, x)}
    BY <1>1, <1>9, <1>10, <2>5 DEF ContestedIn
  <2> QED BY <1>12, <2>6
<1> QED BY <1>11, <1>12 DEF Corrects

\* One entry of the trail is in force, and the trail adds up to it.
BalanceIn(t, p) ==
    \E e \in TrailIn(t, p) :
        /\ {x \in TrailIn(t, p) : t[x].status = "POSTED"} = {e}
        /\ NetIn(t, TrailIn(t, p)) = NetIn(t, {e})

LEMMA NetOfOne ==
    ASSUME NEW t \in [Ids -> Entry], NEW e \in Ids PROVE NetIn(t, {e}) = AmountIn(t, e)
<1> DEFINE f == [x \in Ids |-> IF x \in {e} THEN t[x].debit - t[x].credit ELSE 0]
<1>1. \A x \in Ids : t[x].debit \in Nat /\ t[x].credit \in Nat
  BY DEF Entry
<1>2. f \in [Ids -> Int] /\ f[e] = AmountIn(t, e) /\ \A x \in Ids : x # e => f[x] = 0
  BY <1>1 DEF AmountIn
<1>3. NetIn(t, {e}) = SumOfRows(f)
  BY DEF NetIn
<1> HIDE DEF f
<1> QED BY <1>2, <1>3, SumOfOne

\* A correction leaves the balance of every uncontested posting in force.
LEMMA CorrectBalance ==
    ASSUME NEW t, NEW u, NEW L, NEW x, Corrects(t, u, L, x),
           t[x].status = "REVERSED" => ReversalsIn(t, x) # {},
           NEW p, p \notin ContestedIn(u), p \notin ContestedIn(t) => BalanceIn(t, p)
    PROVE  /\ BalanceIn(u, p)
           /\ p = RootIn(t, x) => NetIn(u, TrailIn(u, p)) = AmountIn(u, L + 2)
<1>1. /\ x \in Ids /\ L + 1 \in Ids /\ L + 2 \in Ids /\ x \in 1 .. L
      /\ \A e \in 1 .. L : e \in Ids /\ e # L + 1 /\ e # L + 2
      /\ \A e \in Ids : t[e].status # "NONE" <=> e \in 1 .. L
  BY IdRanges DEF Corrects
<1>2. /\ t[x].status = "POSTED" => ContestedIn(u) = ContestedIn(t)
      /\ t[x].status = "REVERSED" => ContestedIn(u) = ContestedIn(t) \cup {RootIn(t, x)}
      /\ t[x].status \in {"POSTED", "REVERSED"}
  <2>1. t[x].status \in {"POSTED", "REVERSED"}
    BY DEF Corrects
  <2>2. /\ t[x].status = "POSTED" => ContestedIn(u) = ContestedIn(t)
        /\ t[x].status = "REVERSED" => ContestedIn(u) = ContestedIn(t) \cup {RootIn(t, x)}
    BY CorrectContested
  <2> QED BY <2>1, <2>2
<1>3. p \notin ContestedIn(t)
  <2>1. CASE t[x].status = "POSTED"
    BY <1>2, <2>1
  <2>2. CASE t[x].status = "REVERSED"
    <3>1. ContestedIn(u) = ContestedIn(t) \cup {RootIn(t, x)}
      BY <1>2, <2>2
    <3> HIDE DEF ContestedIn
    <3> QED BY <3>1
  <2> QED BY <1>2, <2>1, <2>2
<1>4. PICK e \in TrailIn(t, p) : /\ {z \in TrailIn(t, p) : t[z].status = "POSTED"} = {e}
                                 /\ NetIn(t, TrailIn(t, p)) = NetIn(t, {e})
  BY <1>3 DEF BalanceIn
<1>5. /\ TrailIn(t, p) \subseteq 1 .. L
      /\ p # RootIn(t, x) => TrailIn(u, p) = TrailIn(t, p)
      /\ p = RootIn(t, x) => TrailIn(u, p) = TrailIn(t, p) \cup {L + 1, L + 2}
  BY CorrectTrails
<1>6. /\ p # RootIn(t, x) => NetIn(u, TrailIn(u, p)) = NetIn(t, TrailIn(t, p))
      /\ p = RootIn(t, x) => NetIn(u, TrailIn(u, p)) =
            (NetIn(t, TrailIn(t, p)) - AmountIn(t, x)) + AmountIn(u, L + 2)
  BY CorrectNets
<1>7. /\ t \in [Ids -> Entry] /\ u \in [Ids -> Entry]
      /\ \A y \in 1 .. L : /\ u[y].debit = t[y].debit /\ u[y].credit = t[y].credit
                           /\ u[y].status = IF y = x THEN "REVERSED" ELSE t[y].status
      /\ u[L + 1].status = "REVERSAL" /\ u[L + 2].status = "POSTED"
  BY DEF Corrects, SoundTable
<1>8. CASE p # RootIn(t, x)
  <2>1. x \notin TrailIn(t, p)
    BY <1>8 DEF TrailIn
  <2>2. e \in TrailIn(u, p) /\ e \in 1 .. L /\ e \in Ids
    BY <1>1, <1>4, <1>5, <1>8
  <2>3. {z \in TrailIn(u, p) : u[z].status = "POSTED"} = {e}
    <3>1. \A z \in TrailIn(t, p) : u[z].status = t[z].status
      BY <1>5, <1>7, <2>1
    <3> QED BY <1>4, <1>5, <1>8, <3>1
  <2>4. NetIn(u, {e}) = NetIn(t, {e})
    <3>1. NetIn(u, {e}) = AmountIn(u, e) /\ NetIn(t, {e}) = AmountIn(t, e)
      BY <1>7, <2>2, NetOfOne
    <3>2. AmountIn(u, e) = AmountIn(t, e)
      BY <1>7, <2>2 DEF AmountIn
    <3> QED BY <3>1, <3>2
  <2> QED BY <1>4, <1>6, <1>8, <2>2, <2>3, <2>4 DEF BalanceIn
<1>9. CASE p = RootIn(t, x)
  <2>1. t[x].status = "POSTED"
    BY <1>2, <1>9
  <2>2. x \in TrailIn(t, p)
    BY <1>1, <1>9 DEF TrailIn
  <2>3. e = x
    BY <1>4, <2>1, <2>2
  <2>4. NetIn(t, TrailIn(t, p)) = AmountIn(t, x)
    BY <1>1, <1>4, <1>7, <2>3, NetOfOne
  <2>5. AmountIn(t, x) \in Int /\ AmountIn(u, L + 2) \in Int
    <3>1. \A y \in Ids : t[y].debit \in Nat /\ t[y].credit \in Nat /\ u[y].debit \in Nat /\ u[y].credit \in Nat
      BY <1>7 DEF Entry
    <3> QED BY <1>1, <3>1 DEF AmountIn
  <2>6. NetIn(u, TrailIn(u, p)) = AmountIn(u, L + 2)
    BY <1>6, <1>9, <2>4, <2>5
  <2>7. NetIn(u, {L + 2}) = AmountIn(u, L + 2)
    BY <1>1, <1>7, NetOfOne
  <2>8. L + 2 \in TrailIn(u, p)
    BY <1>5, <1>9
  <2>9. {z \in TrailIn(u, p) : u[z].status = "POSTED"} = {L + 2}
    <3>1. \A z \in TrailIn(t, p) : u[z].status # "POSTED"
      BY <1>4, <1>5, <1>7, <2>3
    <3>2. \A z \in TrailIn(u, p) : z \in TrailIn(t, p) \/ z = L + 1 \/ z = L + 2
      BY <1>5, <1>9
    <3> QED BY <1>7, <2>8, <3>1, <3>2
  <2>10. BalanceIn(u, p)
    BY <2>6, <2>7, <2>8, <2>9 DEF BalanceIn
  <2> QED BY <1>9, <2>6, <2>10
<1> QED BY <1>8, <1>9

-----------------------------------------------------------------------------
(* The balance of the postings, and what the ledger implements              *)

\* The properties speak of the table.
LEMMA TableViews ==
    /\ \A e : RootOf(e) = RootIn(entry, e)
    /\ \A p : Trail(p) = TrailIn(entry, p)
    /\ \A S : Net(S) = NetIn(entry, S)
    /\ Contested = ContestedIn(entry)
<1>1. \A e : RootOf(e) = RootIn(entry, e)
  BY DEF RootOf, RootIn
<1>2. \A p : Trail(p) = TrailIn(entry, p)
  BY <1>1 DEF Trail, TrailIn
<1>3. \A S : Net(S) = NetIn(entry, S)
  BY DEF Net, NetIn
<1>4. ReversedTwice = TwiceIn(entry)
  BY DEF ReversedTwice, TwiceIn, ReversalsIn
<1>5. Contested = ContestedIn(entry)
  BY <1>1, <1>4 DEF Contested, ContestedIn
<1> QED BY <1>1, <1>2, <1>3, <1>5

LEMMA TableViewsNext ==
    /\ \A p : Trail(p)' = TrailIn(entry', p)
    /\ \A p : (Net(Trail(p)))' = NetIn(entry', TrailIn(entry', p))
    /\ Contested' = ContestedIn(entry')
<1>1. \A e : RootOf(e)' = RootIn(entry', e)
  BY DEF RootOf, RootIn
<1>2. \A p : Trail(p)' = TrailIn(entry', p)
  BY DEF Trail, TrailIn, RootOf, RootIn
<1>3. \A p : (Net(Trail(p)))' = NetIn(entry', TrailIn(entry', p))
  BY <1>2 DEF Net, NetIn
<1>4. ReversedTwice' = TwiceIn(entry')
  BY DEF ReversedTwice, TwiceIn, ReversalsIn
<1>5. Contested' = ContestedIn(entry')
  BY <1>4 DEF Contested, ContestedIn, RootOf, RootIn
<1> QED BY <1>2, <1>3, <1>5

\* Every entry goes back to a posting; a session corrects to an amount it was given.
RootsArePostings == \A e \in 1 .. last : RootIn(entry, e) \in Postings
AmountsAreGiven ==
    \A r \in Correctors : correction[r].pc # "idle" =>
        \E a \in Corrections : correction[r].debit = a.debit /\ correction[r].credit = a.credit
BalancesHold == \A p \in Postings \ ContestedIn(entry) : BalanceIn(entry, p)
BalanceInv == IInv /\ RootsArePostings /\ AmountsAreGiven /\ BalancesHold

LEMMA TableIsSound == ASSUME IInv PROVE SoundTable(entry, last)
<1>1. /\ entry \in [Ids -> Entry] /\ last \in Nat /\ last <= MaxEntries
      /\ \A e \in Ids : entry[e].status = "NONE" <=> e > last
  BY LedgerAssumption DEF IInv, LedgerTypeOK
<1>2. \A e \in Ids : entry[e].of \in Nat /\ (entry[e].of # 0 => entry[e].of \in Ids /\ entry[e].of < e)
  BY <1>1 DEF IInv, TrailIsComplete, Entry, Ids
<1>3. GoesBack([x \in Ids |-> entry[x].of])
  BY <1>2 DEF GoesBack
<1>4. \A e \in Ids : entry[e].status = "REVERSAL" => entry[e].of \in Ids /\ entry[entry[e].of].status = "REVERSED"
  BY <1>2 DEF IInv, TrailIsComplete, NamesItsEntry
<1> QED BY <1>1, <1>3, <1>4 DEF SoundTable

LEMMA NextTableIsSound == ASSUME IInv' PROVE SoundTable(entry', last')
<1>1. /\ entry' \in [Ids -> Entry] /\ last' \in Nat /\ last' <= MaxEntries
      /\ \A e \in Ids : entry'[e].status = "NONE" <=> e > last'
  BY LedgerAssumption DEF IInv, LedgerTypeOK
<1>2. \A e \in Ids : entry'[e].of \in Nat /\ (entry'[e].of # 0 => entry'[e].of \in Ids /\ entry'[e].of < e)
  BY <1>1 DEF IInv, TrailIsComplete, Entry, Ids
<1>3. GoesBack([x \in Ids |-> entry'[x].of])
  BY <1>2 DEF GoesBack
<1>4. \A e \in Ids : entry'[e].status = "REVERSAL" => entry'[e].of \in Ids /\ entry'[entry'[e].of].status = "REVERSED"
  BY <1>2 DEF IInv, TrailIsComplete, NamesItsEntry
<1> QED BY <1>1, <1>3, <1>4 DEF SoundTable

\* CommitReversal is a correction of the table.
LEMMA CommitCorrects ==
    ASSUME IInv, NEW r \in Correctors, CommitReversal(r)
    PROVE  /\ Corrects(entry, entry', last, correction[r].e)
           /\ entry[correction[r].e].status = "REVERSED" => ReversalsIn(entry, correction[r].e) # {}
           /\ AmountIn(entry', last + 2) = correction[r].debit - correction[r].credit
           /\ last' = last + 2
<1> DEFINE x == correction[r].e
<1>1. /\ last \in Nat /\ last' = last + 2 /\ last + 2 <= MaxEntries
      /\ x \in 1 .. last
      /\ \A e \in Ids : e # x /\ e # last + 1 /\ e # last + 2 => entry'[e] = entry[e]
      /\ entry'[x].status = "REVERSED" /\ entry'[x].of = entry[x].of
      /\ entry'[x].debit = entry[x].debit /\ entry'[x].credit = entry[x].credit
      /\ entry'[last + 1] = ReversalEntry(correction[r])
      /\ entry'[last + 2] = CorrectedEntry(correction[r])
  BY CommitRows
<1>2. SoundTable(entry, last) /\ SoundTable(entry', last + 2)
  BY <1>1, CommitKeeps, TableIsSound, NextTableIsSound
<1>3. /\ entry[x].status \in {"POSTED", "REVERSED"}
      /\ correction[r].row.debit = entry[x].debit /\ correction[r].row.credit = entry[x].credit
  BY DEF IInv, SessionInv, CommitReversal
<1>4. x \in Ids /\ \A e \in 1 .. last : e \in Ids /\ e # last + 1 /\ e # last + 2
  BY <1>1, LedgerAssumption DEF Ids
<1>5. \A e \in 1 .. last :
         /\ entry'[e].debit = entry[e].debit /\ entry'[e].credit = entry[e].credit /\ entry'[e].of = entry[e].of
         /\ entry'[e].status = IF e = x THEN "REVERSED" ELSE entry[e].status
  BY <1>1, <1>4
<1>6. /\ entry'[last + 1].status = "REVERSAL" /\ entry'[last + 1].of = x
      /\ entry'[last + 1].debit = entry[x].credit /\ entry'[last + 1].credit = entry[x].debit
  BY <1>1, <1>3 DEF ReversalEntry
<1>7. /\ entry'[last + 2].status = "POSTED" /\ entry'[last + 2].of = last + 1
      /\ entry'[last + 2].debit = correction[r].debit /\ entry'[last + 2].credit = correction[r].credit
  BY <1>1 DEF CorrectedEntry
<1>8. AmountIn(entry', last + 1) = 0 - AmountIn(entry, x)
  <2>1. entry[x].debit \in Nat /\ entry[x].credit \in Nat
    BY <1>2, <1>4 DEF SoundTable, Entry
  <2> QED BY <1>6, <2>1 DEF AmountIn
<1>9. Corrects(entry, entry', last, x)
  BY <1>1, <1>2, <1>3, <1>5, <1>6, <1>7, <1>8 DEF Corrects
<1>10. entry[x].status = "REVERSED" => ReversalsIn(entry, x) # {}
  BY <1>4 DEF IInv, ReversedIsCancelled, ReversalsIn
<1> QED BY <1>1, <1>7, <1>9, <1>10 DEF AmountIn

-----------------------------------------------------------------------------
\* At first every posting is its own trail.
LEMMA FirstRows ==
    ASSUME LedgerInit
    PROVE  /\ IInv
           /\ Postings = 1 .. last /\ Postings \subseteq Ids
           /\ \A e \in Ids : entry[e].of = 0 /\ entry[e].status \in {"NONE", "POSTED"}
           /\ \A p \in Postings : /\ entry[p].status = "POSTED"
                                  /\ entry[p].debit = Originals[p].debit
                                  /\ entry[p].credit = Originals[p].credit
<1>1. IInv
  BY InitHolds
<1>2. PICK n \in 0 .. MaxEntries : DOMAIN Originals = 1 .. n /\ Cardinality(DOMAIN Originals) = n
  BY PostingsAreNumbered
<1>3. Postings = 1 .. last /\ Postings \subseteq Ids
  <2>1. last = n /\ Postings = 1 .. n
    BY <1>2 DEF LedgerInit, Postings
  <2>2. 1 .. n \subseteq 1 .. MaxEntries
    BY LedgerAssumption
  <2> QED BY <2>1, <2>2 DEF Ids
<1>4. \A e \in Ids : e \notin Postings => entry[e] = NoEntry
  BY DEF LedgerInit, Postings
<1>5. \A p \in Postings : entry[p] = [NoEntry EXCEPT !.status = "POSTED", !.debit = Originals[p].debit,
                                                     !.credit = Originals[p].credit]
  BY <1>3 DEF LedgerInit, Postings
<1>6. \A p \in Postings : /\ entry[p].status = "POSTED" /\ entry[p].of = 0
                          /\ entry[p].debit = Originals[p].debit
                          /\ entry[p].credit = Originals[p].credit
  BY <1>5 DEF NoEntry
<1>7. \A e \in Ids : entry[e].of = 0 /\ entry[e].status \in {"NONE", "POSTED"}
  BY <1>4, <1>6 DEF NoEntry
<1> QED BY <1>1, <1>3, <1>6, <1>7

LEMMA FirstTrails ==
    ASSUME LedgerInit
    PROVE  /\ \A p \in Postings : /\ RootIn(entry, p) = p /\ TrailIn(entry, p) = {p}
                                  /\ NetIn(entry, {p}) = Originals[p].debit - Originals[p].credit
           /\ ContestedIn(entry) = {}
<1> DEFINE of == [x \in Ids |-> entry[x].of]
<1>1. SoundTable(entry, last)
  BY FirstRows, TableIsSound
<1>2. GoesBack(of) /\ entry \in [Ids -> Entry] /\ \A e \in Ids : entry[e].status = "NONE" <=> e > last
  BY <1>1 DEF SoundTable
<1>3. \A e \in Ids : of[e] = 0
  BY FirstRows
<1>4. \A e \in Ids : RootIn(entry, e) = Root(of)[e]
  BY DEF RootIn
<1>5. \A e \in Ids : RootIn(entry, e) = e
  <2> HIDE DEF of
  <2> QED BY <1>2, <1>3, <1>4, RootFacts
<1>6. \A p \in Postings : p \in Ids /\ entry[p].status = "POSTED" /\ RootIn(entry, p) = p
  BY <1>5, FirstRows
<1>7. \A p \in Postings : TrailIn(entry, p) = {p}
  BY <1>5, <1>6 DEF TrailIn
<1>8. \A p \in Postings : NetIn(entry, {p}) = Originals[p].debit - Originals[p].credit
  <2> SUFFICES ASSUME NEW p \in Postings PROVE NetIn(entry, {p}) = Originals[p].debit - Originals[p].credit
    OBVIOUS
  <2>1. NetIn(entry, {p}) = AmountIn(entry, p)
    BY <1>2, <1>6, NetOfOne
  <2> QED BY <2>1, FirstRows DEF AmountIn
<1>9. \A e \in Ids : Cardinality(ReversalsIn(entry, e)) = 0
  <2>1. \A e \in Ids : ReversalsIn(entry, e) = {}
    BY FirstRows DEF ReversalsIn
  <2> QED BY <2>1, FS_EmptySet
<1>10. ContestedIn(entry) = {}
  BY <1>9 DEF ContestedIn, TwiceIn
<1> QED BY <1>6, <1>7, <1>8, <1>10

LEMMA BalanceInit == ASSUME LedgerInit PROVE BalanceInv
<1>1. IInv /\ RootsArePostings
  BY FirstRows, FirstTrails DEF RootsArePostings
<1>2. AmountsAreGiven
  BY DEF LedgerInit, AmountsAreGiven, NoCorrection
<1>3. BalancesHold
  <2> SUFFICES ASSUME NEW p \in Postings PROVE BalanceIn(entry, p)
    BY DEF BalancesHold
  <2>1. TrailIn(entry, p) = {p} /\ entry[p].status = "POSTED"
    BY FirstRows, FirstTrails
  <2> QED BY <2>1 DEF BalanceIn
<1> QED BY <1>1, <1>2, <1>3 DEF BalanceInv

\* Steps other than a commit leave the table, and every request with amounts it
\* was given.
LEMMA OtherSteps ==
    ASSUME IInv, [LedgerNext]_ledgerVars, AmountsAreGiven
    PROVE  AmountsAreGiven' /\ (UNCHANGED <<entry, last>> \/ \E r \in Correctors : CommitReversal(r))
<1> USE DEF AmountsAreGiven
<1>1. correction \in [Correctors -> CorrectionState] /\ NoCorrection.pc = "idle"
  BY DEF IInv, LedgerTypeOK, NoCorrection
<1>2. CASE UNCHANGED ledgerVars
  BY <1>2 DEF ledgerVars
<1>3. ASSUME NEW r \in Correctors, NEW e \in Ids, NEW a \in Corrections, LoadEntry(r, e, a)
      PROVE  AmountsAreGiven' /\ UNCHANGED <<entry, last>>
  BY <1>1, <1>3 DEF LoadEntry
<1>4. ASSUME NEW r \in Correctors, FlushReversal(r)
      PROVE  AmountsAreGiven' /\ UNCHANGED <<entry, last>>
  BY <1>1, <1>4 DEF FlushReversal, CorrectionState
<1>5. ASSUME NEW r \in Correctors, RollbackReversal(r)
      PROVE  AmountsAreGiven' /\ UNCHANGED <<entry, last>>
  BY <1>1, <1>5 DEF RollbackReversal
<1>6. ASSUME NEW r \in Correctors, CommitReversal(r)
      PROVE  AmountsAreGiven'
  BY <1>1, <1>6 DEF CommitReversal
<1> QED BY <1>2, <1>3, <1>4, <1>5, <1>6 DEF LedgerNext

\* A commit corrects one posting and keeps every balance in force.
LEMMA CommitBalances ==
    ASSUME BalanceInv, NEW r \in Correctors, CommitReversal(r)
    PROVE  RootsArePostings' /\ BalancesHold'
<1> DEFINE x == correction[r].e
<1>1. IInv /\ RootsArePostings /\ BalancesHold
  BY DEF BalanceInv
<1>2. /\ Corrects(entry, entry', last, x)
      /\ entry[x].status = "REVERSED" => ReversalsIn(entry, x) # {}
      /\ last' = last + 2
  BY <1>1, CommitCorrects
<1>3. /\ \A e \in 1 .. last : RootIn(entry', e) = RootIn(entry, e)
      /\ RootIn(entry', last + 1) = RootIn(entry, x) /\ RootIn(entry', last + 2) = RootIn(entry, x)
  BY <1>2, CorrectRoots
<1>4. x \in 1 .. last /\ last \in Nat
  BY <1>2, IdRanges DEF Corrects
<1>5. \A e \in 1 .. last + 2 : e \in 1 .. last \/ e = last + 1 \/ e = last + 2
  BY <1>4
<1>6. \A e \in 1 .. last + 2 : RootIn(entry', e) \in Postings
  BY <1>1, <1>3, <1>4, <1>5 DEF RootsArePostings
<1>7. RootsArePostings'
  BY <1>2, <1>6 DEF RootsArePostings
<1>8. \A p \in Postings : p \notin ContestedIn(entry) => BalanceIn(entry, p)
  BY <1>1 DEF BalancesHold
<1>9. \A p \in Postings : p \notin ContestedIn(entry') => BalanceIn(entry', p)
  BY <1>2, <1>8, CorrectBalance
<1>10. BalancesHold'
  BY <1>9 DEF BalancesHold
<1> QED BY <1>7, <1>10

LEMMA BalanceNext == ASSUME BalanceInv, [LedgerNext]_ledgerVars PROVE BalanceInv'
<1>1. IInv'
  BY StepKeeps DEF BalanceInv
<1>2. AmountsAreGiven' /\ (UNCHANGED <<entry, last>> \/ \E r \in Correctors : CommitReversal(r))
  BY OtherSteps DEF BalanceInv
<1>3. ASSUME UNCHANGED <<entry, last>> PROVE RootsArePostings' /\ BalancesHold'
  BY <1>3 DEF BalanceInv, RootsArePostings, BalancesHold
<1>4. RootsArePostings' /\ BalancesHold'
  BY <1>2, <1>3, CommitBalances
<1> QED BY <1>1, <1>2, <1>4 DEF BalanceInv

\* However often a posting was corrected, by reverse_and_correct_entry, all its
\* entries add up to the one in force, unless one entry was reversed twice.
THEOREM BalancesStayInForce == LedgerSpec => []BalanceIsInForce
<1>1. LedgerInit => BalanceInv
  BY BalanceInit
<1>2. BalanceInv /\ [LedgerNext]_ledgerVars => BalanceInv'
  BY BalanceNext
<1>3. BalanceInv => BalanceIsInForce
  <2> SUFFICES ASSUME BalanceInv, NEW p \in Postings \ Contested
               PROVE  \E e \in Trail(p) : /\ {x \in Trail(p) : entry[x].status = "POSTED"} = {e}
                                          /\ Net(Trail(p)) = Net({e})
    BY DEF BalanceIsInForce
  <2>1. BalanceIn(entry, p)
    BY TableViews DEF BalanceInv, BalancesHold
  <2>2. Trail(p) = TrailIn(entry, p) /\ \A S : Net(S) = NetIn(entry, S)
    BY TableViews
  <2> QED BY <2>1, <2>2 DEF BalanceIn
<1> QED BY <1>1, <1>2, <1>3, PTL DEF LedgerSpec

-----------------------------------------------------------------------------
(* The ledger implements CorrectedLedger                                    *)

\* The values a posting may stand for.
LedgerValues == {Originals[p].debit - Originals[p].credit : p \in Postings}
                \cup {a.debit - a.credit : a \in Corrections}

\* A commit is one correction of its posting, or contests it.
LEMMA CommitImplements ==
    ASSUME BalanceInv, NEW r \in Correctors, CommitReversal(r)
    PROVE  \E p \in Postings :
             \/ /\ p \notin ContestedIn(entry) /\ ContestedIn(entry') = ContestedIn(entry)
                /\ NetIn(entry', TrailIn(entry', p)) \in LedgerValues
                /\ \A q \in Postings : q # p =>
                     NetIn(entry', TrailIn(entry', q)) = NetIn(entry, TrailIn(entry, q))
             \/ /\ ContestedIn(entry') = ContestedIn(entry) \cup {p}
                /\ \A q \in Postings : q # p =>
                     NetIn(entry', TrailIn(entry', q)) = NetIn(entry, TrailIn(entry, q))
<1> DEFINE x == correction[r].e
           p == RootIn(entry, x)
<1>1. IInv /\ RootsArePostings /\ BalancesHold /\ AmountsAreGiven
  BY DEF BalanceInv
<1>2. /\ Corrects(entry, entry', last, x)
      /\ entry[x].status = "REVERSED" => ReversalsIn(entry, x) # {}
      /\ AmountIn(entry', last + 2) = correction[r].debit - correction[r].credit
  BY <1>1, CommitCorrects
<1>3. x \in 1 .. last /\ entry[x].status \in {"POSTED", "REVERSED"}
  BY <1>2 DEF Corrects
<1>4. p \in Postings
  BY <1>1, <1>3 DEF RootsArePostings
<1>5. \A q : q # p => NetIn(entry', TrailIn(entry', q)) = NetIn(entry, TrailIn(entry, q))
  BY <1>2, CorrectNets
<1>6. /\ entry[x].status = "POSTED" => ContestedIn(entry') = ContestedIn(entry)
      /\ entry[x].status = "REVERSED" => ContestedIn(entry') = ContestedIn(entry) \cup {p}
  BY <1>2, CorrectContested
<1>7. AmountIn(entry', last + 2) \in LedgerValues
  <2>1. PICK a \in Corrections : correction[r].debit = a.debit /\ correction[r].credit = a.credit
    BY <1>1 DEF AmountsAreGiven, CommitReversal
  <2> QED BY <1>2, <2>1 DEF LedgerValues
<1>8. CASE entry[x].status = "POSTED" /\ p \notin ContestedIn(entry)
  <2>1. p \notin ContestedIn(entry') /\ BalanceIn(entry, p)
    BY <1>1, <1>4, <1>6, <1>8 DEF BalancesHold
  <2>2. NetIn(entry', TrailIn(entry', p)) = AmountIn(entry', last + 2)
    <3> HIDE DEF x
    <3> QED BY <1>2, <2>1, CorrectBalance
  <2> HIDE DEF p
  <2> QED BY <1>4, <1>5, <1>6, <1>7, <1>8, <2>2
<1>9. CASE entry[x].status = "REVERSED" \/ p \in ContestedIn(entry)
  <2>1. ContestedIn(entry') = ContestedIn(entry) \cup {p}
    <3> HIDE DEF p, x
    <3> QED BY <1>3, <1>6, <1>9
  <2> HIDE DEF p
  <2> QED BY <1>4, <1>5, <2>1
<1> QED BY <1>3, <1>8, <1>9

\* Every behaviour of the ledger of reverse_and_correct_entry is one of
\* CorrectedLedger: a posting stands for what its whole trail adds up to.
THEOREM LedgerImplementsCorrected == LedgerSpec => Implements
<1> DEFINE inF == [p \in Postings |-> Net(Trail(p))]
<1>1. LedgerInit => Abstract!Init
  <2> SUFFICES ASSUME LedgerInit PROVE Abstract!Init
    OBVIOUS
  <2>1. \A p \in Postings : Net(Trail(p)) = Originals[p].debit - Originals[p].credit
    BY TableViews, FirstTrails
  <2>2. \A p \in Postings : Net(Trail(p)) \in LedgerValues
    BY <2>1 DEF LedgerValues
  <2>3. Contested = {}
    BY TableViews, FirstTrails
  <2> QED BY <2>2, <2>3 DEF Abstract!Init, LedgerValues
<1>2. BalanceInv /\ [LedgerNext]_ledgerVars => [Abstract!Next]_<<inF, Contested>>
  <2> SUFFICES ASSUME BalanceInv, [LedgerNext]_ledgerVars
               PROVE  Abstract!Next \/ UNCHANGED <<inF, Contested>>
    OBVIOUS
  <2>1. UNCHANGED <<entry, last>> \/ \E r \in Correctors : CommitReversal(r)
    BY OtherSteps DEF BalanceInv
  <2>2. inF = [q \in Postings |-> NetIn(entry, TrailIn(entry, q))] /\ Contested = ContestedIn(entry)
    BY TableViews
  <2>3. inF' = [q \in Postings |-> NetIn(entry', TrailIn(entry', q))] /\ Contested' = ContestedIn(entry')
    BY TableViewsNext DEF Postings
  <2>4. ASSUME UNCHANGED <<entry, last>> PROVE UNCHANGED <<inF, Contested>>
    <3>1. inF' = inF /\ Contested' = Contested
      <4> HIDE DEF inF
      <4> QED BY <2>2, <2>3, <2>4
    <3> QED BY <3>1
  <2>5. ASSUME \E r \in Correctors : CommitReversal(r) PROVE Abstract!Next
    <3>1. PICK p \in Postings :
             \/ /\ p \notin ContestedIn(entry) /\ ContestedIn(entry') = ContestedIn(entry)
                /\ NetIn(entry', TrailIn(entry', p)) \in LedgerValues
                /\ \A q \in Postings : q # p =>
                     NetIn(entry', TrailIn(entry', q)) = NetIn(entry, TrailIn(entry, q))
             \/ /\ ContestedIn(entry') = ContestedIn(entry) \cup {p}
                /\ \A q \in Postings : q # p =>
                     NetIn(entry', TrailIn(entry', q)) = NetIn(entry, TrailIn(entry, q))
      BY <2>5, CommitImplements
    <3>2. ASSUME /\ p \notin ContestedIn(entry) /\ ContestedIn(entry') = ContestedIn(entry)
                 /\ NetIn(entry', TrailIn(entry', p)) \in LedgerValues
                 /\ \A q \in Postings : q # p =>
                      NetIn(entry', TrailIn(entry', q)) = NetIn(entry, TrailIn(entry, q))
          PROVE  \E v \in LedgerValues : Abstract!Correct(p, v)
      <4> DEFINE v == NetIn(entry', TrailIn(entry', p))
      <4>1. inF' = [inF EXCEPT ![p] = v]
        <5> HIDE DEF inF
        <5> QED BY <2>2, <2>3, <3>2
      <4>2. p \notin Contested /\ Contested' = Contested
        BY <2>2, <2>3, <3>2
      <4>3. Abstract!Correct(p, v)
        BY <4>1, <4>2 DEF Abstract!Correct
      <4> QED BY <3>2, <4>3
    <3>3. ASSUME /\ ContestedIn(entry') = ContestedIn(entry) \cup {p}
                 /\ \A q \in Postings : q # p =>
                      NetIn(entry', TrailIn(entry', q)) = NetIn(entry, TrailIn(entry, q))
          PROVE  Abstract!Contest(p)
      <4>1. \A q \in Postings \ {p} : inF'[q] = inF[q]
        <5> HIDE DEF inF
        <5> QED BY <2>2, <2>3, <3>3
      <4>2. Contested' = Contested \cup {p}
        BY <2>2, <2>3, <3>3
      <4> QED BY <4>1, <4>2 DEF Abstract!Contest
    <3> QED BY <3>1, <3>2, <3>3 DEF Abstract!Next, LedgerValues
  <2> QED BY <2>1, <2>4, <2>5
<1>3. LedgerInit => BalanceInv
  BY BalanceInit
<1>4. BalanceInv /\ [LedgerNext]_ledgerVars => BalanceInv'
  BY BalanceNext
<1> QED BY <1>1, <1>2, <1>3, <1>4, PTL DEF LedgerSpec, Implements, Abstract!Spec

-----------------------------------------------------------------------------
(* The negative-margin watch                                                *)

Inv == TypeOK /\ ClosedIsDated

LEMMA RowTypes == NoException \in ExceptionRow /\ Idle \in Session
<1>1. NoException \in ExceptionRow
  BY DEF NoException, ExceptionRow, ExcStatus
<1> QED BY <1>1 DEF Idle, Session

LEMMA InitInv == Init => Inv
<1> SUFFICES ASSUME Init PROVE Inv
  OBVIOUS
<1>1. TypeOK
  BY RowTypes DEF Init, TypeOK
<1>2. ClosedIsDated
  BY DEF Init, ClosedIsDated, NoException
<1> QED BY <1>1, <1>2 DEF Inv

\* A request begins or goes on: only its session changes.
LEMMA SessionStep ==
    ASSUME Inv, NEW r \in Requests, NEW s \in Session, req' = [req EXCEPT ![r] = s],
           UNCHANGED <<revenue, cost, exc>>, overlapped' \in BOOLEAN
    PROVE  Inv'
  BY DEF Inv, TypeOK, ClosedIsDated

\* A session that was closed before the commit or is closed by it has its date.
LEMMA AfterIsDated ==
    ASSUME NEW s \in Session, NEW row \in ExceptionRow,
           row.status \in {"RESOLVED", "CLOSED"} => row.resolved
    PROVE  /\ After(s, row) \in ExceptionRow
           /\ After(s, row).status \in {"RESOLVED", "CLOSED"} => After(s, row).resolved
<1>1. /\ s.status \in ExcStatus \cup {"none"} /\ row.status \in ExcStatus /\ row.resolved \in BOOLEAN
  BY DEF Session, ExceptionRow
<1>2. (row.resolved \/ s.status \in {"RESOLVED", "CLOSED"}) \in BOOLEAN
  OBVIOUS
<1>3. After(s, row) \in ExceptionRow
  BY <1>1, <1>2 DEF After, ExceptionRow
<1>4. /\ After(s, row).status = IF s.status \in {"none", s.seen.status} THEN row.status ELSE s.status
      /\ After(s, row).resolved = (row.resolved \/ s.status \in {"RESOLVED", "CLOSED"})
  BY DEF After
<1> QED BY <1>3, <1>4

\* The sync decides on a status for the exception, or on none.
LEMMA SyncInv == ASSUME Inv, NEW r \in Requests, SyncException(r) PROVE Inv'
<1>1. req[r] \in Session /\ UNCHANGED <<revenue, cost, exc>> /\ overlapped' \in BOOLEAN
  BY DEF Inv, TypeOK, SyncException
<1>2. CASE \E x \in Exceptions : req' = [req EXCEPT ![r].pc = "synced", ![r].status = "OPEN", ![r].x = x]
  <2>1. PICK x \in Exceptions : req' = [req EXCEPT ![r].pc = "synced", ![r].status = "OPEN", ![r].x = x]
    BY <1>2
  <2> DEFINE s == [req[r] EXCEPT !.pc = "synced", !.status = "OPEN", !.x = x]
  <2>2. s \in Session /\ req' = [req EXCEPT ![r] = s]
    BY <1>1, <2>1 DEF Session, ExcStatus, OpenStatus
  <2> QED BY <1>1, <2>2, SessionStep
<1>3. CASE \E negative \in BOOLEAN : \E x \in OpenExceptions :
             req' = [req EXCEPT ![r].pc = "synced", ![r].x = x, ![r].seen = exc[x],
                                ![r].status = IF negative THEN "none" ELSE "RESOLVED"]
  <2>0. PICK negative \in BOOLEAN : \E x \in OpenExceptions :
          req' = [req EXCEPT ![r].pc = "synced", ![r].x = x, ![r].seen = exc[x],
                             ![r].status = IF negative THEN "none" ELSE "RESOLVED"]
    BY <1>3
  <2> DEFINE to == IF negative THEN "none" ELSE "RESOLVED"
  <2>1. PICK x \in OpenExceptions :
          req' = [req EXCEPT ![r].pc = "synced", ![r].x = x, ![r].seen = exc[x], ![r].status = to]
    BY <2>0
  <2>2. x \in Exceptions /\ exc[x] \in ExceptionRow /\ to \in ExcStatus \cup {"none"}
    BY DEF OpenExceptions, Inv, TypeOK, ExcStatus
  <2> HIDE DEF to
  <2> DEFINE s == [req[r] EXCEPT !.pc = "synced", !.x = x, !.seen = exc[x], !.status = to]
  <2>3. s \in Session /\ req' = [req EXCEPT ![r] = s]
    BY <1>1, <2>1, <2>2 DEF Session
  <2> QED BY <1>1, <2>3, SessionStep
<1>4. CASE req' = [req EXCEPT ![r].pc = "synced"]
  <2>1. [req[r] EXCEPT !.pc = "synced"] \in Session
    BY <1>1 DEF Session
  <2> QED BY <1>1, <1>4, <2>1, SessionStep
<1> QED BY <1>2, <1>3, <1>4 DEF SyncException, Verdicts

LEMMA CommitInv == ASSUME Inv, NEW r \in Requests, Commit(r) PROVE Inv'
<1>1. req[r] \in Session /\ req[r].amount \in Nat /\ Own(req[r], "revenue") \in Nat /\ Own(req[r], "cost") \in Nat
  BY DEF Inv, TypeOK, Session, Own
<1>2. \A x \in Exceptions : exc'[x] = IF x = req[r].x THEN After(req[r], exc[x]) ELSE exc[x]
  BY DEF Commit
<1>3. ASSUME NEW x \in Exceptions
      PROVE  exc'[x] \in ExceptionRow /\ (exc'[x].status \in {"RESOLVED", "CLOSED"} => exc'[x].resolved)
  <2>1. exc[x] \in ExceptionRow /\ (exc[x].status \in {"RESOLVED", "CLOSED"} => exc[x].resolved)
    BY DEF Inv, TypeOK, ClosedIsDated
  <2> QED BY <1>1, <1>2, <2>1, AfterIsDated
<1>4. exc' \in [Exceptions -> ExceptionRow] /\ ClosedIsDated'
  BY <1>3 DEF Commit, ClosedIsDated
<1>5. revenue' \in Nat /\ cost' \in Nat
  BY <1>1 DEF Inv, TypeOK, Commit
<1>6. req' \in [Requests -> Session] /\ overlapped' \in BOOLEAN
  BY RowTypes DEF Inv, TypeOK, Commit
<1> QED BY <1>4, <1>5, <1>6 DEF Inv, TypeOK

LEMMA NextInv == Inv /\ [Next]_vars => Inv'
<1> SUFFICES ASSUME Inv, [Next]_vars PROVE Inv'
  OBVIOUS
<1>1. CASE UNCHANGED vars
  BY <1>1 DEF vars, Inv, TypeOK, ClosedIsDated
<1>2. Overlaps => overlapped' \in BOOLEAN
  BY DEF Overlaps, Inv, TypeOK
<1>3. ASSUME NEW r \in Requests, NEW kind \in {"revenue", "cost"}, NEW a \in Amounts, AddLine(r, kind, a) PROVE Inv'
  <2>1. [Idle EXCEPT !.pc = "inserted", !.kind = kind, !.amount = a] \in Session
    BY RowTypes, MarginAssumption DEF Session
  <2> QED BY <1>2, <1>3, <2>1, SessionStep DEF AddLine
<1>4. ASSUME NEW r \in Requests, SumRevenue(r) PROVE Inv'
  <2>1. revenue + Own(req[r], "revenue") \in Nat /\ req[r] \in Session /\ overlapped' \in BOOLEAN
    BY <1>4 DEF Inv, TypeOK, Session, Own, SumRevenue
  <2> DEFINE n == revenue + Own(req[r], "revenue")
             s == [req[r] EXCEPT !.pc = "revenue", !.revenue = n]
  <2>2. s \in Session
    BY <2>1 DEF Session
  <2>3. req' = [req EXCEPT ![r] = s] /\ UNCHANGED <<revenue, cost, exc>>
    BY <1>4 DEF SumRevenue
  <2> QED BY <2>1, <2>2, <2>3, SessionStep
<1>5. ASSUME NEW r \in Requests, SumCost(r) PROVE Inv'
  <2>1. cost + Own(req[r], "cost") \in Nat /\ req[r] \in Session /\ overlapped' \in BOOLEAN
    BY <1>5 DEF Inv, TypeOK, Session, Own, SumCost
  <2> DEFINE n == cost + Own(req[r], "cost")
             s == [req[r] EXCEPT !.pc = "cost", !.cost = n]
  <2>2. s \in Session
    BY <2>1 DEF Session
  <2>3. req' = [req EXCEPT ![r] = s] /\ UNCHANGED <<revenue, cost, exc>>
    BY <1>5 DEF SumCost
  <2> QED BY <2>1, <2>2, <2>3, SessionStep
<1>6. ASSUME NEW r \in Requests, Rollback(r) PROVE Inv'
  <2>1. UNCHANGED <<revenue, cost, exc>> /\ overlapped' \in BOOLEAN /\ req' = [req EXCEPT ![r] = Idle]
    BY <1>6 DEF Rollback, Inv, TypeOK
  <2> QED BY <2>1, RowTypes, SessionStep
<1>7. ASSUME NEW r \in Requests, NEW a \in Amounts \cup {0}, BillCharge(r, a) \/ SettleAgent(r, a) PROVE Inv'
  BY <1>2, <1>7, MarginAssumption DEF BillCharge, SettleAgent, Inv, TypeOK, ClosedIsDated
<1>8. ASSUME NEW r \in Requests, NEW x \in Exceptions, CreateException(r, x) PROVE Inv'
  <2>1. [exc[x] EXCEPT !.status = "OPEN"] \in ExceptionRow /\ [exc[x] EXCEPT !.status = "OPEN"].status = "OPEN"
    BY DEF Inv, TypeOK, ExceptionRow, ExcStatus, OpenStatus
  <2>2. \A y \in Exceptions : exc'[y] = IF y = x THEN [exc[x] EXCEPT !.status = "OPEN"] ELSE exc[y]
    BY <1>8 DEF CreateException, Inv, TypeOK
  <2>3. ClosedIsDated'
    BY <2>1, <2>2 DEF Inv, ClosedIsDated
  <2>4. TypeOK'
    BY <1>2, <1>8, <2>1 DEF CreateException, Inv, TypeOK
  <2> QED BY <2>3, <2>4 DEF Inv
<1>9. ASSUME NEW r \in Requests, NEW x \in Exceptions, NEW status \in UserStatuses, UpdateException(r, x, status)
      PROVE  Inv'
  <2>1. status \in ExcStatus /\ exc[x] \in ExceptionRow
    BY MarginAssumption DEF Inv, TypeOK
  <2>2. [Idle EXCEPT !.pc = "updating", !.x = x, !.seen = exc[x], !.status = status] \in Session
    BY <2>1, RowTypes DEF Session
  <2> QED BY <1>2, <1>9, <2>2, SessionStep DEF UpdateException
<1> QED BY <1>1, <1>3, <1>4, <1>5, <1>6, <1>7, <1>8, <1>9, SyncInv, CommitInv DEF Next

\* The ledger sums, exceptions and sessions keep their types for any amounts,
\* exceptions and number of requests.
THEOREM MarginTypeCorrect == Spec => []TypeOK
<1>1. Inv => TypeOK
  BY DEF Inv
<1> QED BY InitInv, NextInv, <1>1, PTL DEF Spec

\* However users, ledger lines and the watch write the same rows, an exception
\* that is RESOLVED or CLOSED has resolved_at.
THEOREM ClosedExceptionsDated == Spec => []ClosedIsDated
<1>1. Inv => ClosedIsDated
  BY DEF Inv
<1> QED BY InitInv, NextInv, <1>1, PTL DEF Spec
-----------------------------------------------------------------------------
(* The watch while requests come one after the other                       *)

\* A session has seen the ledgers of revenue n and cost c, its own line counted.
Sees(s, n, c) ==
    /\ s.pc \in {"inserted", "revenue", "cost"} => s.seen = NoException /\ s.status = "none"
    /\ s.pc \in {"revenue", "cost", "synced"} => s.revenue = n + Own(s, "revenue")
    /\ s.pc \in {"cost", "synced"} => s.cost = c + Own(s, "cost")

\* A session decided on the exceptions as they are: a new one for a loss that
\* has none, the end of the open one without a loss, else nothing.
Decided(s, rows, open) ==
    \/ /\ s.status = "OPEN" /\ s.seen = NoException /\ TRUE \in Verdicts(s)
       /\ s.x \in Exceptions /\ rows[s.x] = NoException /\ open = {}
    \/ /\ s.x \in Exceptions /\ open = {s.x} /\ s.seen = rows[s.x]
       /\ \/ s.status = "none" /\ TRUE \in Verdicts(s)
          \/ s.status = "RESOLVED" /\ FALSE \in Verdicts(s)
    \/ s.status = "none" /\ FALSE \in Verdicts(s) /\ open = {}

Current(s, n, c, rows, open) == Sees(s, n, c) /\ (s.pc = "synced" => Decided(s, rows, open))

\* Without overlap one request is in flight, and what it has seen still holds.
SessionsCurrent ==
    ~overlapped =>
        /\ \A q, r \in Requests : req[q].pc # "idle" /\ req[r].pc # "idle" => q = r
        /\ \A r \in Requests : Current(req[r], revenue, cost, exc, OpenExceptions)

WatchInv == Inv /\ SessionsCurrent /\ IsFiniteSet(OpenExceptions)

LEMMA IdleIsCurrent ==
    ASSUME NEW s, s.pc \in {"idle", "updating"}, NEW n, NEW c, NEW rows, NEW open
    PROVE  Current(s, n, c, rows, open)
  BY DEF Current, Sees

LEMMA WatchInit == Init => WatchInv
<1> SUFFICES ASSUME Init PROVE WatchInv
  OBVIOUS
<1>1. \A r \in Requests : req[r].pc = "idle"
  BY DEF Init, Idle
<1>2. SessionsCurrent
  BY <1>1, IdleIsCurrent DEF SessionsCurrent
<1>3. OpenExceptions = {}
  BY DEF Init, OpenExceptions, NoException, OpenStatus
<1> QED BY <1>2, <1>3, InitInv, FS_EmptySet DEF WatchInv

\* A step of the one request in flight.
LEMMA CurrentStep ==
    ASSUME TypeOK, NEW r \in Requests, NEW s, req' = [req EXCEPT ![r] = s],
           \A q \in Requests : q # r => req[q].pc = "idle",
           Current(s, revenue', cost', exc', OpenExceptions')
    PROVE  SessionsCurrent'
<1>1. \A q \in Requests : req'[q] = IF q = r THEN s ELSE req[q]
  BY DEF TypeOK
<1>2. \A q \in Requests : Current(req'[q], revenue', cost', exc', OpenExceptions')
  BY <1>1, IdleIsCurrent
<1> QED BY <1>1, <1>2 DEF SessionsCurrent

\* A request begins: it is the only one in flight, or the history records that
\* it is not.
LEMMA BeginStep ==
    ASSUME TypeOK, NEW r \in Requests, NEW s, req' = [req EXCEPT ![r] = s], Overlaps,
           Current(s, revenue', cost', exc', OpenExceptions')
    PROVE  SessionsCurrent'
<1>1. CASE overlapped'
  BY <1>1 DEF SessionsCurrent
<1>2. CASE ~overlapped'
  <2>1. \A q \in Requests : req[q].pc = "idle"
    BY <1>2 DEF Overlaps
  <2> QED BY <2>1, CurrentStep
<1> QED BY <1>1, <1>2

\* A request in flight goes on, commits or rolls back.
LEMMA GoOnStep ==
    ASSUME TypeOK, SessionsCurrent, NEW r \in Requests, req[r].pc # "idle",
           NEW s, req' = [req EXCEPT ![r] = s], UNCHANGED overlapped,
           ~overlapped => Current(s, revenue', cost', exc', OpenExceptions')
    PROVE  SessionsCurrent'
<1>1. CASE overlapped
  BY <1>1 DEF SessionsCurrent
<1>2. CASE ~overlapped
  <2>1. \A q \in Requests : q # r => req[q].pc = "idle"
    BY <1>2 DEF SessionsCurrent
  <2> QED BY <1>2, <2>1, CurrentStep
<1> QED BY <1>1, <1>2

\* A step writes one exception at most.
LEMMA OpenStaysFinite ==
    ASSUME IsFiniteSet(OpenExceptions), NEW x, \A y \in Exceptions : y # x => exc'[y] = exc[y]
    PROVE  IsFiniteSet(OpenExceptions')
<1>1. OpenExceptions' \subseteq OpenExceptions \cup {x}
  BY DEF OpenExceptions
<1>2. IsFiniteSet(OpenExceptions \cup {x})
  BY FS_AddElement
<1> QED BY <1>1, <1>2, FS_Subset

\* What the sync decides agrees with the ledgers and exceptions it has seen.
LEMMA SyncDecides ==
    ASSUME WatchInv, NEW r \in Requests, SyncException(r) PROVE SessionsCurrent'
<1> DEFINE t == req[r]
<1>1. /\ t \in Session /\ t.pc = "cost" /\ t.revenue \in Nat /\ t.cost \in Nat /\ TypeOK /\ SessionsCurrent
      /\ UNCHANGED <<revenue, cost, exc, overlapped>> /\ OpenExceptions' = OpenExceptions
      /\ Cardinality(OpenExceptions) <= 1
  BY DEF WatchInv, Inv, TypeOK, Session, SyncException, OpenExceptions
<1>2. ASSUME NEW s, s.revenue = t.revenue, s.cost = t.cost PROVE Verdicts(s) = Verdicts(t)
  BY <1>2 DEF Verdicts, Loss
<1>3. ~overlapped => Sees(t, revenue, cost)
  BY <1>1 DEF SessionsCurrent, Current
<1>4. ASSUME NEW s \in Session, req' = [req EXCEPT ![r] = s], s.pc = "synced", s.kind = t.kind, s.amount = t.amount,
             s.revenue = t.revenue, s.cost = t.cost,
             t.seen = NoException /\ t.status = "none" => Decided(s, exc, OpenExceptions)
      PROVE  SessionsCurrent'
  <2>1. ~overlapped => Sees(s, revenue, cost) /\ Decided(s, exc, OpenExceptions)
    BY <1>1, <1>3, <1>4 DEF Sees, Own
  <2>2. ~overlapped => Current(s, revenue', cost', exc', OpenExceptions')
    BY <1>1, <2>1 DEF Current
  <2> QED BY <1>1, <1>4, <2>2, GoOnStep
<1>5. CASE TRUE \in Verdicts(t) /\ OpenExceptions = {} /\ \E x \in Exceptions :
             Unused(x) /\ req' = [req EXCEPT ![r].pc = "synced", ![r].status = "OPEN", ![r].x = x]
  <2>1. PICK x \in Exceptions :
          Unused(x) /\ req' = [req EXCEPT ![r].pc = "synced", ![r].status = "OPEN", ![r].x = x]
    BY <1>5
  <2> DEFINE s == [t EXCEPT !.pc = "synced", !.status = "OPEN", !.x = x]
  <2>2. /\ s \in Session /\ req' = [req EXCEPT ![r] = s] /\ s.pc = "synced" /\ s.kind = t.kind /\ s.amount = t.amount
        /\ s.revenue = t.revenue /\ s.cost = t.cost /\ s.seen = t.seen /\ s.status = "OPEN" /\ s.x = x
    BY <1>1, <2>1 DEF Session, ExcStatus, OpenStatus
  <2> HIDE DEF s
  <2>3. t.seen = NoException /\ t.status = "none" => Decided(s, exc, OpenExceptions)
    BY <1>2, <1>5, <2>1, <2>2 DEF Decided, Unused
  <2> QED BY <1>4, <2>2, <2>3
<1>6. ASSUME NEW negative \in Verdicts(t),
             \E x \in OpenExceptions :
                req' = [req EXCEPT ![r].pc = "synced", ![r].x = x, ![r].seen = exc[x],
                                   ![r].status = IF negative THEN "none" ELSE "RESOLVED"]
      PROVE  SessionsCurrent'
  <2> DEFINE to == IF negative THEN "none" ELSE "RESOLVED"
  <2>1. PICK x \in OpenExceptions :
          req' = [req EXCEPT ![r].pc = "synced", ![r].x = x, ![r].seen = exc[x], ![r].status = to]
    BY <1>6
  <2>2. x \in Exceptions /\ exc[x] \in ExceptionRow /\ to \in ExcStatus \cup {"none"}
    BY <1>1 DEF OpenExceptions, TypeOK, ExcStatus
  <2>3. OpenExceptions = {x}
    <3>1. Cardinality(OpenExceptions \ {x}) = Cardinality(OpenExceptions) - 1 /\ IsFiniteSet(OpenExceptions \ {x})
      BY FS_RemoveElement DEF WatchInv
    <3>2. Cardinality(OpenExceptions \ {x}) \in Nat
      BY <3>1, FS_CardinalityType
    <3>3. Cardinality(OpenExceptions) \in Nat
      BY FS_CardinalityType DEF WatchInv
    <3>4. Cardinality(OpenExceptions \ {x}) = 0
      BY <1>1, <3>1, <3>2, <3>3
    <3>5. OpenExceptions \ {x} = {}
      BY <3>1, <3>4, FS_EmptySet
    <3> QED BY <3>5
  <2>4. (to = "none" /\ TRUE \in Verdicts(t)) \/ (to = "RESOLVED" /\ FALSE \in Verdicts(t))
    <3>1. negative \in BOOLEAN
      BY DEF Verdicts
    <3>2. CASE negative = TRUE
      BY <3>2
    <3>3. CASE negative = FALSE
      BY <3>3
    <3> QED BY <3>1, <3>2, <3>3
  <2> HIDE DEF to
  <2> DEFINE s == [t EXCEPT !.pc = "synced", !.x = x, !.seen = exc[x], !.status = to]
  <2>5. /\ s \in Session /\ req' = [req EXCEPT ![r] = s] /\ s.pc = "synced" /\ s.kind = t.kind /\ s.amount = t.amount
        /\ s.revenue = t.revenue /\ s.cost = t.cost /\ s.seen = exc[x] /\ s.status = to /\ s.x = x
    BY <1>1, <2>1, <2>2 DEF Session
  <2> HIDE DEF s
  <2>6. Decided(s, exc, OpenExceptions)
    BY <1>2, <2>2, <2>3, <2>4, <2>5 DEF Decided
  <2> QED BY <1>4, <2>5, <2>6
<1>7. CASE FALSE \in Verdicts(t) /\ OpenExceptions = {} /\ req' = [req EXCEPT ![r].pc = "synced"]
  <2> DEFINE s == [t EXCEPT !.pc = "synced"]
  <2>1. /\ s \in Session /\ req' = [req EXCEPT ![r] = s] /\ s.pc = "synced" /\ s.kind = t.kind /\ s.amount = t.amount
        /\ s.revenue = t.revenue /\ s.cost = t.cost /\ s.status = t.status
    BY <1>1, <1>7 DEF Session
  <2> HIDE DEF s
  <2>2. t.seen = NoException /\ t.status = "none" => Decided(s, exc, OpenExceptions)
    BY <1>2, <1>7, <2>1 DEF Decided
  <2> QED BY <1>4, <2>1, <2>2
<1>8. PICK negative \in Verdicts(t) :
         \/ /\ negative /\ OpenExceptions = {}
            /\ \E x \in Exceptions :
                 Unused(x) /\ req' = [req EXCEPT ![r].pc = "synced", ![r].status = "OPEN", ![r].x = x]
         \/ \E x \in OpenExceptions :
              req' = [req EXCEPT ![r].pc = "synced", ![r].x = x, ![r].seen = exc[x],
                                 ![r].status = IF negative THEN "none" ELSE "RESOLVED"]
         \/ ~negative /\ OpenExceptions = {} /\ req' = [req EXCEPT ![r].pc = "synced"]
  BY DEF SyncException
<1>9. negative \in BOOLEAN /\ (negative => TRUE \in Verdicts(t)) /\ (~negative => FALSE \in Verdicts(t))
  BY <1>8 DEF Verdicts
<1> QED BY <1>5, <1>6, <1>7, <1>8, <1>9

LEMMA WatchNext == WatchInv /\ [Next]_vars => WatchInv'
<1> SUFFICES ASSUME WatchInv, [Next]_vars PROVE WatchInv'
  OBVIOUS
<1>1. Inv' /\ TypeOK /\ SessionsCurrent /\ IsFiniteSet(OpenExceptions)
  BY NextInv DEF WatchInv, Inv
<1> SUFFICES SessionsCurrent' /\ IsFiniteSet(OpenExceptions')
  BY <1>1 DEF WatchInv
<1>2. UNCHANGED exc => OpenExceptions' = OpenExceptions
  BY DEF OpenExceptions
<1>3. CASE UNCHANGED vars
  BY <1>1, <1>2, <1>3 DEF vars, SessionsCurrent
<1>4. ASSUME NEW r \in Requests, NEW kind \in {"revenue", "cost"}, NEW a \in Amounts, AddLine(r, kind, a)
      PROVE  SessionsCurrent' /\ IsFiniteSet(OpenExceptions')
  <2> DEFINE s == [Idle EXCEPT !.pc = "inserted", !.kind = kind, !.amount = a]
  <2>1. s.pc = "inserted" /\ s.seen = NoException /\ s.status = "none"
    BY DEF Idle
  <2>2. Current(s, revenue', cost', exc', OpenExceptions')
    BY <2>1 DEF Current, Sees
  <2>3. req' = [req EXCEPT ![r] = s] /\ Overlaps /\ UNCHANGED exc
    BY <1>4 DEF AddLine
  <2> QED BY <1>1, <1>2, <2>2, <2>3, BeginStep
<1>5. ASSUME NEW r \in Requests, SumRevenue(r)
      PROVE  SessionsCurrent' /\ IsFiniteSet(OpenExceptions')
  <2> DEFINE n == revenue + Own(req[r], "revenue")
             s == [req[r] EXCEPT !.pc = "revenue", !.revenue = n]
  <2>1. /\ req' = [req EXCEPT ![r] = s] /\ UNCHANGED <<revenue, cost, exc, overlapped>> /\ req[r].pc = "inserted"
    BY <1>5 DEF SumRevenue
  <2>2. /\ s.pc = "revenue" /\ s.seen = req[r].seen /\ s.status = req[r].status /\ s.revenue = n
        /\ s.kind = req[r].kind /\ s.amount = req[r].amount
    BY <1>1 DEF TypeOK, Session
  <2>3. ~overlapped => Current(s, revenue', cost', exc', OpenExceptions')
    <3> HIDE DEF s
    <3> QED BY <1>1, <2>1, <2>2 DEF SessionsCurrent, Current, Sees, Own
  <2> QED BY <1>1, <1>2, <2>1, <2>3, GoOnStep
<1>6. ASSUME NEW r \in Requests, SumCost(r)
      PROVE  SessionsCurrent' /\ IsFiniteSet(OpenExceptions')
  <2> DEFINE n == cost + Own(req[r], "cost")
             s == [req[r] EXCEPT !.pc = "cost", !.cost = n]
  <2>1. /\ req' = [req EXCEPT ![r] = s] /\ UNCHANGED <<revenue, cost, exc, overlapped>> /\ req[r].pc = "revenue"
    BY <1>6 DEF SumCost
  <2>2. /\ s.pc = "cost" /\ s.seen = req[r].seen /\ s.status = req[r].status /\ s.cost = n
        /\ s.kind = req[r].kind /\ s.amount = req[r].amount /\ s.revenue = req[r].revenue
    BY <1>1 DEF TypeOK, Session
  <2>3. ~overlapped => Current(s, revenue', cost', exc', OpenExceptions')
    <3> HIDE DEF s
    <3> QED BY <1>1, <2>1, <2>2 DEF SessionsCurrent, Current, Sees, Own
  <2> QED BY <1>1, <1>2, <2>1, <2>3, GoOnStep
<1>7. ASSUME NEW r \in Requests, SyncException(r)
      PROVE  SessionsCurrent' /\ IsFiniteSet(OpenExceptions')
  BY <1>1, <1>2, <1>7, SyncDecides DEF SyncException
<1>8. ASSUME NEW r \in Requests, Commit(r) \/ Rollback(r)
      PROVE  SessionsCurrent' /\ IsFiniteSet(OpenExceptions')
  <2>1. /\ req' = [req EXCEPT ![r] = Idle] /\ UNCHANGED overlapped /\ req[r].pc # "idle" /\ Idle.pc = "idle"
        /\ \A y \in Exceptions : y # req[r].x => exc'[y] = exc[y]
    BY <1>1, <1>8 DEF Commit, Rollback, Idle
  <2>2. Current(Idle, revenue', cost', exc', OpenExceptions')
    BY <2>1, IdleIsCurrent
  <2>3. IsFiniteSet(OpenExceptions')
    BY <1>1, <2>1, OpenStaysFinite
  <2> QED BY <1>1, <2>1, <2>2, <2>3, GoOnStep
<1>9. ASSUME NEW r \in Requests, NEW a \in Amounts \cup {0}, BillCharge(r, a) \/ SettleAgent(r, a)
      PROVE  SessionsCurrent' /\ IsFiniteSet(OpenExceptions')
  <2>1. /\ req' = [req EXCEPT ![r] = req[r]] /\ req[r].pc = "idle" /\ Overlaps /\ UNCHANGED exc
    BY <1>1, <1>9 DEF BillCharge, SettleAgent, TypeOK
  <2>2. Current(req[r], revenue', cost', exc', OpenExceptions')
    BY <2>1, IdleIsCurrent
  <2> QED BY <1>1, <1>2, <2>1, <2>2, BeginStep
<1>10. ASSUME NEW r \in Requests, NEW x \in Exceptions, CreateException(r, x)
       PROVE  SessionsCurrent' /\ IsFiniteSet(OpenExceptions')
  <2>1. /\ req' = [req EXCEPT ![r] = req[r]] /\ req[r].pc = "idle" /\ Overlaps
        /\ \A y \in Exceptions : y # x => exc'[y] = exc[y]
    BY <1>1, <1>10 DEF CreateException, TypeOK
  <2>2. Current(req[r], revenue', cost', exc', OpenExceptions')
    BY <2>1, IdleIsCurrent
  <2>3. IsFiniteSet(OpenExceptions')
    BY <1>1, <2>1, OpenStaysFinite
  <2> QED BY <1>1, <2>1, <2>2, <2>3, BeginStep
<1>11. ASSUME NEW r \in Requests, NEW x \in Exceptions, NEW status \in UserStatuses, UpdateException(r, x, status)
       PROVE  SessionsCurrent' /\ IsFiniteSet(OpenExceptions')
  <2> DEFINE s == [Idle EXCEPT !.pc = "updating", !.x = x, !.seen = exc[x], !.status = status]
  <2>1. s.pc = "updating"
    BY DEF Idle
  <2>2. req' = [req EXCEPT ![r] = s] /\ Overlaps /\ UNCHANGED exc
    BY <1>11 DEF UpdateException
  <2> HIDE DEF s
  <2>3. Current(s, revenue', cost', exc', OpenExceptions')
    BY <2>1, IdleIsCurrent
  <2> QED BY <1>1, <1>2, <2>2, <2>3, BeginStep
<1> QED BY <1>3, <1>4, <1>5, <1>6, <1>7, <1>8, <1>9, <1>10, <1>11 DEF Next

\* The commit of a line whose session is current leaves the flag right.
LEMMA CommitRestores ==
    ASSUME WatchInv, NEW r \in Requests, ~overlapped, req[r].pc = "synced", Commit(r)
    PROVE  /\ Cardinality(OpenExceptions') <= 1
           /\ cost' - revenue' > HalfCent => OpenExceptions' # {}
           /\ cost' - revenue' < HalfCent => OpenExceptions' = {}
<1> DEFINE s == req[r]
<1>1. /\ s \in Session /\ s.revenue \in Nat /\ s.cost \in Nat /\ s.revenue = revenue + Own(s, "revenue")
      /\ s.cost = cost + Own(s, "cost") /\ Decided(s, exc, OpenExceptions) /\ exc \in [Exceptions -> ExceptionRow]
  BY DEF WatchInv, Inv, TypeOK, Session, SessionsCurrent, Current, Sees
<1>2. revenue' = s.revenue /\ cost' = s.cost
  BY <1>1 DEF Commit
<1>3. \A x \in Exceptions : exc'[x] = IF x = s.x THEN After(s, exc[x]) ELSE exc[x]
  BY DEF Commit
<1>4. \A x \in Exceptions : After(s, exc[x]).status = IF s.status \in {"none", s.seen.status} THEN exc[x].status ELSE s.status
  BY DEF After
<1>5. \A x \in Exceptions :
         exc'[x].status = IF x = s.x /\ s.status \notin {"none", s.seen.status} THEN s.status ELSE exc[x].status
  BY <1>3, <1>4
<1>6. \A x : Cardinality({x}) = 1
  BY FS_Singleton
<1>7. Cardinality({}) = 0
  BY FS_EmptySet
<1>8. /\ FALSE \in Verdicts(s) => ~(cost' - revenue' > HalfCent)
      /\ TRUE \in Verdicts(s) => ~(cost' - revenue' < HalfCent)
  BY <1>2 DEF Verdicts, Loss
<1>9. CASE /\ s.status = "OPEN" /\ s.seen = NoException /\ TRUE \in Verdicts(s)
           /\ s.x \in Exceptions /\ exc[s.x] = NoException /\ OpenExceptions = {}
  <2>1. s.seen.status = "NONE"
    BY <1>9 DEF NoException
  <2>2. OpenExceptions' = {s.x}
    BY <1>5, <1>9, <2>1 DEF OpenExceptions, OpenStatus
  <2>3. Cardinality(OpenExceptions') = 1 /\ OpenExceptions' # {}
    BY <1>6, <2>2
  <2> QED BY <1>8, <1>9, <2>3
<1>10. CASE s.x \in Exceptions /\ OpenExceptions = {s.x} /\ s.status = "none" /\ TRUE \in Verdicts(s)
  <2>1. OpenExceptions' = {s.x}
    BY <1>5, <1>10 DEF OpenExceptions
  <2>2. Cardinality(OpenExceptions') = 1 /\ OpenExceptions' # {}
    BY <1>6, <2>1
  <2> QED BY <1>8, <1>10, <2>2
<1>11. CASE /\ s.x \in Exceptions /\ OpenExceptions = {s.x} /\ s.seen = exc[s.x]
            /\ s.status = "RESOLVED" /\ FALSE \in Verdicts(s)
  <2>1. exc[s.x].status \in OpenStatus
    BY <1>11 DEF OpenExceptions
  <2>2. OpenExceptions' = {}
    BY <1>5, <1>11, <2>1 DEF OpenExceptions, OpenStatus
  <2> QED BY <1>7, <1>8, <1>11, <2>2
<1>12. CASE s.status = "none" /\ FALSE \in Verdicts(s) /\ OpenExceptions = {}
  <2>1. OpenExceptions' = {}
    BY <1>5, <1>12 DEF OpenExceptions
  <2> QED BY <1>7, <1>8, <1>12, <2>1
<1> QED BY <1>1, <1>9, <1>10, <1>11, <1>12 DEF Decided

\* While requests come one after the other, every ledger line that is committed
\* leaves one open exception when the shipment loses more than half a cent, none
\* when it loses less and at most one at exactly that, for any amounts,
\* exceptions and number of requests.
THEOREM FlagRestored == Spec => SyncRestoresFlag
<1> DEFINE A == \A r \in Requests :
                  ~overlapped /\ req[r].pc = "synced" /\ req'[r].pc = "idle" /\ <<revenue, cost>>' # <<revenue, cost>> =>
                      /\ Cardinality(OpenExceptions') <= 1
                      /\ cost' - revenue' > HalfCent => OpenExceptions' # {}
                      /\ cost' - revenue' < HalfCent => OpenExceptions' = {}
<1>1. WatchInv /\ [Next]_vars => [A]_vars
  <2> SUFFICES ASSUME WatchInv, Next, NEW r \in Requests, ~overlapped, req[r].pc = "synced", req'[r].pc = "idle",
                      <<revenue, cost>>' # <<revenue, cost>>
               PROVE  /\ Cardinality(OpenExceptions') <= 1
                      /\ cost' - revenue' > HalfCent => OpenExceptions' # {}
                      /\ cost' - revenue' < HalfCent => OpenExceptions' = {}
    BY DEF A
  <2>1. req \in [Requests -> Session]
    BY DEF WatchInv, Inv, TypeOK
  <2>2. ASSUME NEW q \in Requests, Commit(q) PROVE q = r
    BY <2>2 DEF Commit, WatchInv, SessionsCurrent
  <2>3. \E q \in Requests : Commit(q)
    <3>1. ASSUME NEW q \in Requests,
                 \/ \E kind \in {"revenue", "cost"}, a \in Amounts : AddLine(q, kind, a)
                 \/ SumRevenue(q) \/ SumCost(q) \/ SyncException(q) \/ Rollback(q)
                 \/ \E x \in Exceptions : CreateException(q, x)
                 \/ \E x \in Exceptions, status \in UserStatuses : UpdateException(q, x, status)
          PROVE  FALSE
      BY <3>1 DEF AddLine, SumRevenue, SumCost, SyncException, Rollback, CreateException, UpdateException
    <3>2. ASSUME NEW q \in Requests, NEW a \in Amounts \cup {0}, BillCharge(q, a) \/ SettleAgent(q, a) PROVE FALSE
      BY <3>2 DEF BillCharge, SettleAgent
    <3> QED BY <3>1, <3>2 DEF Next
  <2> QED BY <2>2, <2>3, CommitRestores
<1> QED BY WatchInit, WatchNext, <1>1, PTL DEF Spec, SyncRestoresFlag

-----------------------------------------------------------------------------
(* The shares of a consolidation                                            *)

LEMMA DivisionFacts ==
    ASSUME NEW n \in Int, NEW d \in Nat, d > 0
    PROVE  n \div d \in Int /\ n % d \in 0 .. d - 1 /\ n = d * (n \div d) + (n % d)
BY SMT

LEMMA TimesKeepsOrder ==
    ASSUME NEW k \in Nat, NEW a \in Int, NEW b \in Int, a <= b PROVE k * a <= k * b
BY SMT

LEMMA DividesOut ==
    ASSUME NEW k \in Nat, k > 0, NEW a \in Int, k * a < k PROVE a < 1
BY SMT

\* quantize(ROUND_HALF_UP) moves a quotient by at most one half.
LEMMA HalfUpIsClose ==
    ASSUME NEW n \in Int, NEW d \in Nat, d > 0
    PROVE  /\ HalfUp(n, d) \in Int
           /\ 2 * n - d <= 2 * (d * HalfUp(n, d)) /\ 2 * (d * HalfUp(n, d)) <= 2 * n + d
<1> DEFINE q == (2 * n + d) \div (2 * d)
           m == (2 * n + d) % (2 * d)
<1>1. 2 * n + d \in Int /\ 2 * d \in Nat /\ 2 * d > 0
  OBVIOUS
<1>2. q \in Int /\ m \in 0 .. (2 * d) - 1 /\ 2 * n + d = (2 * d) * q + m
  BY <1>1, DivisionFacts
<1>3. q = HalfUp(n, d)
  BY DEF HalfUp
<1> HIDE DEF q, m
<1>4. (2 * d) * q = 2 * (d * q)
  BY <1>2
<1> QED BY <1>2, <1>3, <1>4

\* The division of two Decimals moves it by at most half a unit of the scale.
LEMMA RatioIsClose ==
    ASSUME NEW n \in Nat, NEW d \in Nat, d > 0
    PROVE  /\ Ratio(n, d) \in Int
           /\ 2 * (n * Scale) - d <= 2 * (d * Ratio(n, d)) /\ 2 * (d * Ratio(n, d)) <= 2 * (n * Scale) + d
<1> DEFINE N == n * Scale
           q == N \div d
           rest == N % d
<1>1. N \in Nat
  BY ScaleAssumption
<1>2. q \in Int /\ rest \in 0 .. d - 1 /\ N = d * q + rest
  <2> HIDE DEF N
  <2> QED BY <1>1, DivisionFacts
<1>3. Ratio(n, d) = IF 2 * rest > d \/ (2 * rest = d /\ q % 2 = 1) THEN q + 1 ELSE q
  BY DEF Ratio
<1> HIDE DEF N, q, rest
<1>4. d * (q + 1) = d * q + d /\ d * q \in Int
  BY <1>2
<1>5. CASE 2 * rest > d \/ (2 * rest = d /\ q % 2 = 1)
  <2>1. Ratio(n, d) = q + 1 /\ 2 * rest >= d
    BY <1>2, <1>3, <1>5
  <2>2. 2 * N - d <= 2 * (d * (q + 1)) /\ 2 * (d * (q + 1)) <= 2 * N + d
    BY <1>1, <1>2, <1>4, <2>1
  <2> QED BY <1>2, <2>1, <2>2 DEF N
<1>6. CASE ~(2 * rest > d \/ (2 * rest = d /\ q % 2 = 1))
  <2>1. Ratio(n, d) = q /\ 2 * rest <= d
    BY <1>2, <1>3, <1>6
  <2>2. 2 * N - d <= 2 * (d * q) /\ 2 * (d * q) <= 2 * N + d
    BY <1>1, <1>2, <1>4, <2>1
  <2> QED BY <1>2, <2>1, <2>2 DEF N
<1> QED BY <1>5, <1>6

\* A share is within half a cent of the exact one while the cost in cents times
\* the total weight is less than the precision of the quotient.
LEMMA ShareIsClose ==
    ASSUME NEW owed \in Nat, NEW w \in Nat, NEW T \in Nat, T > 0, owed * T < Scale
    PROVE  /\ Share(owed, w, T) \in Int
           /\ 2 * (Share(owed, w, T) * T) - 2 * (owed * w) <= T
           /\ 2 * (owed * w) - 2 * (Share(owed, w, T) * T) <= T
<1> DEFINE R == Ratio(w, T)
           a == HalfUp(owed * R, Scale)
           U == a * T
           V == owed * w
           E == owed * (T * R)
           K == owed * T
<1>1. Scale \in Nat /\ Scale > 0
  BY ScaleAssumption
<1>2. /\ R \in Int
      /\ 2 * (w * Scale) - T <= 2 * (T * R) /\ 2 * (T * R) <= 2 * (w * Scale) + T
  BY RatioIsClose
<1>3. Share(owed, w, T) = a
  BY DEF Share
<1> HIDE DEF R
<1>4. owed * R \in Int
  BY <1>2
<1>5. /\ a \in Int
      /\ 2 * (owed * R) - Scale <= 2 * (Scale * a) /\ 2 * (Scale * a) <= 2 * (owed * R) + Scale
  BY <1>1, <1>4, HalfUpIsClose
<1> HIDE DEF a
<1>6. U \in Int /\ V \in Int /\ E \in Int /\ K \in Int /\ K < Scale
  BY <1>2, <1>5
<1>7. /\ T * (2 * (owed * R) - Scale) <= T * (2 * (Scale * a))
      /\ T * (2 * (Scale * a)) <= T * (2 * (owed * R) + Scale)
  <2>1. 2 * (owed * R) - Scale \in Int /\ 2 * (Scale * a) \in Int /\ 2 * (owed * R) + Scale \in Int
    BY <1>1, <1>4, <1>5
  <2> QED BY <1>5, <2>1, TimesKeepsOrder
<1>8. /\ T * (2 * (Scale * a)) = Scale * (2 * U)
      /\ T * (2 * (owed * R) - Scale) = 2 * E - Scale * T
      /\ T * (2 * (owed * R) + Scale) = 2 * E + Scale * T
  BY <1>1, <1>2, <1>5
<1>9. /\ owed * (2 * (w * Scale) - T) <= owed * (2 * (T * R))
      /\ owed * (2 * (T * R)) <= owed * (2 * (w * Scale) + T)
  <2>1. 2 * (w * Scale) - T \in Int /\ 2 * (T * R) \in Int /\ 2 * (w * Scale) + T \in Int
    BY <1>1, <1>2
  <2> QED BY <1>2, <2>1, TimesKeepsOrder
<1>10. /\ owed * (2 * (T * R)) = 2 * E
       /\ owed * (2 * (w * Scale) - T) = Scale * (2 * V) - K
       /\ owed * (2 * (w * Scale) + T) = Scale * (2 * V) + K
  BY <1>1, <1>2
<1> HIDE DEF U, V, E, K
<1>11. /\ Scale * ((2 * U - 2 * V) - T) = (Scale * (2 * U) - Scale * (2 * V)) - Scale * T
       /\ Scale * ((2 * V - 2 * U) - T) = (Scale * (2 * V) - Scale * (2 * U)) - Scale * T
       /\ Scale * (2 * U) \in Int /\ Scale * (2 * V) \in Int /\ Scale * T \in Int
  BY <1>1, <1>6
<1>12. Scale * ((2 * U - 2 * V) - T) < Scale /\ Scale * ((2 * V - 2 * U) - T) < Scale
  BY <1>1, <1>6, <1>7, <1>8, <1>9, <1>10, <1>11
<1>13. (2 * U - 2 * V) - T < 1 /\ (2 * V - 2 * U) - T < 1
  BY <1>1, <1>6, <1>12, DividesOut
<1>14. 2 * U - 2 * V <= T /\ 2 * V - 2 * U <= T
  BY <1>6, <1>13
<1> QED BY <1>3, <1>5, <1>14 DEF U, V

\* SumTo adds the elements of a sequence one after the other.
LEMMA SumToFacts ==
    ASSUME NEW n \in Nat, NEW s \in [1 .. n -> Int]
    PROVE  /\ Len(s) = n /\ SumTo(s, 0) = 0
           /\ \A i \in 0 .. n : SumTo(s, i) \in Int
           /\ \A i \in 1 .. n : SumTo(s, i) = SumTo(s, i - 1) + s[i]
<1>1. s \in Seq(Int) /\ Len(s) = n
  OBVIOUS
<1>2. IsSum(Sums(s, n), s, n)
  BY PrefixSums
<1>3. \A i : SumTo(s, i) = Sums(s, n)[i]
  BY <1>1 DEF SumTo, Sums
<1> DEFINE c == Sums(s, n)
<1>4. c \in [0 .. n -> Int] /\ c[0] = 0 /\ \A i \in 1 .. n : c[i] = c[i - 1] + s[i]
  BY <1>2 DEF IsSum
<1> HIDE DEF c
<1>5. \A i : SumTo(s, i) = c[i]
  BY <1>3 DEF c
<1>6. \A i \in 0 .. n : SumTo(s, i) \in Int
  BY <1>4, <1>5
<1>7. \A i \in 1 .. n : SumTo(s, i) = SumTo(s, i - 1) + s[i]
  BY <1>4, <1>5
<1>8. SumTo(s, 0) = 0
  BY <1>4, <1>5
<1> QED BY <1>1, <1>6, <1>7, <1>8

\* Sums of the same numbers are the same.
LEMMA SumsAgree ==
    ASSUME NEW n \in Nat, NEW s \in [1 .. n -> Int], NEW t \in [1 .. n -> Int],
           NEW m \in 0 .. n, \A i \in 1 .. m : s[i] = t[i]
    PROVE  SumTo(s, m) = SumTo(t, m)
<1> DEFINE S == {k \in 0 .. m : SumTo(s, k) = SumTo(t, k)}
<1>1. m \in Nat /\ 0 \in S
  BY SumToFacts
<1>2. ASSUME NEW k \in 0 .. m, k # m, k \in S PROVE k + 1 \in S
  <2>1. k + 1 \in 1 .. m /\ k + 1 \in 1 .. n /\ (k + 1) - 1 = k /\ k + 1 \in 0 .. m
    BY <1>2
  <2>2. SumTo(s, k + 1) = SumTo(s, k) + s[k + 1] /\ SumTo(t, k + 1) = SumTo(t, k) + t[k + 1]
    BY <2>1, SumToFacts
  <2> QED BY <1>2, <2>1, <2>2
<1>3. \A k \in 0 .. m : k \in S
  <2> HIDE DEF S
  <2> QED BY <1>1, <1>2, UpTo
<1> QED BY <1>1, <1>3

\* The house bills of a consolidation weigh what get_chargeable_weight says.
HouseBills(n) == [1 .. n -> [weight : Nat, cbm : Nat]]

LEMMA WeightFacts ==
    ASSUME NEW n \in Nat, NEW hbls \in HouseBills(n)
    PROVE  Len(hbls) = n /\ Weights(hbls) \in [1 .. n -> Nat] /\ DOMAIN hbls = 1 .. n
<1>1. Len(hbls) = n /\ DOMAIN hbls = 1 .. n
  BY DEF HouseBills
<1>2. \A i \in 1 .. n : ChargeableWeight(hbls[i]) \in Nat
  BY DEF HouseBills, ChargeableWeight
<1> QED BY <1>1, <1>2 DEF Weights

\* A part of the weights is no more than all of them.
LEMMA WeightsAdd ==
    ASSUME NEW n \in Nat, NEW w \in [1 .. n -> Nat]
    PROVE  \A k \in 0 .. n : SumTo(w, k) \in Nat
<1> DEFINE S == {k \in 0 .. n : SumTo(w, k) \in Nat}
<1>1. w \in [1 .. n -> Int]
  OBVIOUS
<1>2. 0 \in S
  BY <1>1, SumToFacts
<1>3. ASSUME NEW k \in 0 .. n, k # n, k \in S PROVE k + 1 \in S
  <2>1. k + 1 \in 1 .. n /\ (k + 1) - 1 = k /\ k + 1 \in 0 .. n
    BY <1>3
  <2>2. SumTo(w, k + 1) = SumTo(w, k) + w[k + 1] /\ w[k + 1] \in Nat
    BY <1>1, <2>1, SumToFacts
  <2> QED BY <1>3, <2>1, <2>2
<1>4. \A k \in 0 .. n : k \in S
  <2> HIDE DEF S
  <2> QED BY <1>2, <1>3, UpTo
<1> QED BY <1>4

\* Together, k shares are within k half cents of their exact part of the cost.
LEMMA SharesAreClose ==
    ASSUME NEW n \in Nat, NEW w \in [1 .. n -> Nat], NEW shares \in [1 .. n -> Int],
           NEW owed \in Nat, NEW T \in Nat,
           \A i \in 1 .. n : /\ 2 * (shares[i] * T) - 2 * (owed * w[i]) <= T
                             /\ 2 * (owed * w[i]) - 2 * (shares[i] * T) <= T
    PROVE  \A k \in 0 .. n : /\ 2 * (SumTo(shares, k) * T) - 2 * (owed * SumTo(w, k)) <= k * T
                             /\ 2 * (owed * SumTo(w, k)) - 2 * (SumTo(shares, k) * T) <= k * T
<1> DEFINE Close(k) == /\ 2 * (SumTo(shares, k) * T) - 2 * (owed * SumTo(w, k)) <= k * T
                       /\ 2 * (owed * SumTo(w, k)) - 2 * (SumTo(shares, k) * T) <= k * T
           S == {k \in 0 .. n : Close(k)}
<1>1. w \in [1 .. n -> Int]
  OBVIOUS
<1>2. 0 \in S
  <2>1. SumTo(shares, 0) = 0 /\ SumTo(w, 0) = 0
    BY <1>1, SumToFacts
  <2>2. Close(0)
    BY <2>1
  <2> QED BY <2>2
<1>3. ASSUME NEW k \in 0 .. n, k # n, k \in S PROVE k + 1 \in S
  <2>1. k + 1 \in 1 .. n /\ (k + 1) - 1 = k /\ k + 1 \in 0 .. n /\ k \in Nat
    BY <1>3
  <2> DEFINE a == SumTo(shares, k)
             b == SumTo(w, k)
             x == shares[k + 1]
             y == w[k + 1]
  <2>2. a \in Int /\ b \in Int /\ x \in Int /\ y \in Int
    BY <1>1, <2>1, SumToFacts
  <2>3. SumTo(shares, k + 1) = a + x /\ SumTo(w, k + 1) = b + y
    BY <1>1, <2>1, SumToFacts
  <2>4. 2 * (a * T) - 2 * (owed * b) <= k * T /\ 2 * (owed * b) - 2 * (a * T) <= k * T
    BY <1>3
  <2>5. 2 * (x * T) - 2 * (owed * y) <= T /\ 2 * (owed * y) - 2 * (x * T) <= T
    BY <2>1
  <2> HIDE DEF a, b, x, y
  <2>6. /\ (a + x) * T = a * T + x * T /\ owed * (b + y) = owed * b + owed * y
        /\ (k + 1) * T = k * T + T
        /\ a * T \in Int /\ x * T \in Int /\ owed * b \in Int /\ owed * y \in Int /\ k * T \in Int
    BY <2>1, <2>2
  <2>7. /\ 2 * ((a + x) * T) - 2 * (owed * (b + y)) <= (k + 1) * T
        /\ 2 * (owed * (b + y)) - 2 * ((a + x) * T) <= (k + 1) * T
    <3> DEFINE A == a * T
               X == x * T
               B == owed * b
               Y == owed * y
               M == k * T
    <3>1. A \in Int /\ X \in Int /\ B \in Int /\ Y \in Int /\ M \in Int
      BY <2>6
    <3>2. 2 * A - 2 * B <= M /\ 2 * B - 2 * A <= M /\ 2 * X - 2 * Y <= T /\ 2 * Y - 2 * X <= T
      BY <2>4, <2>5
    <3>3. (a + x) * T = A + X /\ owed * (b + y) = B + Y /\ (k + 1) * T = M + T
      BY <2>6
    <3> HIDE DEF A, X, B, Y, M
    <3>4. 2 * (A + X) - 2 * (B + Y) <= M + T /\ 2 * (B + Y) - 2 * (A + X) <= M + T
      BY <3>1, <3>2
    <3> QED BY <3>3, <3>4
  <2>8. Close(k + 1)
    BY <2>3, <2>7
  <2> QED BY <2>1, <2>8
<1>4. \A k \in 0 .. n : k \in S
  <2> HIDE DEF S
  <2> QED BY <1>2, <1>3, UpTo
<1> QED BY <1>4

\* What calculate_cost_allocation charges the house bills of any consolidation
\* adds up to the cost of the master bill.
LEMMA AllocationTotal ==
    ASSUME NEW n \in Nat, n > 0, NEW shares \in [1 .. n -> Int], NEW a, NEW owed \in Int,
           a = [i \in 1 .. n |-> a[i]], a[n] = owed - SumTo(shares, n - 1),
           \A i \in 1 .. n : i # n => a[i] = shares[i]
    PROVE  a \in [1 .. n -> Int] /\ Total(a) = owed
<1>1. n \in 1 .. n /\ n - 1 \in 0 .. n /\ n - 1 \in Nat
  OBVIOUS
<1>2. SumTo(shares, n - 1) \in Int
  BY <1>1, SumToFacts
<1>3. a[n] = owed - SumTo(shares, n - 1) /\ \A i \in 1 .. n : i # n => a[i] = shares[i]
  OBVIOUS
<1>4. a \in [1 .. n -> Int]
  <2>1. \A i \in 1 .. n : a[i] \in Int
    BY <1>2, <1>3
  <2> QED BY <2>1
<1>5. \A i \in 1 .. n - 1 : i \in 1 .. n /\ i # n
  OBVIOUS
<1>6. SumTo(a, n - 1) = SumTo(shares, n - 1)
  BY <1>1, <1>3, <1>4, <1>5, SumsAgree
<1>7. Len(a) = n /\ SumTo(a, n) = SumTo(a, n - 1) + a[n]
  BY <1>1, <1>4, SumToFacts
<1> QED BY <1>2, <1>3, <1>4, <1>6, <1>7 DEF Total

\* For any consolidation and cost, the shares of calculate_cost_allocation add
\* up to the cost of the master bill to the cent; each is within half a cent of
\* the exact share, the last within half a cent for each of the others, while
\* the cost in cents times the total weight stays below the precision of a
\* Decimal quotient.
THEOREM AllocationsAddUp ==
    ASSUME NEW n \in Nat, n > 0, NEW hbls \in HouseBills(n), NEW owed \in Nat,
           owed * Total(Weights(hbls)) < Scale
    PROVE  AddsUp(owed, hbls)
<1> DEFINE w == Weights(hbls)
           T == Total(w)
           shares == [i \in 1 .. n |-> Share(owed, w[i], T)]
           a == Allocate(owed, hbls)
<1>1. Len(hbls) = n /\ w \in [1 .. n -> Nat] /\ w \in [1 .. n -> Int] /\ DOMAIN hbls = 1 .. n
  BY WeightFacts
<1>2. a = [i \in 1 .. n |-> IF i = n THEN owed - SumTo(shares, i - 1) ELSE shares[i]]
  BY <1>1 DEF Allocate
<1> HIDE DEF w, a
<1>3. T = SumTo(w, n) /\ T \in Nat
  <2>1. Len(w) = n
    BY <1>1, SumToFacts
  <2>2. T = SumTo(w, n)
    BY <2>1 DEF Total
  <2>3. SumTo(w, n) \in Nat
    BY <1>1, WeightsAdd
  <2> QED BY <2>2, <2>3
<1>4. owed * T < Scale
  BY DEF w
<1> HIDE DEF T
<1>5. \A i \in 1 .. n : /\ Share(owed, w[i], T) \in Int
                        /\ T > 0 => /\ 2 * (Share(owed, w[i], T) * T) - 2 * (owed * w[i]) <= T
                                    /\ 2 * (owed * w[i]) - 2 * (Share(owed, w[i], T) * T) <= T
  <2> SUFFICES ASSUME NEW i \in 1 .. n
               PROVE  /\ Share(owed, w[i], T) \in Int
                      /\ T > 0 => /\ 2 * (Share(owed, w[i], T) * T) - 2 * (owed * w[i]) <= T
                                  /\ 2 * (owed * w[i]) - 2 * (Share(owed, w[i], T) * T) <= T
    OBVIOUS
  <2>1. w[i] \in Nat
    BY <1>1
  <2>2. CASE T > 0
    BY <1>3, <1>4, <2>1, <2>2, ShareIsClose
  <2>3. CASE ~(T > 0)
    BY <1>3, <2>3 DEF Share
  <2> QED BY <2>2, <2>3
<1>6. shares \in [1 .. n -> Int] /\ \A i \in 1 .. n : shares[i] = Share(owed, w[i], T)
  BY <1>5
<1> HIDE DEF shares
<1>7. a \in [1 .. n -> Int] /\ Total(a) = owed
  <2>1. owed \in Int /\ n \in 1 .. n
    OBVIOUS
  <2>2. /\ a = [i \in 1 .. n |-> a[i]] /\ a[n] = owed - SumTo(shares, n - 1)
        /\ \A i \in 1 .. n : i # n => a[i] = shares[i]
    BY <1>2, <2>1
  <2> QED BY <1>6, <2>1, <2>2, AllocationTotal
<1>8. ASSUME T > 0, NEW i \in 1 .. n
      PROVE  2 * Abs(a[i] * T - owed * w[i]) <= T * (IF i = n THEN n - 1 ELSE 1)
  <2>1. a[i] \in Int /\ w[i] \in Int /\ a[i] * T \in Int /\ owed * w[i] \in Int
    BY <1>1, <1>3, <1>7
  <2> DEFINE D == 2 * (a[i] * T) - 2 * (owed * w[i])
  <2>2. CASE i # n
    <3>1. a[i] = Share(owed, w[i], T)
      BY <1>2, <1>6, <2>2
    <3>2. 2 * (a[i] * T) - 2 * (owed * w[i]) <= T /\ 2 * (owed * w[i]) - 2 * (a[i] * T) <= T
      BY <1>5, <1>8, <3>1
    <3>3. 2 * Abs(a[i] * T - owed * w[i]) <= T
      BY <1>3, <2>1, <3>2 DEF Abs
    <3> QED BY <1>3, <2>2, <3>3
  <2>3. CASE i = n
    <3>1. n - 1 \in 0 .. n /\ n - 1 \in Nat /\ n \in 1 .. n
      OBVIOUS
    <3> DEFINE p == SumTo(shares, n - 1)
               v == SumTo(w, n - 1)
    <3>2. p \in Int /\ v \in Int /\ w[n] \in Int
      BY <1>1, <1>6, <3>1, SumToFacts
    <3>3. a[n] = owed - p /\ T = v + w[n]
      BY <1>1, <1>2, <1>3, <3>1, SumToFacts
    <3>4. \A j \in 1 .. n : /\ 2 * (shares[j] * T) - 2 * (owed * w[j]) <= T
                            /\ 2 * (owed * w[j]) - 2 * (shares[j] * T) <= T
      BY <1>5, <1>6, <1>8
    <3>5. 2 * (p * T) - 2 * (owed * v) <= (n - 1) * T /\ 2 * (owed * v) - 2 * (p * T) <= (n - 1) * T
      BY <1>1, <1>3, <1>6, <3>1, <3>4, SharesAreClose
    <3> HIDE DEF p, v
    <3>6. w[n] = T - v
      BY <1>3, <3>2, <3>3
    <3>7. /\ (owed - p) * T = owed * T - p * T
          /\ owed * (T - v) = owed * T - owed * v
          /\ (n - 1) * T = T * (n - 1)
          /\ p * T \in Int /\ owed * v \in Int /\ owed * T \in Int /\ T * (n - 1) \in Int
      BY <1>3, <3>1, <3>2
    <3>8. a[n] * T - owed * w[n] = owed * v - p * T
      BY <3>3, <3>6, <3>7
    <3>9. 2 * Abs(owed * v - p * T) <= T * (n - 1)
      BY <3>5, <3>7 DEF Abs
    <3> QED BY <2>3, <3>8, <3>9
  <2> QED BY <2>2, <2>3
<1>9. Total(w) = T
  BY DEF T
<1> QED BY <1>1, <1>7, <1>8, <1>9 DEF AddsUp, w, a
=============================================================================
