------------------------------- MODULE Ledger -------------------------------
(***************************************************************************)
(* Corrections of the financial ledger: reverse_and_correct_entry           *)
(* (app/modules/financial/service.py behind                                *)
(* app/api/v1/endpoints/financial_profile.py).                             *)
(*                                                                         *)
(* A request reads the entry without a lock, then its flush takes the row   *)
(* with the UPDATE to REVERSED and inserts the reversal and the corrected   *)
(* entry; the endpoint commits.  Rows are numbered in commit order.         *)
(***************************************************************************)
EXTENDS Integers, FiniteSets

CONSTANTS
    Originals,      \* entries the other services posted, a sequence of amounts
    Corrections,    \* [debit, credit] a correction may carry
    MaxEntries,     \* bound on the rows of financial_entries
    Correctors      \* HTTP requests that may be in flight together

ASSUME LedgerAssumption ==
    /\ MaxEntries \in Nat
    /\ \E n \in 0 .. MaxEntries : Originals \in [1 .. n -> [debit : Nat, credit : Nat]]
    /\ Corrections \subseteq [debit : Nat, credit : Nat]

Ids == 1 .. MaxEntries

VARIABLES
    entry,          \* financial_entries table
    last,           \* number of its rows
    correction      \* the requests' sessions

ledgerVars == <<entry, last, correction>>

Status == {"NONE", "POSTED", "REVERSED", "REVERSAL"}
Entry == [status : Status, debit : Nat, credit : Nat, of : Ids \cup {0}]
NoEntry == [status |-> "NONE", debit |-> 0, credit |-> 0, of |-> 0]

\* A session: the entry as loaded (row), and the amounts of the correction.
CorrectionState == [pc : {"idle", "loaded", "flushed"}, e : Ids \cup {0}, row : Entry,
                    debit : Nat, credit : Nat]
NoCorrection == [pc |-> "idle", e |-> 0, row |-> NoEntry, debit |-> 0, credit |-> 0]

LedgerInit ==
    /\ entry = [e \in Ids |-> IF e \in DOMAIN Originals
                              THEN [NoEntry EXCEPT !.status = "POSTED", !.debit = Originals[e].debit,
                                                   !.credit = Originals[e].credit]
                              ELSE NoEntry]
    /\ last = Cardinality(DOMAIN Originals)
    /\ correction = [r \in Correctors |-> NoCorrection]

Reversible(e) == entry[e].status = "POSTED"

LoadEntry(r, e, amounts) ==
    /\ correction[r].pc = "idle"
    /\ Reversible(e)
    /\ correction' = [correction EXCEPT ![r] =
                          [pc |-> "loaded", e |-> e, row |-> entry[e],
                           debit |-> amounts.debit, credit |-> amounts.credit]]
    /\ UNCHANGED <<entry, last>>

FlushReversal(r) ==
    /\ correction[r].pc = "loaded"
    /\ \A q \in Correctors : correction[q].pc = "flushed" => correction[q].e # correction[r].e
    /\ correction' = [correction EXCEPT ![r].pc = "flushed"]
    /\ UNCHANGED <<entry, last>>

ReversalOfPrevious(s) ==
    [status |-> "REVERSAL", debit |-> s.row.credit, credit |-> s.row.debit, of |-> s.row.of]
SameSideReversal(s) ==
    [status |-> "REVERSAL", debit |-> s.row.debit, credit |-> s.row.credit, of |-> s.e]

\* "exact opposite debits/credits"
ReversalEntry(s) ==
    [status |-> "REVERSAL", debit |-> s.row.credit, credit |-> s.row.debit, of |-> s.e]

CorrectedOfOriginal(s) ==
    [status |-> "POSTED", debit |-> s.debit, credit |-> s.credit, of |-> s.e]
CorrectedInPlace(s) ==
    [status |-> "POSTED", debit |-> s.row.debit + s.debit, credit |-> s.row.credit + s.credit, of |-> last + 1]

CorrectedEntry(s) ==
    [status |-> "POSTED", debit |-> s.debit, credit |-> s.credit, of |-> last + 1]

CommitReversal(r) ==
    LET s == correction[r]
    IN  /\ s.pc = "flushed"
        /\ last + 2 <= MaxEntries
        /\ entry' = [e \in Ids |->
              IF e = s.e THEN [entry[e] EXCEPT !.status = "REVERSED"]
              ELSE IF e = last + 1 THEN ReversalEntry(s)
              ELSE IF e = last + 2 THEN CorrectedEntry(s) ELSE entry[e]]
        /\ last' = last + 2
        /\ correction' = [correction EXCEPT ![r] = NoCorrection]

RollbackReversal(r) ==
    /\ correction[r].pc # "idle"
    /\ correction' = [correction EXCEPT ![r] = NoCorrection]
    /\ UNCHANGED <<entry, last>>

LedgerNext ==
    \E r \in Correctors :
        \/ \E e \in Ids, a \in Corrections : LoadEntry(r, e, a)
        \/ FlushReversal(r) \/ CommitReversal(r) \/ RollbackReversal(r)

LedgerSpec == LedgerInit /\ [][LedgerNext]_ledgerVars

-----------------------------------------------------------------------------
(* Properties                                                              *)

\* The table and the sessions have their types, and rows are numbered 1..last.
LedgerTypeOK ==
    /\ entry \in [Ids -> Entry]
    /\ last \in 0 .. MaxEntries
    /\ \A e \in Ids : entry[e].status = "NONE" <=> e > last
    /\ correction \in [Correctors -> CorrectionState]

Cancels(a, b) == a.debit = b.credit /\ a.credit = b.debit

\* However requests interleave, the trail of a correction is complete: a
\* reversal names a REVERSED entry and cancels it to the cent, and a corrected
\* entry names a reversal.
TrailIsComplete ==
    \A e \in Ids : entry[e].of # 0 =>
        /\ entry[e].of < e
        /\ entry[e].status = "REVERSAL" =>
             entry[entry[e].of].status = "REVERSED" /\ Cancels(entry[e], entry[entry[e].of])
        /\ entry[e].status \in {"POSTED", "REVERSED"} => entry[entry[e].of].status = "REVERSAL"

\* However requests interleave, no reversed entry is without its reversal.
ReversedIsCancelled ==
    \A e \in Ids : entry[e].status = "REVERSED" =>
        \E x \in Ids : entry[x].status = "REVERSAL" /\ entry[x].of = e

\* "Financial entries are never updated": a correction changes no amount of an
\* entry and at most withdraws it from POSTED to REVERSED.
AmountsAreImmutable ==
    [][\A e \in Ids : entry[e].status # "NONE" =>
          /\ entry'[e].debit = entry[e].debit /\ entry'[e].credit = entry[e].credit
          /\ entry'[e].of = entry[e].of
          /\ entry'[e].status # entry[e].status =>
               entry[e].status = "POSTED" /\ entry'[e].status = "REVERSED"]_ledgerVars

\* The posting an entry goes back to.
Root(of) == LET root[e \in Ids] == IF of[e] = 0 THEN e ELSE root[of[e]] IN root
RootOf(x) == Root([e \in Ids |-> entry[e].of])[x]
Trail(p) == {e \in Ids : entry[e].status # "NONE" /\ RootOf(e) = p}

\* What the rows of S add up to, in the order of the table.
SumOfRows(f) == LET sum[n \in 0 .. MaxEntries] == IF n = 0 THEN 0 ELSE sum[n - 1] + f[n] IN sum[MaxEntries]
Net(S) == SumOfRows([e \in Ids |-> IF e \in S THEN entry[e].debit - entry[e].credit ELSE 0])
Postings == DOMAIN Originals

\* Postings one of whose entries two interleaved requests have both reversed.
ReversedTwice ==
    {e \in Ids : Cardinality({x \in Ids : entry[x].status = "REVERSAL" /\ entry[x].of = e}) > 1}
Contested == {RootOf(e) : e \in ReversedTwice}

\* "errors are corrected by reversing entry + creating correct entry": unless
\* two requests reversed the same entry, all the entries of a posting add up to
\* the only one that is in force, however often it was corrected.
BalanceIsInForce ==
    \A p \in Postings \ Contested :
        \E e \in Trail(p) :
            /\ {x \in Trail(p) : entry[x].status = "POSTED"} = {e}
            /\ Net(Trail(p)) = Net({e})

\* The ledger implements CorrectedLedger: a posting stands for what all of its
\* entries add up to.
Abstract == INSTANCE CorrectedLedger WITH
    inForce <- [p \in Postings |-> Net(Trail(p))],
    contested <- Contested,
    Values <- {Originals[p].debit - Originals[p].credit : p \in Postings}
              \cup {a.debit - a.credit : a \in Corrections}
Implements == Abstract!Spec
=============================================================================
