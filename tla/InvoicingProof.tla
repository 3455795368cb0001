--------------------------- MODULE InvoicingProof ---------------------------
(***************************************************************************)
(* Proofs about Invoicing, for any revenue ledger, amounts, threshold and    *)
(* number of concurrent requests.                                          *)
(*                                                                         *)
(* None of the properties is inductive alone, since a request acts on what   *)
(* it read some statements ago.  Knows says what such a session may rely on  *)
(* however others interleave: invoices stay and keep their totals, credits   *)
(* and approvals only grow.  Reserved says that the unique document number   *)
(* keeps two inserts apart.  Fits is the stronger knowledge of a session     *)
(* that has been alone: the row and the revenue lines are as it read them.   *)
(*                                                                         *)
(* The totals are sums over sets of lines.  SubsetSums is the recursive      *)
(* function behind them; OverSubsets, an induction over a set of subsets,    *)
(* gives its equations and what follows for sums of rounded amounts.         *)
(***************************************************************************)
EXTENDS Invoicing, FiniteSetTheorems, WellFoundedInduction, TLAPS

OnInvoice == {"approve", "send", "credit", "debit"}

\* A number without an invoice has nothing else either.
Unissued(i, table, credits, sent, signed) ==
    table[i].status = "NONE" =>
        table[i].lines = {} /\ table[i].total = 0 /\ credits[i] = 0 /\ sent[i] = 0 /\ i \notin signed

\* An invoice over the threshold that may be sent has been approved by somebody.
SignedOff(i, table, signed) ==
    table[i].status \in {"APPROVED", "SENT"} /\ table[i].total > Threshold => i \in signed

\* The numbers given out are the first ones.
GivenOut(table) ==
    \E n \in 0 .. MaxInvoices : \A i \in Numbers : table[i].status # "NONE" <=> i <= n

\* Every revenue line on an invoice is marked.
Marked(table, rev) == \A i \in Numbers : \A l \in table[i].lines : rev[l] = "INVOICED"

\* What a session may rely on although others commit between its statements:
\* invoices stay, their totals do not change, credits and approvals only grow.
Knows(s, table, credits, signed) ==
    /\ s.op \in OnInvoice =>
         s.i \in Numbers /\ table[s.i].status # "NONE" /\ s.row.total = table[s.i].total
    /\ s.op = "approve" => s.new.status = "APPROVED"
    /\ s.op = "send" => s.new.status = "SENT" /\ (s.row.total > Threshold => s.i \in signed)
    /\ s.op = "debit" => s.new.status = s.row.status
    /\ s.op = "credit" =>
         s.new.status = s.row.status
         \/ (s.new.status = "CREDITED" /\ credits[s.i] + s.amount >= s.row.total)
    /\ s.op = "generate" =>
         /\ s.new.status \in {"PENDING_APPROVAL", "APPROVED"}
         /\ s.new.total > Threshold => s.new.status = "PENDING_APPROVAL"
    /\ s.op = "generate" /\ s.pc \in {"numbered", "flushed"} =>
         s.i \in Numbers /\ \A j \in Numbers : j < s.i => table[j].status # "NONE"

\* A number inserted and not yet committed is free, and nobody else's.
Holds(s, i) == s.op = "generate" /\ s.pc = "flushed" /\ s.i = i
Reserved ==
    \A r \in Requests, i \in Numbers : Holds(req[r], i) =>
        invoice[i].status = "NONE" /\ \A q \in Requests : Holds(req[q], i) => q = r

InvoicesInv ==
    /\ \A i \in Numbers : Unissued(i, invoice, creditSum, sends, signedOff)
    /\ \A i \in Numbers : SignedOff(i, invoice, signedOff)
    /\ GivenOut(invoice) /\ Marked(invoice, revStatus)
    /\ SentWasSignedOff /\ CreditedIsCovered

SessionsKnow == \A r \in Requests : Knows(req[r], invoice, creditSum, signedOff)

Inv == TypeOK /\ InvoicesInv /\ Reserved /\ SessionsKnow

-----------------------------------------------------------------------------
(* The arithmetic of an invoice, for any lines                              *)

\* The recursive function behind SumFunctionOnSet.
SubsetSums(f, S) ==
    CHOOSE g : g = [s \in SUBSET S |->
        IF s = {} THEN 0 ELSE f[CHOOSE x \in s : TRUE] + g[s \ {CHOOSE x \in s : TRUE}]]

IsSumOn(g, f, S) ==
    /\ g \in [SUBSET S -> Int] /\ g[{}] = 0
    /\ \A s \in SUBSET S : s # {} =>
         g[s] = f[CHOOSE x \in s : TRUE] + g[s \ {CHOOSE x \in s : TRUE}]

LEMMA SumIsSubsetSum ==
    ASSUME NEW f, NEW S PROVE SumFunctionOnSet(f, S) = SubsetSums(f, S)[S]
BY DEF SumFunctionOnSet, FoldFunctionOnSet, MapThenFoldSet, SubsetSums

\* Induction up to a bound, over a set.
LEMMA UpTo ==
    ASSUME NEW N \in Nat, NEW S, 0 \in S, \A n \in 0 .. N : n # N /\ n \in S => n + 1 \in S
    PROVE  \A n \in 0 .. N : n \in S
<1> DEFINE R == OpToRel(<, Nat)
           T == {n \in 0 .. N : n \notin S}
<1> SUFFICES ASSUME T # {} PROVE FALSE
  OBVIOUS
<1>1. T \subseteq Nat
  OBVIOUS
<1>2. IsWellFoundedOn(R, Nat)
  BY NatLessThanWellFounded
<1> HIDE DEF R
<1>3. PICK y \in T : \A z \in T : ~(<<z, y>> \in R)
  <2> HIDE DEF T
  <2> QED BY <1>1, <1>2, WFMin
<1>4. \A z \in T : ~(z < y)
  BY <1>1, <1>3 DEF R, OpToRel
<1>5. y # 0 /\ y - 1 \in 0 .. N /\ y - 1 # N /\ y - 1 < y
  OBVIOUS
<1>6. y - 1 \in S
  BY <1>4, <1>5
<1>7. (y - 1) + 1 \in S /\ (y - 1) + 1 = y
  BY <1>5, <1>6
<1> QED BY <1>7

\* A subset with an element taken out is one smaller.
LEMMA TakeOne ==
    ASSUME NEW S, IsFiniteSet(S), NEW s \in SUBSET S, s # {}
    PROVE  /\ (CHOOSE x \in s : TRUE) \in s /\ s \ {CHOOSE x \in s : TRUE} \in SUBSET S
           /\ Cardinality(s) \in Nat /\ Cardinality(s) > 0
           /\ Cardinality(s \ {CHOOSE x \in s : TRUE}) = Cardinality(s) - 1
<1> DEFINE x == CHOOSE x \in s : TRUE
<1>1. x \in s
  OBVIOUS
<1> HIDE DEF x
<1>2. IsFiniteSet(s)
  BY FS_Subset
<1>3. Cardinality(s) \in Nat /\ Cardinality(s) # 0
  BY <1>2, FS_CardinalityType, FS_EmptySet
<1>4. Cardinality(s \ {x}) = Cardinality(s) - 1
  BY <1>1, <1>2, FS_RemoveElement
<1> QED BY <1>1, <1>3, <1>4 DEF x

\* Induction over the subsets of a finite set, over a set of subsets.
LEMMA OverSubsets ==
    ASSUME NEW S, IsFiniteSet(S), NEW Q, {} \in Q,
           \A s \in SUBSET S : s # {} /\ s \ {CHOOSE x \in s : TRUE} \in Q => s \in Q
    PROVE  \A s \in SUBSET S : s \in Q
<1> DEFINE N == Cardinality(S)
           P == {k \in 0 .. N : \A s \in SUBSET S : Cardinality(s) = k => s \in Q}
<1>1. N \in Nat
  BY FS_CardinalityType
<1>2. \A s \in SUBSET S : IsFiniteSet(s) /\ Cardinality(s) \in 0 .. N
  <2> SUFFICES ASSUME NEW s \in SUBSET S PROVE IsFiniteSet(s) /\ Cardinality(s) \in 0 .. N
    OBVIOUS
  <2>1. IsFiniteSet(s) /\ Cardinality(s) <= N
    BY FS_Subset
  <2> QED BY <1>1, <2>1, FS_CardinalityType
<1> HIDE DEF N
<1>3. 0 \in P
  <2>1. \A s \in SUBSET S : Cardinality(s) = 0 => s = {}
    BY <1>2, FS_EmptySet
  <2> QED BY <1>1, <2>1
<1>4. ASSUME NEW k \in 0 .. N, k # N, k \in P PROVE k + 1 \in P
  <2>1. k + 1 \in 0 .. N /\ k + 1 # 0 /\ (k + 1) - 1 = k
    BY <1>1, <1>4
  <2>2. ASSUME NEW s \in SUBSET S, Cardinality(s) = k + 1 PROVE s \in Q
    <3>1. s # {}
      BY <2>1, <2>2, FS_EmptySet
    <3>2. /\ s \ {CHOOSE x \in s : TRUE} \in SUBSET S
          /\ Cardinality(s \ {CHOOSE x \in s : TRUE}) = k
      BY <2>1, <2>2, <3>1, TakeOne
    <3>3. s \ {CHOOSE x \in s : TRUE} \in Q
      BY <1>4, <3>2
    <3> QED BY <3>1, <3>3
  <2> QED BY <2>1, <2>2
<1>5. \A k \in 0 .. N : k \in P
  <2> HIDE DEF P
  <2> QED BY <1>1, <1>3, <1>4, UpTo
<1> QED BY <1>2, <1>5

\* The sums over the subsets of a finite set exist: size after size.
LEMMA SubsetSumFacts ==
    ASSUME NEW S, IsFiniteSet(S), NEW f \in [S -> Int] PROVE IsSumOn(SubsetSums(f, S), f, S)
<1> DEFINE N == Cardinality(S)
           Rest(s) == s \ {CHOOSE x \in s : TRUE}
           First(s) == f[CHOOSE x \in s : TRUE]
           Value(g, s) == IF s = {} THEN 0 ELSE First(s) + g[Rest(s)]
           UpToSize(k, g) == /\ g \in [SUBSET S -> Int]
                             /\ \A s \in SUBSET S : Cardinality(s) <= k => g[s] = Value(g, s)
           P == {k \in 0 .. N : \E g : UpToSize(k, g)}
<1>1. N \in Nat
  BY FS_CardinalityType
<1>2. \A s \in SUBSET S : Cardinality(s) \in 0 .. N
  <2> SUFFICES ASSUME NEW s \in SUBSET S PROVE Cardinality(s) \in 0 .. N
    OBVIOUS
  <2>1. IsFiniteSet(s) /\ Cardinality(s) <= N
    BY FS_Subset
  <2> QED BY <1>1, <2>1, FS_CardinalityType
<1>3. \A s \in SUBSET S : s # {} => /\ First(s) \in Int /\ Rest(s) \in SUBSET S
                                    /\ Cardinality(Rest(s)) = Cardinality(s) - 1
  BY TakeOne
<1>4. \A s \in SUBSET S : Cardinality(s) = 0 => s = {}
  <2>1. \A s \in SUBSET S : s # {} => Cardinality(s) > 0
    BY TakeOne
  <2> QED BY <2>1
<1> HIDE DEF N, Rest, First
<1>5. 0 \in P
  <2> DEFINE z == [s \in SUBSET S |-> 0]
  <2>1. UpToSize(0, z)
    <3>1. \A s \in SUBSET S : Cardinality(s) <= 0 => s = {}
      BY <1>1, <1>2, <1>4
    <3> QED BY <3>1
  <2>2. \E g : UpToSize(0, g)
    BY <2>1
  <2> HIDE DEF UpToSize
  <2> QED BY <1>1, <2>2
<1>6. ASSUME NEW k \in 0 .. N, k # N, k \in P PROVE k + 1 \in P
  <2>1. PICK g : UpToSize(k, g)
    BY <1>6
  <2>2. k \in Nat /\ k + 1 \in 0 .. N /\ k + 1 # 0
    BY <1>1, <1>6
  <2> DEFINE h == [s \in SUBSET S |-> IF Cardinality(s) = k + 1 THEN Value(g, s) ELSE g[s]]
  <2>3. g \in [SUBSET S -> Int] /\ \A s \in SUBSET S : Value(g, s) \in Int
    BY <1>3, <2>1
  <2>4. h \in [SUBSET S -> Int]
    <3> HIDE DEF Value
    <3> QED BY <2>3
  <2>5. \A s \in SUBSET S : h[s] = IF Cardinality(s) = k + 1 THEN Value(g, s) ELSE g[s]
    OBVIOUS
  <2> HIDE DEF h
  <2>6. \A s \in SUBSET S : Cardinality(s) <= k => h[s] = g[s]
    BY <1>1, <1>2, <2>2, <2>5
  <2>7. ASSUME NEW s \in SUBSET S, Cardinality(s) <= k + 1 PROVE h[s] = Value(h, s)
    <3>1. Value(h, s) = Value(g, s)
      <4>1. CASE s = {}
        BY <4>1
      <4>2. CASE s # {}
        <5>1. Rest(s) \in SUBSET S /\ Cardinality(Rest(s)) <= k
          BY <1>2, <1>3, <2>2, <2>7, <4>2
        <5>2. h[Rest(s)] = g[Rest(s)]
          BY <2>6, <5>1
        <5> QED BY <5>2
      <4> QED BY <4>1, <4>2
    <3>2. CASE Cardinality(s) = k + 1
      <4> HIDE DEF Value
      <4> QED BY <2>5, <3>1, <3>2
    <3>3. CASE Cardinality(s) # k + 1
      <4>1. Cardinality(s) <= k
        BY <1>2, <2>2, <2>7, <3>3
      <4>2. h[s] = g[s] /\ g[s] = Value(g, s)
        <5> HIDE DEF Value
        <5> QED BY <2>1, <2>6, <4>1
      <4> HIDE DEF Value
      <4> QED BY <3>1, <4>2
    <3> QED BY <3>2, <3>3
  <2>8. UpToSize(k + 1, h)
    <3> HIDE DEF Value
    <3> QED BY <2>4, <2>7
  <2>9. \E m : UpToSize(k + 1, m)
    BY <2>8
  <2> HIDE DEF UpToSize
  <2> QED BY <2>2, <2>9
<1>7. N \in P
  <2> HIDE DEF P
  <2> QED BY <1>1, <1>5, <1>6, UpTo
<1>8. PICK g : UpToSize(N, g)
  BY <1>7
<1> DEFINE Body(g_) == [s \in SUBSET S |-> Value(g_, s)]
<1>9. g = Body(g)
  <2>1. \A s \in SUBSET S : Cardinality(s) <= N
    BY <1>1, <1>2
  <2> HIDE DEF Value
  <2> QED BY <1>8, <2>1
<1> DEFINE c == CHOOSE y : y = Body(y)
<1>10. c = Body(c)
  <2> HIDE DEF Body
  <2> QED BY <1>9
<1>11. SubsetSums(f, S) = c
  BY DEF SubsetSums, First, Rest
<1> HIDE DEF c
<1>12. c = [s \in SUBSET S |-> c[s]] /\ \A s \in SUBSET S : c[s] = Value(c, s)
  <2> DEFINE d == Body(c)
  <2>1. d = [s \in SUBSET S |-> d[s]] /\ \A s \in SUBSET S : d[s] = Value(c, s)
    <3> HIDE DEF Value
    <3> QED OBVIOUS
  <2>2. c = d
    BY <1>10
  <2> HIDE DEF d, Value
  <2> QED BY <2>1, <2>2
<1>13. \A s \in SUBSET S : c[s] \in Int
  <2> DEFINE Q == {s \in SUBSET S : c[s] \in Int}
  <2>1. {} \in Q
    <3>1. {} \in SUBSET S
      OBVIOUS
    <3>2. c[{}] = 0
      BY <1>12, <3>1
    <3> QED BY <3>1, <3>2
  <2>2. ASSUME NEW s \in SUBSET S, s # {}, Rest(s) \in Q PROVE s \in Q
    <3>1. c[s] = First(s) + c[Rest(s)]
      BY <1>12, <2>2
    <3>2. First(s) \in Int /\ c[Rest(s)] \in Int
      BY <1>3, <2>2
    <3>3. c[s] \in Int
      BY <3>1, <3>2
    <3> QED BY <3>3
  <2>3. \A s \in SUBSET S : s # {} /\ s \ {CHOOSE x \in s : TRUE} \in Q => s \in Q
    BY <2>2 DEF Rest
  <2>4. \A s \in SUBSET S : s \in Q
    <3> HIDE DEF Q
    <3> QED BY <2>1, <2>3, OverSubsets
  <2> QED BY <2>4
<1>14. c \in [SUBSET S -> Int]
  BY <1>12, <1>13
<1>15. c[{}] = 0 /\ \A s \in SUBSET S : s # {} => c[s] = First(s) + c[Rest(s)]
  BY <1>12
<1>16. IsSumOn(c, f, S)
  BY <1>14, <1>15 DEF IsSumOn, First, Rest
<1> QED BY <1>11, <1>16

\* A sum of natural numbers is one.
LEMMA SumOfNats ==
    ASSUME NEW S, IsFiniteSet(S), NEW f \in [S -> Nat] PROVE SumFunctionOnSet(f, S) \in Nat
<1> DEFINE c == SubsetSums(f, S)
           Q == {s \in SUBSET S : c[s] \in Nat}
<1>1. f \in [S -> Int]
  OBVIOUS
<1>2. IsSumOn(c, f, S)
  BY <1>1, SubsetSumFacts
<1> HIDE DEF c
<1>3. {} \in Q
  BY <1>2 DEF IsSumOn
<1>4. ASSUME NEW s \in SUBSET S, s # {}, s \ {CHOOSE x \in s : TRUE} \in Q PROVE s \in Q
  <2>1. (CHOOSE x \in s : TRUE) \in S
    BY <1>4, TakeOne
  <2>2. f[CHOOSE x \in s : TRUE] \in Nat /\ c[s \ {CHOOSE x \in s : TRUE}] \in Nat
    BY <1>4, <2>1
  <2>3. c[s] = f[CHOOSE x \in s : TRUE] + c[s \ {CHOOSE x \in s : TRUE}]
    BY <1>2, <1>4 DEF IsSumOn
  <2>4. c[s] \in Nat
    BY <2>2, <2>3
  <2> QED BY <2>4
<1>5. \A s \in SUBSET S : s \in Q
  <2> HIDE DEF Q
  <2> QED BY <1>3, <1>4, OverSubsets
<1>6. S \in SUBSET S
  OBVIOUS
<1> QED BY <1>5, <1>6, SumIsSubsetSum DEF c

\* From a subset without an element to the subset.
Stepped(f, S, s) ==
    LET x == CHOOSE x \in s : TRUE
        r == s \ {x}
        c == SubsetSums(f, S)
    IN  /\ x \in S /\ r \in SUBSET S /\ Cardinality(s) = Cardinality(r) + 1 /\ Cardinality(r) \in Nat
        /\ c[s] = f[x] + c[r] /\ f[x] \in Int /\ c[r] \in Int /\ c[s] \in Int

LEMMA SumStep ==
    ASSUME NEW S, IsFiniteSet(S), NEW f \in [S -> Int], NEW s \in SUBSET S, s # {}
    PROVE  Stepped(f, S, s)
<1> DEFINE x == CHOOSE x \in s : TRUE
           r == s \ {x}
           c == SubsetSums(f, S)
<1>1. IsSumOn(c, f, S)
  BY SubsetSumFacts
<1> HIDE DEF c
<1>2. c[s] = f[x] + c[r]
  BY <1>1 DEF IsSumOn
<1>3. /\ x \in s /\ r \in SUBSET S /\ Cardinality(s) \in Nat /\ Cardinality(s) > 0
      /\ Cardinality(r) = Cardinality(s) - 1
  BY TakeOne
<1> HIDE DEF x, r
<1>4. Cardinality(s) = Cardinality(r) + 1 /\ Cardinality(r) \in Nat
  BY <1>3
<1>5. x \in S /\ f[x] \in Int /\ c[r] \in Int /\ c[s] \in Int
  BY <1>1, <1>3 DEF IsSumOn
<1> QED BY <1>2, <1>3, <1>4, <1>5 DEF x, r, c, Stepped

LEMMA SumWhole ==
    ASSUME NEW S, IsFiniteSet(S), NEW f \in [S -> Int]
    PROVE  /\ SumFunctionOnSet(f, S) = SubsetSums(f, S)[S] /\ SumFunctionOnSet(f, S) \in Int
           /\ SubsetSums(f, S)[{}] = 0
<1>1. IsSumOn(SubsetSums(f, S), f, S)
  BY SubsetSumFacts
<1>2. S \in SUBSET S
  OBVIOUS
<1> QED BY <1>1, <1>2, SumIsSubsetSum DEF IsSumOn

\* Sums add up line by line.
LEMMA SumsAdd ==
    ASSUME NEW S, IsFiniteSet(S), NEW f \in [S -> Int], NEW g \in [S -> Int], NEW h \in [S -> Int],
           \A x \in S : h[x] = f[x] + g[x]
    PROVE  SumFunctionOnSet(h, S) = SumFunctionOnSet(f, S) + SumFunctionOnSet(g, S)
<1> DEFINE F == SubsetSums(f, S)
           G == SubsetSums(g, S)
           H == SubsetSums(h, S)
           Q == {s \in SUBSET S : H[s] = F[s] + G[s]}
<1>1. {} \in Q
  BY SumWhole
<1>2. ASSUME NEW s \in SUBSET S, s # {}, s \ {CHOOSE x \in s : TRUE} \in Q PROVE s \in Q
  <2> DEFINE x == CHOOSE x \in s : TRUE
             r == s \ {x}
  <2>1. /\ x \in S /\ F[s] = f[x] + F[r] /\ f[x] \in Int /\ F[r] \in Int
        /\ G[s] = g[x] + G[r] /\ g[x] \in Int /\ G[r] \in Int /\ H[s] = h[x] + H[r]
    <3>1. Stepped(f, S, s) /\ Stepped(g, S, s) /\ Stepped(h, S, s)
      BY <1>2, SumStep
    <3> QED BY <3>1 DEF Stepped
  <2>2. H[r] = F[r] + G[r]
    BY <1>2
  <2> HIDE DEF F, G, H, x, r
  <2>3. H[s] = F[s] + G[s]
    BY <2>1, <2>2
  <2> QED BY <2>3
<1>3. \A s \in SUBSET S : s \in Q
  <2> HIDE DEF Q
  <2> QED BY <1>1, <1>2, OverSubsets
<1>4. S \in SUBSET S
  OBVIOUS
<1> QED BY <1>3, <1>4, SumWhole

LEMMA SumsScale ==
    ASSUME NEW S, IsFiniteSet(S), NEW f \in [S -> Int], NEW g \in [S -> Int], NEW p \in Int,
           \A x \in S : g[x] = p * f[x]
    PROVE  SumFunctionOnSet(g, S) = p * SumFunctionOnSet(f, S)
<1> DEFINE F == SubsetSums(f, S)
           G == SubsetSums(g, S)
           Q == {s \in SUBSET S : G[s] = p * F[s]}
<1>1. {} \in Q
  BY SumWhole
<1>2. ASSUME NEW s \in SUBSET S, s # {}, s \ {CHOOSE x \in s : TRUE} \in Q PROVE s \in Q
  <2> DEFINE x == CHOOSE x \in s : TRUE
             r == s \ {x}
  <2>1. x \in S /\ F[s] = f[x] + F[r] /\ f[x] \in Int /\ F[r] \in Int /\ G[s] = g[x] + G[r]
    <3>1. Stepped(f, S, s) /\ Stepped(g, S, s)
      BY <1>2, SumStep
    <3> QED BY <3>1 DEF Stepped
  <2>2. G[r] = p * F[r]
    BY <1>2
  <2> HIDE DEF F, G, x, r
  <2>3. p * (f[x] + F[r]) = p * f[x] + p * F[r]
    BY <2>1
  <2>4. G[s] = p * F[s]
    BY <2>1, <2>2, <2>3
  <2> QED BY <2>4
<1>3. \A s \in SUBSET S : s \in Q
  <2> HIDE DEF Q
  <2> QED BY <1>1, <1>2, OverSubsets
<1>4. S \in SUBSET S
  OBVIOUS
<1> QED BY <1>3, <1>4, SumWhole

\* Sums of close amounts are close.
LEMMA SumsClose ==
    ASSUME NEW S, IsFiniteSet(S), NEW f \in [S -> Int], NEW g \in [S -> Int], NEW u \in Nat,
           \A x \in S : Within(f[x], g[x], u)
    PROVE  Within(SumFunctionOnSet(f, S), SumFunctionOnSet(g, S), u * Cardinality(S))
<1> DEFINE F == SubsetSums(f, S)
           G == SubsetSums(g, S)
           Q == {s \in SUBSET S : Within(F[s], G[s], u * Cardinality(s))}
<1>1. {} \in Q
  <2>1. F[{}] = 0 /\ G[{}] = 0 /\ Cardinality({}) = 0
    BY SumWhole, FS_EmptySet
  <2> HIDE DEF F, G
  <2>2. Within(F[{}], G[{}], u * Cardinality({}))
    BY <2>1 DEF Within
  <2> QED BY <2>2
<1>2. ASSUME NEW s \in SUBSET S, s # {}, s \ {CHOOSE x \in s : TRUE} \in Q PROVE s \in Q
  <2> DEFINE x == CHOOSE x \in s : TRUE
             r == s \ {x}
             n == Cardinality(r)
             un == u * n
  <2>1. /\ x \in S /\ F[s] = f[x] + F[r] /\ f[x] \in Int /\ F[r] \in Int
        /\ G[s] = g[x] + G[r] /\ g[x] \in Int /\ G[r] \in Int
        /\ Cardinality(s) = n + 1 /\ n \in Nat
    <3>1. Stepped(f, S, s) /\ Stepped(g, S, s)
      BY <1>2, SumStep
    <3> QED BY <3>1 DEF Stepped
  <2>2. Within(F[r], G[r], un)
    BY <1>2
  <2> HIDE DEF F, G, x, r, n
  <2>3. Within(f[x], g[x], u)
    BY <2>1
  <2>4. un \in Nat /\ u * Cardinality(s) = un + u
    BY <2>1
  <2> HIDE DEF un
  <2>5. Within(F[s], G[s], u * Cardinality(s))
    BY <2>1, <2>2, <2>3, <2>4 DEF Within
  <2> QED BY <2>5
<1>3. \A s \in SUBSET S : s \in Q
  <2> HIDE DEF Q
  <2> QED BY <1>1, <1>2, OverSubsets
<1>4. S \in SUBSET S
  OBVIOUS
<1> QED BY <1>3, <1>4, SumWhole

-----------------------------------------------------------------------------
LEMMA DivisionFacts ==
    ASSUME NEW n \in Nat, NEW d \in Nat, d > 0
    PROVE  n \div d \in Nat /\ n % d \in 0 .. d - 1 /\ n = d * (n \div d) + (n % d)
BY SMT

\* quantize(ROUND_HALF_UP) moves a quotient by at most one half.
LEMMA HalfUpIsClose ==
    ASSUME NEW n \in Nat, NEW d \in Nat, d > 0
    PROVE  RoundHalfUp(n, d) \in Nat /\ Within(d * RoundHalfUp(n, d), n, d)
<1> DEFINE q == (2 * n + d) \div (2 * d)
           rest == (2 * n + d) % (2 * d)
           dq == d * q
<1>1. 2 * n + d \in Nat /\ 2 * d \in Nat /\ 2 * d > 0
  OBVIOUS
<1>2. q \in Nat /\ rest \in 0 .. 2 * d - 1 /\ 2 * n + d = (2 * d) * q + rest
  BY <1>1, DivisionFacts
<1>3. RoundHalfUp(n, d) = q
  BY DEF RoundHalfUp
<1> HIDE DEF q, rest
<1>4. dq \in Nat /\ (2 * d) * q = 2 * dq
  BY <1>2
<1>5. d * RoundHalfUp(n, d) = dq
  BY <1>3
<1> HIDE DEF dq
<1> QED BY <1>2, <1>3, <1>4, <1>5 DEF Within

\* So does Python's round(), which takes a tie to the even neighbour.
LEMMA HalfEvenIsClose ==
    ASSUME NEW n \in Nat, NEW d \in Nat, d > 0
    PROVE  RoundHalfEven(n, d) \in Nat /\ Within(d * RoundHalfEven(n, d), n, d)
<1> DEFINE down == n \div d
           rest == n % d
           up == 2 * rest > d \/ (2 * rest = d /\ down % 2 = 1)
           dd == d * down
<1>1. down \in Nat /\ rest \in 0 .. d - 1 /\ n = dd + rest
  BY DivisionFacts
<1>2. RoundHalfEven(n, d) = IF up THEN down + 1 ELSE down
  BY DEF RoundHalfEven
<1> HIDE DEF down, rest
<1>3. dd \in Nat /\ d * (down + 1) = dd + d
  BY <1>1
<1>4. CASE up
  <2>1. d * RoundHalfEven(n, d) = dd + d /\ 2 * rest >= d /\ RoundHalfEven(n, d) = down + 1
    BY <1>1, <1>2, <1>3, <1>4
  <2> HIDE DEF dd
  <2> QED BY <1>1, <1>3, <2>1 DEF Within
<1>5. CASE ~up
  <2>1. d * RoundHalfEven(n, d) = dd /\ 2 * rest <= d /\ RoundHalfEven(n, d) = down
    BY <1>1, <1>2, <1>5
  <2> HIDE DEF dd
  <2> QED BY <1>1, <1>3, <2>1 DEF Within
<1> QED BY <1>4, <1>5

\* One line: converted, taxed and added up within half a cent each, and added up
\* exactly when it comes to whole cents.
LEMMA LineFacts ==
    ASSUME NEW c \in [amount : Nat, currency : STRING], NEW target, NEW rate \in Nat, NEW percent \in Nat
    PROVE  LET a == LineAmount(c, target, rate)
               t == LineTax(c, target, rate, percent)
               h == LineTotal(c, target, rate, percent)
           IN  /\ a \in Nat /\ Exact(c, target, rate) \in Nat /\ t \in Nat /\ h \in Nat
               /\ Within(100 * a, Exact(c, target, rate), 10000)
               /\ Within(10000 * t, percent * a, 10000)
               /\ Within(100 * h, a + 100 * t, 100)
               /\ a % 100 = 0 => 100 * h = a + 100 * t
<1> DEFINE a == LineAmount(c, target, rate)
           t == LineTax(c, target, rate, percent)
           h == LineTotal(c, target, rate, percent)
<1>0. 100 \in Nat /\ 100 > 0 /\ 10000 \in Nat /\ 10000 > 0
  OBVIOUS
<1>1. a \in Nat /\ Exact(c, target, rate) \in Nat /\ Within(100 * a, Exact(c, target, rate), 10000)
  <2>1. c.amount \in Nat
    OBVIOUS
  <2>2. CASE c.currency # target /\ rate > 0
    <3> DEFINE q == RoundHalfEven(c.amount * rate, 10000)
    <3>1. a = 100 * q /\ Exact(c, target, rate) = c.amount * rate
      BY <2>2 DEF LineAmount, Exact
    <3>2. c.amount * rate \in Nat
      BY <2>1
    <3>3. q \in Nat /\ Within(10000 * q, c.amount * rate, 10000)
      BY <1>0, <3>2, HalfEvenIsClose
    <3> HIDE DEF a, q
    <3>4. a \in Nat /\ 100 * a = 10000 * q
      BY <3>1, <3>3
    <3> QED BY <3>1, <3>2, <3>3, <3>4
  <2>3. CASE ~(c.currency # target /\ rate > 0)
    <3>1. a = c.amount /\ Exact(c, target, rate) = c.amount * 100
      BY <2>3 DEF LineAmount, Exact
    <3> HIDE DEF a
    <3> QED BY <2>1, <3>1 DEF Within
  <2> QED BY <2>2, <2>3
<1>2. t = ComputeTax(a, percent) /\ h = RoundHalfEven(a + 100 * t, 100)
  BY DEF LineTax, LineTotal
<1> HIDE DEF a, t, h
<1>3. t \in Nat /\ Within(10000 * t, percent * a, 10000)
  <2>1. CASE percent = 0
    <3>1. t = 0 /\ percent * a = 0
      BY <1>1, <1>2, <2>1 DEF ComputeTax
    <3> QED BY <3>1 DEF Within
  <2>2. CASE percent # 0
    <3>1. t = RoundHalfUp(a * percent, 10000) /\ a * percent = percent * a /\ a * percent \in Nat
      BY <1>1, <1>2, <2>2 DEF ComputeTax
    <3> QED BY <1>0, <3>1, HalfUpIsClose
  <2> QED BY <2>1, <2>2
<1>4. a + 100 * t \in Nat
  BY <1>1, <1>3
<1>5. h \in Nat /\ Within(100 * h, a + 100 * t, 100)
  BY <1>0, <1>2, <1>4, HalfEvenIsClose
<1>6. ASSUME a % 100 = 0 PROVE 100 * h = a + 100 * t
  <2> DEFINE k == a \div 100
  <2>1. k \in Nat /\ a = 100 * k
    BY <1>0, <1>1, <1>6, DivisionFacts
  <2> HIDE DEF k
  <2> QED BY <1>3, <1>5, <2>1 DEF Within
<1> QED BY <1>1, <1>3, <1>5, <1>6 DEF a, t, h

\* For any lines, currencies, exchange rate and tax: what generate_invoice prints
\* on the lines adds up to its grand total when no line carries a
\* fraction of a cent, and every total stays within half a cent a line (and half
\* a cent for its own rounding) of what it stands for.
THEOREM InvoiceTotalsAgree ==
    ASSUME NEW S, IsFiniteSet(S), NEW charge, \A l \in S : charge[l] \in [amount : Nat, currency : STRING],
           NEW target, NEW rate \in Nat, NEW percent \in Nat
    PROVE  /\ GrandTotal(S, charge, target, rate, percent) \in Nat
           /\ TotalsAgree(S, charge, target, rate, percent)
<1> DEFINE f == [l \in S |-> LineAmount(charge[l], target, rate)]
           t == [l \in S |-> LineTax(charge[l], target, rate, percent)]
           h == [l \in S |-> LineTotal(charge[l], target, rate, percent)]
           e == [l \in S |-> Exact(charge[l], target, rate)]
           net == SumFunctionOnSet(f, S)
           tax == SumFunctionOnSet(t, S)
           printed == SumFunctionOnSet(h, S)
           N == Cardinality(S)
           total == RoundHalfEven(net + 100 * tax, 100)
<1>1. \A l \in S : charge[l] \in [amount : Nat, currency : STRING]
  OBVIOUS
<1>2. ASSUME NEW l \in S
      PROVE  /\ f[l] \in Nat /\ t[l] \in Nat /\ e[l] \in Nat /\ h[l] \in Nat
             /\ Within(100 * f[l], e[l], 10000) /\ Within(10000 * t[l], percent * f[l], 10000)
             /\ Within(100 * h[l], f[l] + 100 * t[l], 100)
             /\ f[l] % 100 = 0 => 100 * h[l] = f[l] + 100 * t[l]
  <2>1. /\ f[l] = LineAmount(charge[l], target, rate) /\ e[l] = Exact(charge[l], target, rate)
        /\ t[l] = LineTax(charge[l], target, rate, percent)
        /\ h[l] = LineTotal(charge[l], target, rate, percent)
    OBVIOUS
  <2> HIDE DEF f, t, h, e
  <2> QED BY <1>1, <2>1, LineFacts
<1>3. /\ f = [l \in S |-> f[l]] /\ t = [l \in S |-> t[l]] /\ h = [l \in S |-> h[l]] /\ e = [l \in S |-> e[l]]
  OBVIOUS
<1>4. /\ Subtotal(S, charge, target, rate) = net /\ TaxTotal(S, charge, target, rate, percent) = tax
      /\ LinesTotal(S, charge, target, rate, percent) = printed
      /\ WholeCents(S, charge, target, rate) <=> \A l \in S : f[l] % 100 = 0
  BY DEF Subtotal, TaxTotal, LinesTotal, WholeCents
<1>5. GrandTotal(S, charge, target, rate, percent) = total
  BY <1>4 DEF GrandTotal
<1>6. TotalsAgree(S, charge, target, rate, percent) <=>
        /\ (\A l \in S : f[l] % 100 = 0) => total = printed
        /\ Within(total, printed, N + 1)
        /\ Within(100 * net, SumFunctionOnSet(e, S), 10000 * N)
        /\ Within(10000 * total, (100 + percent) * net, 10000 * (N + 1))
  BY <1>4, <1>5 DEF TotalsAgree
<1> HIDE DEF f, t, h, e
<1>7. /\ f \in [S -> Nat] /\ t \in [S -> Nat] /\ h \in [S -> Nat]
      /\ f \in [S -> Int] /\ t \in [S -> Int] /\ e \in [S -> Int] /\ h \in [S -> Int]
  BY <1>2, <1>3
<1>8. net \in Nat /\ tax \in Nat /\ printed \in Nat /\ N \in Nat
  BY <1>7, SumOfNats, FS_CardinalityType
<1>9. Within(100 * net, SumFunctionOnSet(e, S), 10000 * N)
  <2> DEFINE k == [l \in S |-> 100 * f[l]]
  <2>1. k \in [S -> Int] /\ \A l \in S : k[l] = 100 * f[l]
    BY <1>2
  <2> HIDE DEF k
  <2>2. \A l \in S : Within(k[l], e[l], 10000)
    BY <1>2, <2>1
  <2>3. SumFunctionOnSet(k, S) = 100 * net
    BY <1>7, <2>1, SumsScale
  <2> QED BY <1>7, <2>1, <2>2, <2>3, SumsClose
<1>10. Within(10000 * tax, percent * net, 10000 * N)
  <2> DEFINE k == [l \in S |-> percent * f[l]]
             m == [l \in S |-> 10000 * t[l]]
  <2>1. \A l \in S : percent * f[l] \in Int /\ 10000 * t[l] \in Int
    BY <1>2
  <2>2. /\ k \in [S -> Int] /\ \A l \in S : k[l] = percent * f[l]
        /\ m \in [S -> Int] /\ \A l \in S : m[l] = 10000 * t[l]
    BY <2>1
  <2> HIDE DEF k, m
  <2>3. \A l \in S : Within(m[l], k[l], 10000)
    BY <1>2, <2>2
  <2>4. SumFunctionOnSet(k, S) = percent * net /\ SumFunctionOnSet(m, S) = 10000 * tax
    BY <1>7, <2>2, SumsScale
  <2>5. Within(SumFunctionOnSet(m, S), SumFunctionOnSet(k, S), 10000 * N)
    BY <2>2, <2>3, SumsClose
  <2> QED BY <2>4, <2>5
<1>11. /\ Within(100 * printed, net + 100 * tax, 100 * N)
       /\ (\A l \in S : f[l] % 100 = 0) => 100 * printed = net + 100 * tax
  <2> DEFINE k == [l \in S |-> 100 * t[l]]
             m == [l \in S |-> 100 * h[l]]
             g == [l \in S |-> f[l] + 100 * t[l]]
  <2>1. \A l \in S : 100 * t[l] \in Int /\ 100 * h[l] \in Int /\ f[l] + 100 * t[l] \in Int
    BY <1>2
  <2>2. /\ k \in [S -> Int] /\ \A l \in S : k[l] = 100 * t[l]
        /\ m \in [S -> Int] /\ \A l \in S : m[l] = 100 * h[l]
    BY <2>1
  <2>g. g \in [S -> Int] /\ \A l \in S : g[l] = f[l] + k[l]
    BY <2>1
  <2>a. m = [l \in S |-> m[l]] /\ g = [l \in S |-> g[l]]
    OBVIOUS
  <2> HIDE DEF k, m, g
  <2>3. \A l \in S : Within(m[l], g[l], 100) /\ (f[l] % 100 = 0 => m[l] = g[l])
    BY <1>2, <2>2, <2>g
  <2>4. SumFunctionOnSet(k, S) = 100 * tax /\ SumFunctionOnSet(m, S) = 100 * printed
    <3>1. SumFunctionOnSet(k, S) = 100 * SumFunctionOnSet(t, S)
      BY <1>7, <2>2, SumsScale
    <3>2. SumFunctionOnSet(m, S) = 100 * SumFunctionOnSet(h, S)
      BY <1>7, <2>2, SumsScale
    <3> QED BY <3>1, <3>2
  <2>5. SumFunctionOnSet(g, S) = net + 100 * tax
    <3>1. SumFunctionOnSet(g, S) = SumFunctionOnSet(f, S) + SumFunctionOnSet(k, S)
      BY <1>7, <2>2, <2>g, SumsAdd
    <3> QED BY <2>4, <3>1
  <2>6. Within(SumFunctionOnSet(m, S), SumFunctionOnSet(g, S), 100 * N)
    <3>1. \A l \in S : Within(m[l], g[l], 100)
      BY <2>3
    <3> HIDE DEF net, tax, printed
    <3> QED BY <2>2, <2>g, <3>1, SumsClose
  <2>7. (\A l \in S : f[l] % 100 = 0) => m = g
    BY <2>3, <2>a
  <2> QED BY <2>4, <2>5, <2>6, <2>7
<1>12. total \in Nat /\ Within(100 * total, net + 100 * tax, 100)
  <2>1. net + 100 * tax \in Nat /\ 100 \in Nat /\ 100 > 0
    BY <1>8
  <2> QED BY <2>1, HalfEvenIsClose
<1> HIDE DEF net, tax, N, printed, total
<1>13. Within(total, printed, N + 1) /\ (100 * printed = net + 100 * tax => total = printed)
  BY <1>8, <1>11, <1>12 DEF Within
<1>14. Within(10000 * total, (100 + percent) * net, 10000 * (N + 1))
  <2> DEFINE A == percent * net
  <2>1. A \in Int /\ Within(10000 * tax, A, 10000 * N) /\ (100 + percent) * net = 100 * net + A
    BY <1>8, <1>10
  <2> HIDE DEF A
  <2>2. Within(10000 * total, 100 * net + A, 10000 * (N + 1))
    BY <1>8, <1>12, <2>1 DEF Within
  <2> QED BY <2>1, <2>2
<1> QED BY <1>5, <1>6, <1>9, <1>11, <1>12, <1>13, <1>14

\* The total of an invoice is an amount.
LEMMA TotalIsAmount ==
    ASSUME NEW lines \in SUBSET RevLines, NEW body \in Bodies PROVE Total(lines, body) \in Nat
<1>1. IsFiniteSet(lines)
  BY InvoicingAssumption, FS_Subset
<1>2. \A l \in lines : Charges[l] \in [amount : Nat, currency : STRING]
  BY InvoicingAssumption
<1>3. LockedRate(body.currency, Rates) \in Nat
  BY InvoicingAssumption DEF LockedRate
<1>4. TaxRate(body.jurisdiction) \in Nat
  BY DEF TaxRate
<1> QED BY <1>1, <1>2, <1>3, <1>4, InvoiceTotalsAgree DEF Total

-----------------------------------------------------------------------------
(* However requests interleave                                              *)

LEMMA RowTypes == NoInvoice \in InvoiceRow /\ Idle \in Session
<1>1. NoInvoice \in InvoiceRow
  BY DEF NoInvoice, InvoiceRow, InvoiceStatus, Approval
<1> QED BY <1>1 DEF Idle, Session

LEMMA InitInv == Init => Inv
<1> SUFFICES ASSUME Init PROVE Inv
  OBVIOUS
<1>1. TypeOK
  <2>1. invoice \in [Numbers -> InvoiceRow] /\ req \in [Requests -> Session]
    BY RowTypes DEF Init
  <2>2. revStatus \in [RevLines -> RevStatus] /\ noteCount \in [credit : Nat, debit : Nat]
    BY InvoicingAssumption DEF Init
  <2> QED BY <2>1, <2>2 DEF Init, TypeOK
<1>2. \A i \in Numbers : invoice[i] = NoInvoice /\ creditSum[i] = 0 /\ sends[i] = 0 /\ i \notin signedOff
  BY DEF Init
<1>3. \A i \in Numbers : invoice[i].status = "NONE" /\ invoice[i].lines = {} /\ invoice[i].total = 0
  BY <1>2 DEF NoInvoice
<1>4. GivenOut(invoice)
  <2>1. \A i \in Numbers : invoice[i].status # "NONE" <=> i <= 0
    BY <1>3 DEF Numbers
  <2>2. 0 \in 0 .. MaxInvoices
    BY InvoicingAssumption
  <2> QED BY <2>1, <2>2 DEF GivenOut
<1>5. InvoicesInv
  BY <1>2, <1>3, <1>4 DEF InvoicesInv, Unissued, SignedOff, Marked, SentWasSignedOff, CreditedIsCovered
<1>6. \A r \in Requests : req[r].op = "none"
  BY DEF Init, Idle
<1>7. Reserved /\ SessionsKnow
  BY <1>6 DEF Reserved, Holds, SessionsKnow, Knows, OnInvoice
<1> QED BY <1>1, <1>5, <1>7 DEF Inv

\* A request begins or goes on: only its session changes.
LEMMA SessionStep ==
    ASSUME Inv, NEW r \in Requests, NEW s \in Session, req' = [req EXCEPT ![r] = s],
           UNCHANGED db, overlapped' \in BOOLEAN,
           Knows(s, invoice, creditSum, signedOff),
           \A i \in Numbers : Holds(s, i) =>
               invoice[i].status = "NONE" /\ \A q \in Requests : q # r => ~Holds(req[q], i)
    PROVE  Inv'
<1>1. req'[r] = s /\ \A q \in Requests : q # r => req'[q] = req[q]
  BY DEF Inv, TypeOK
<1>2. TypeOK'
  BY DEF Inv, TypeOK, db
<1>3. InvoicesInv'
  BY DEF Inv, InvoicesInv, db, Unissued, SignedOff, GivenOut, Marked, SentWasSignedOff, CreditedIsCovered
<1>4. SessionsKnow'
  <2> SUFFICES ASSUME NEW q \in Requests PROVE Knows(req'[q], invoice, creditSum, signedOff)
    BY DEF SessionsKnow, db, Knows
  <2> QED BY <1>1 DEF Inv, SessionsKnow
<1>5. Reserved'
  <2> SUFFICES ASSUME NEW q \in Requests, NEW i \in Numbers, Holds(req'[q], i)
               PROVE  invoice[i].status = "NONE" /\ \A p \in Requests : Holds(req'[p], i) => p = q
    BY DEF Reserved, db, Holds
  <2>1. CASE q = r
    BY <1>1, <2>1
  <2>2. CASE q # r
    <3>1. Holds(req[q], i) /\ ~Holds(s, i)
      BY <1>1, <2>2
    <3> QED BY <1>1, <3>1, <2>2 DEF Inv, Reserved
  <2> QED BY <2>1, <2>2
<1> QED BY <1>2, <1>3, <1>4, <1>5 DEF Inv

\* A session that ends without a commit.
LEMMA RollbackInv == ASSUME Inv, NEW r \in Requests, Rollback(r) PROVE Inv'
<1>1. Knows(Idle, invoice, creditSum, signedOff) /\ \A i \in Numbers : ~Holds(Idle, i)
  BY DEF Idle, Knows, Holds, OnInvoice
<1>2. req' = [req EXCEPT ![r] = Idle] /\ UNCHANGED db /\ overlapped' \in BOOLEAN
  BY DEF Rollback, Inv, TypeOK
<1> QED BY <1>1, <1>2, RowTypes, SessionStep
LEMMA OverlapType == ASSUME TypeOK, Overlaps PROVE overlapped' \in BOOLEAN
  BY DEF TypeOK, Overlaps

\* What generate_invoice makes of the lines it read.
Priced(lines, body) ==
    [FirstApproval(Total(lines, body)) EXCEPT !.total = Total(lines, body), !.lines = lines]

LEMMA PricedRow ==
    ASSUME NEW lines \in SUBSET RevLines, NEW body \in Bodies
    PROVE  /\ Priced(lines, body) \in InvoiceRow
           /\ Priced(lines, body).lines = lines
           /\ Priced(lines, body).total = Total(lines, body)
           /\ Priced(lines, body).status \in {"PENDING_APPROVAL", "APPROVED"}
           /\ Priced(lines, body).total > Threshold => Priced(lines, body).status = "PENDING_APPROVAL"
<1> DEFINE total == Total(lines, body)
           first == FirstApproval(total)
<1>1. total \in Nat
  BY TotalIsAmount
<1> HIDE DEF total
<1>2. /\ first \in InvoiceRow /\ first.status \in {"PENDING_APPROVAL", "APPROVED"}
      /\ total > Threshold => first.status = "PENDING_APPROVAL"
  BY DEF FirstApproval, NoInvoice, InvoiceRow, InvoiceStatus, Approval
<1> HIDE DEF first
<1> DEFINE row == [first EXCEPT !.total = total, !.lines = lines]
<1>3. row \in InvoiceRow /\ row.lines = lines /\ row.total = total /\ row.status = first.status
  BY <1>1, <1>2 DEF InvoiceRow
<1>4. Priced(lines, body) = row
  BY DEF Priced, total, first
<1> QED BY <1>2, <1>3, <1>4 DEF total

LEMMA LinesInv ==
    ASSUME Inv, NEW r \in Requests, NEW lines \in SUBSET RevLines, NEW body \in Bodies,
           LoadLines(r, lines, body)
    PROVE  Inv'
<1> DEFINE s == [Idle EXCEPT !.pc = "loaded", !.op = "generate", !.new = Priced(lines, body)]
<1>1. req' = [req EXCEPT ![r] = s] /\ UNCHANGED db
  BY DEF LoadLines, Priced
<1>2. overlapped' \in BOOLEAN
  BY OverlapType DEF LoadLines, Inv
<1>3. s \in Session /\ s.op = "generate" /\ s.pc = "loaded" /\ s.new = Priced(lines, body)
  BY PricedRow, RowTypes DEF Session, Idle
<1> HIDE DEF s
<1>4. Knows(s, invoice, creditSum, signedOff)
  BY <1>3, PricedRow DEF Knows, OnInvoice
<1>5. \A i \in Numbers : ~Holds(s, i)
  BY <1>3 DEF Holds
<1> QED BY <1>1, <1>2, <1>3, <1>4, <1>5, SessionStep

\* The fields of a session that has loaded an invoice.
LEMMA LoadedSession ==
    ASSUME TypeOK, NEW op \in OnInvoice, NEW i \in Numbers, NEW pc \in {"loaded", "summed"},
           NEW status \in InvoiceStatus
    PROVE  /\ Loaded(op, i, pc, status) \in Session
           /\ Loaded(op, i, pc, status).op = op /\ Loaded(op, i, pc, status).i = i
           /\ Loaded(op, i, pc, status).pc = pc /\ Loaded(op, i, pc, status).row = invoice[i]
           /\ Loaded(op, i, pc, status).new.status = status
           /\ Loaded(op, i, pc, status).new \in InvoiceRow
<1>1. invoice[i] \in InvoiceRow
  BY DEF TypeOK
<1> DEFINE new == [invoice[i] EXCEPT !.status = status]
<1>2. new \in InvoiceRow /\ new.status = status
  BY <1>1 DEF InvoiceRow
<1> HIDE DEF new
<1>3. Loaded(op, i, pc, status) = [Idle EXCEPT !.pc = pc, !.op = op, !.i = i, !.row = invoice[i], !.new = new]
  BY DEF Loaded, new
<1> DEFINE s == [Idle EXCEPT !.pc = pc, !.op = op, !.i = i, !.row = invoice[i], !.new = new]
<1>4. s.op = op /\ s.i = i /\ s.pc = pc /\ s.row = invoice[i] /\ s.new = new
  BY DEF Idle
<1>5. s \in Session
  BY <1>1, <1>2, RowTypes DEF Idle, Session, OnInvoice
<1> HIDE DEF s
<1> QED BY <1>2, <1>3, <1>4, <1>5 DEF s, new

LEMMA ApproveInv == ASSUME Inv, NEW r \in Requests, NEW i \in Numbers, LoadApprove(r, i) PROVE Inv'
<1> DEFINE l == Loaded("approve", i, "summed", "APPROVED")
           s == [l EXCEPT !.new.approval = "APPROVED"]
<1>1. req' = [req EXCEPT ![r] = s] /\ UNCHANGED db /\ invoice[i].status = "PENDING_APPROVAL"
  BY DEF LoadApprove
<1>2. overlapped' \in BOOLEAN
  BY OverlapType DEF LoadApprove, Inv
<1>3. /\ l \in Session /\ l.op = "approve" /\ l.i = i /\ l.pc = "summed" /\ l.row = invoice[i]
      /\ l.new.status = "APPROVED" /\ l.new \in InvoiceRow
  <2>1. TypeOK /\ "approve" \in OnInvoice /\ "summed" \in {"loaded", "summed"} /\ "APPROVED" \in InvoiceStatus
    BY DEF Inv, OnInvoice, InvoiceStatus
  <2> QED BY <2>1, LoadedSession
<1> HIDE DEF l
<1>4. /\ s \in Session /\ s.op = "approve" /\ s.i = i /\ s.pc = "summed" /\ s.row = invoice[i]
      /\ s.new.status = "APPROVED"
  BY <1>3 DEF Session, InvoiceRow, Approval
<1> HIDE DEF s
<1>5. Knows(s, invoice, creditSum, signedOff)
  BY <1>1, <1>4 DEF Knows, OnInvoice
<1>6. \A j \in Numbers : ~Holds(s, j)
  BY <1>4 DEF Holds
<1> QED BY <1>1, <1>2, <1>4, <1>5, <1>6, SessionStep

LEMMA SendInv == ASSUME Inv, NEW r \in Requests, NEW i \in Numbers, LoadSend(r, i) PROVE Inv'
<1> DEFINE s == Loaded("send", i, "summed", "SENT")
<1>1. req' = [req EXCEPT ![r] = s] /\ UNCHANGED db /\ invoice[i].status \in {"APPROVED", "SENT"}
  BY DEF LoadSend, Sendable
<1>2. overlapped' \in BOOLEAN
  BY OverlapType DEF LoadSend, Inv
<1>3. /\ s \in Session /\ s.op = "send" /\ s.i = i /\ s.pc = "summed" /\ s.row = invoice[i]
      /\ s.new.status = "SENT"
  <2>1. TypeOK /\ "send" \in OnInvoice /\ "summed" \in {"loaded", "summed"} /\ "SENT" \in InvoiceStatus
    BY DEF Inv, OnInvoice, InvoiceStatus
  <2> QED BY <2>1, LoadedSession
<1> HIDE DEF s
<1>4. invoice[i].total > Threshold => i \in signedOff
  BY <1>1 DEF Inv, InvoicesInv, SignedOff
<1>5. Knows(s, invoice, creditSum, signedOff)
  BY <1>1, <1>3, <1>4 DEF Knows, OnInvoice
<1>6. \A j \in Numbers : ~Holds(s, j)
  BY <1>3 DEF Holds
<1> QED BY <1>1, <1>2, <1>3, <1>5, <1>6, SessionStep

LEMMA NoteInv ==
    ASSUME Inv, NEW r \in Requests, NEW op \in {"credit", "debit"}, NEW i \in Numbers,
           NEW amount \in NoteAmounts, LoadNote(r, op, i, amount)
    PROVE  Inv'
<1> DEFINE pc == IF op = "credit" THEN "loaded" ELSE "summed"
           l == Loaded(op, i, pc, invoice[i].status)
           s == [l EXCEPT !.amount = amount]
<1>1. req' = [req EXCEPT ![r] = s] /\ UNCHANGED db /\ invoice[i].status # "NONE"
  BY DEF LoadNote, Exists
<1>2. overlapped' \in BOOLEAN /\ amount \in Nat
  BY OverlapType, InvoicingAssumption DEF LoadNote, Inv
<1>3. pc \in {"loaded", "summed"} /\ op \in OnInvoice /\ invoice[i].status \in InvoiceStatus
  BY DEF OnInvoice, Inv, TypeOK, InvoiceRow
<1> HIDE DEF pc
<1>4. /\ l \in Session /\ l.op = op /\ l.i = i /\ l.pc = pc /\ l.row = invoice[i]
      /\ l.new.status = invoice[i].status
  <2>1. TypeOK
    BY DEF Inv
  <2> QED BY <1>3, <2>1, LoadedSession
<1> HIDE DEF l
<1>5. /\ s \in Session /\ s.op = op /\ s.i = i /\ s.pc = pc /\ s.row = invoice[i]
      /\ s.new.status = invoice[i].status
  BY <1>2, <1>4 DEF Session
<1> HIDE DEF s
<1>6. Knows(s, invoice, creditSum, signedOff)
  BY <1>1, <1>5 DEF Knows, OnInvoice
<1>7. \A j \in Numbers : ~Holds(s, j)
  BY <1>5 DEF Holds
<1> QED BY <1>1, <1>2, <1>5, <1>6, <1>7, SessionStep

\* The count of invoices is the last number given out.
LEMMA CountIsLast ==
    ASSUME GivenOut(invoice)
    PROVE  /\ Count \in Nat
           /\ \A i \in Numbers : i <= Count <=> invoice[i].status # "NONE"
<1>1. PICK n \in 0 .. MaxInvoices : \A i \in Numbers : invoice[i].status # "NONE" <=> i <= n
  BY DEF GivenOut
<1>2. {i \in Numbers : Exists(i)} = 1 .. n
  BY <1>1, InvoicingAssumption DEF Exists, Numbers
<1>3. Cardinality(1 .. n) = n
  BY FS_Interval, InvoicingAssumption
<1>4. Count = n
  BY <1>2, <1>3 DEF Count
<1> QED BY <1>1, <1>4, InvoicingAssumption

LEMMA CountInv == ASSUME Inv, NEW r \in Requests, CountInvoices(r) PROVE Inv'
<1> DEFINE s == [req[r] EXCEPT !.pc = "numbered", !.i = Count + 1]
<1>1. req' = [req EXCEPT ![r] = s] /\ UNCHANGED db /\ overlapped' \in BOOLEAN
  BY DEF CountInvoices, Inv, TypeOK
<1>2. req[r] \in Session /\ req[r].op = "generate" /\ Count < MaxInvoices
  BY DEF CountInvoices, Inv, TypeOK
<1>3. Count \in Nat /\ \A i \in Numbers : i <= Count <=> invoice[i].status # "NONE"
  BY CountIsLast DEF Inv, InvoicesInv
<1>4. Count + 1 \in Numbers
  BY <1>2, <1>3, InvoicingAssumption DEF Numbers
<1>5. \A j \in Numbers : j < Count + 1 => invoice[j].status # "NONE"
  BY <1>3 DEF Numbers
<1>6. /\ s \in Session /\ s.op = "generate" /\ s.pc = "numbered" /\ s.i = Count + 1
      /\ s.new = req[r].new
  BY <1>2, <1>4 DEF Session
<1>7. Knows(req[r], invoice, creditSum, signedOff)
  BY DEF Inv, SessionsKnow
<1> HIDE DEF s
<1>8. Knows(s, invoice, creditSum, signedOff)
  BY <1>2, <1>4, <1>5, <1>6, <1>7 DEF Knows, OnInvoice
<1>9. \A i \in Numbers : ~Holds(s, i)
  BY <1>6 DEF Holds
<1> QED BY <1>1, <1>6, <1>8, <1>9, SessionStep

LEMMA InsertInv == ASSUME Inv, NEW r \in Requests, InsertInvoice(r) PROVE Inv'
<1> DEFINE s == [req[r] EXCEPT !.pc = "flushed"]
<1>1. req' = [req EXCEPT ![r] = s] /\ UNCHANGED db /\ overlapped' \in BOOLEAN
  BY DEF InsertInvoice, Inv, TypeOK
<1>2. req[r] \in Session /\ req[r].op = "generate" /\ req[r].pc = "numbered"
  BY DEF InsertInvoice, Inv, TypeOK
<1>3. /\ s \in Session /\ s.op = "generate" /\ s.pc = "flushed" /\ s.i = req[r].i
      /\ s.new = req[r].new
  BY <1>2 DEF Session
<1>4. Knows(req[r], invoice, creditSum, signedOff)
  BY DEF Inv, SessionsKnow
<1> HIDE DEF s
<1>5. Knows(s, invoice, creditSum, signedOff)
  BY <1>2, <1>3, <1>4 DEF Knows, OnInvoice
<1>6. \A i \in Numbers : Holds(s, i) =>
          invoice[i].status = "NONE" /\ \A q \in Requests : q # r => ~Holds(req[q], i)
  BY <1>3 DEF Holds, InsertInvoice, NumberIsFree, Exists
<1> QED BY <1>1, <1>3, <1>5, <1>6, SessionStep

LEMMA FlushInv == ASSUME Inv, NEW r \in Requests, FlushInvoice(r) PROVE Inv'
<1> DEFINE s == [req[r] EXCEPT !.pc = "flushed"]
<1>1. req' = [req EXCEPT ![r] = s] /\ UNCHANGED db /\ overlapped' \in BOOLEAN
  BY DEF FlushInvoice, Inv, TypeOK
<1>2. req[r] \in Session /\ req[r].op \in {"approve", "send"}
  BY DEF FlushInvoice, Inv, TypeOK
<1>3. /\ s \in Session /\ s.op = req[r].op /\ s.i = req[r].i /\ s.row = req[r].row
      /\ s.new = req[r].new
  BY <1>2 DEF Session
<1>4. Knows(req[r], invoice, creditSum, signedOff)
  BY DEF Inv, SessionsKnow
<1> HIDE DEF s
<1>5. Knows(s, invoice, creditSum, signedOff)
  BY <1>2, <1>3, <1>4 DEF Knows, OnInvoice
<1>6. \A i \in Numbers : ~Holds(s, i)
  BY <1>2, <1>3 DEF Holds
<1> QED BY <1>1, <1>3, <1>5, <1>6, SessionStep

\* The session after the sum of the credit notes.
LEMMA SumSession ==
    ASSUME TypeOK, NEW r \in Requests, SumCredits(r)
    PROVE  \E s \in Session :
             /\ req' = [req EXCEPT ![r] = s] /\ UNCHANGED db /\ UNCHANGED overlapped
             /\ req[r].pc = "loaded" /\ req[r].op = "credit"
             /\ Creditable(req[r].row.total, creditSum[req[r].i], req[r].amount)
             /\ s.pc = "summed" /\ s.op = "credit" /\ s.i = req[r].i /\ s.row = req[r].row
             /\ s.amount = req[r].amount
             /\ s.new.status = IF FullyCredited(req[r].row.total, creditSum[req[r].i] + req[r].amount)
                               THEN "CREDITED" ELSE req[r].new.status
<1> DEFINE o == req[r]
           status == IF FullyCredited(o.row.total, creditSum[o.i] + o.amount) THEN "CREDITED" ELSE o.new.status
           s == [o EXCEPT !.pc = "summed", !.new.status = status]
<1>1. o \in Session /\ o.new \in InvoiceRow
  BY DEF TypeOK, Session
<1>2. status \in InvoiceStatus
  BY <1>1 DEF InvoiceRow, InvoiceStatus
<1>3. req' = [req EXCEPT ![r] = s] /\ UNCHANGED db /\ UNCHANGED overlapped
  BY DEF SumCredits
<1>4. o.pc = "loaded" /\ o.op = "credit" /\ Creditable(o.row.total, creditSum[o.i], o.amount)
  BY DEF SumCredits
<1> HIDE DEF status, o
<1>5. /\ s \in Session /\ s.pc = "summed" /\ s.op = o.op /\ s.i = o.i /\ s.row = o.row
      /\ s.amount = o.amount /\ s.new.status = status
  BY <1>1, <1>2 DEF Session, InvoiceRow
<1> HIDE DEF s
<1> QED BY <1>3, <1>4, <1>5 DEF o, status

LEMMA SumInv == ASSUME Inv, NEW r \in Requests, SumCredits(r) PROVE Inv'
<1>1. PICK s \in Session :
        /\ req' = [req EXCEPT ![r] = s] /\ UNCHANGED db /\ UNCHANGED overlapped
        /\ req[r].pc = "loaded" /\ req[r].op = "credit"
        /\ Creditable(req[r].row.total, creditSum[req[r].i], req[r].amount)
        /\ s.pc = "summed" /\ s.op = "credit" /\ s.i = req[r].i /\ s.row = req[r].row
        /\ s.amount = req[r].amount
        /\ s.new.status = IF FullyCredited(req[r].row.total, creditSum[req[r].i] + req[r].amount)
                          THEN "CREDITED" ELSE req[r].new.status
  BY SumSession DEF Inv
<1>2. Knows(req[r], invoice, creditSum, signedOff)
  BY DEF Inv, SessionsKnow
<1>3. overlapped' \in BOOLEAN
  BY <1>1 DEF Inv, TypeOK
<1>4. Knows(s, invoice, creditSum, signedOff)
  BY <1>1, <1>2 DEF Knows, OnInvoice, FullyCredited
<1>5. \A i \in Numbers : ~Holds(s, i)
  BY <1>1 DEF Holds
<1> QED BY <1>1, <1>3, <1>4, <1>5, SessionStep

LEMMA CountNotesInv == ASSUME Inv, NEW r \in Requests, CountNotes(r) PROVE Inv'
<1> DEFINE s == [req[r] EXCEPT !.pc = "numbered", !.seq = noteCount[req[r].op] + 1]
<1>1. req' = [req EXCEPT ![r] = s] /\ UNCHANGED db /\ overlapped' \in BOOLEAN
  BY DEF CountNotes, Inv, TypeOK
<1>2. req[r] \in Session /\ req[r].op \in {"credit", "debit"}
  BY DEF CountNotes, Inv, TypeOK
<1>3. noteCount[req[r].op] + 1 \in Nat
  BY <1>2 DEF Inv, TypeOK
<1>4. /\ s \in Session /\ s.op = req[r].op /\ s.i = req[r].i /\ s.row = req[r].row
      /\ s.new = req[r].new /\ s.amount = req[r].amount
  BY <1>2, <1>3 DEF Session
<1>5. Knows(req[r], invoice, creditSum, signedOff)
  BY DEF Inv, SessionsKnow
<1> HIDE DEF s
<1>6. Knows(s, invoice, creditSum, signedOff)
  BY <1>2, <1>4, <1>5 DEF Knows, OnInvoice
<1>7. \A i \in Numbers : ~Holds(s, i)
  BY <1>2, <1>4 DEF Holds
<1> QED BY <1>1, <1>4, <1>6, <1>7, SessionStep

LEMMA InsertNoteInv == ASSUME Inv, NEW r \in Requests, InsertNote(r) PROVE Inv'
<1> DEFINE s == [req[r] EXCEPT !.pc = "flushed"]
<1>1. req' = [req EXCEPT ![r] = s] /\ UNCHANGED db /\ overlapped' \in BOOLEAN
  BY DEF InsertNote, Inv, TypeOK
<1>2. req[r] \in Session /\ req[r].op \in {"credit", "debit"}
  BY DEF InsertNote, Inv, TypeOK
<1>3. /\ s \in Session /\ s.op = req[r].op /\ s.i = req[r].i /\ s.row = req[r].row
      /\ s.new = req[r].new /\ s.amount = req[r].amount
  BY <1>2 DEF Session
<1>4. Knows(req[r], invoice, creditSum, signedOff)
  BY DEF Inv, SessionsKnow
<1> HIDE DEF s
<1>5. Knows(s, invoice, creditSum, signedOff)
  BY <1>2, <1>3, <1>4 DEF Knows, OnInvoice
<1>6. \A i \in Numbers : ~Holds(s, i)
  BY <1>2, <1>3 DEF Holds
<1> QED BY <1>1, <1>3, <1>5, <1>6, SessionStep

-----------------------------------------------------------------------------
(* Commits                                                                  *)

\* What a commit leaves of what the other sessions know.
Grows ==
    /\ \A i \in Numbers : invoice[i].status # "NONE" =>
          /\ invoice'[i].status # "NONE" /\ invoice'[i].total = invoice[i].total
          /\ invoice'[i].lines = invoice[i].lines
    /\ \A i \in Numbers : creditSum'[i] >= creditSum[i]
    /\ signedOff \subseteq signedOff'

LEMMA StillKnows ==
    ASSUME TypeOK, TypeOK', Grows, NEW s \in Session, Knows(s, invoice, creditSum, signedOff)
    PROVE  Knows(s, invoice', creditSum', signedOff')
<1>1. s.op \in OnInvoice =>
        s.i \in Numbers /\ invoice'[s.i].status # "NONE" /\ s.row.total = invoice'[s.i].total
  BY DEF Knows, Grows
<1>2. s.op = "send" => s.new.status = "SENT" /\ (s.row.total > Threshold => s.i \in signedOff')
  BY DEF Knows, Grows
<1>3. s.op = "credit" =>
        s.new.status = s.row.status
        \/ (s.new.status = "CREDITED" /\ creditSum'[s.i] + s.amount >= s.row.total)
  <2> SUFFICES ASSUME s.op = "credit", s.new.status # s.row.status
               PROVE  s.new.status = "CREDITED" /\ creditSum'[s.i] + s.amount >= s.row.total
    OBVIOUS
  <2>1. s.i \in Numbers /\ s.new.status = "CREDITED" /\ creditSum[s.i] + s.amount >= s.row.total
    BY DEF Knows, OnInvoice
  <2>2. creditSum'[s.i] >= creditSum[s.i] /\ creditSum[s.i] \in Nat /\ creditSum'[s.i] \in Nat
    BY <2>1 DEF Grows, TypeOK
  <2>3. s.amount \in Nat /\ s.row.total \in Nat
    BY DEF Session, InvoiceRow
  <2> QED BY <2>1, <2>2, <2>3
<1>4. s.op = "generate" /\ s.pc \in {"numbered", "flushed"} =>
        s.i \in Numbers /\ \A j \in Numbers : j < s.i => invoice'[j].status # "NONE"
  BY DEF Knows, Grows
<1> QED BY <1>1, <1>2, <1>3, <1>4 DEF Knows

\* A commit ends the session; of the numbers, at most its own is given out.
LEMMA CommitStep ==
    ASSUME Inv, NEW r \in Requests, req' = [req EXCEPT ![r] = Idle],
           TypeOK', InvoicesInv', Grows,
           \A i \in Numbers : invoice[i].status = "NONE" /\ invoice'[i].status # "NONE" => Holds(req[r], i)
    PROVE  Inv'
<1>1. req'[r] = Idle /\ \A q \in Requests : q # r => req'[q] = req[q]
  BY DEF Inv, TypeOK
<1>2. Knows(Idle, invoice', creditSum', signedOff') /\ \A i \in Numbers : ~Holds(Idle, i)
  BY DEF Idle, Knows, Holds, OnInvoice
<1>3. SessionsKnow'
  <2> SUFFICES ASSUME NEW q \in Requests PROVE Knows(req'[q], invoice', creditSum', signedOff')
    BY DEF SessionsKnow, Knows
  <2>1. CASE q = r
    BY <1>1, <1>2, <2>1
  <2>2. CASE q # r
    <3>1. req[q] \in Session /\ Knows(req[q], invoice, creditSum, signedOff) /\ TypeOK
      BY DEF Inv, TypeOK, SessionsKnow
    <3>2. Knows(req[q], invoice', creditSum', signedOff')
      BY <3>1, StillKnows
    <3> QED BY <1>1, <2>2, <3>2
  <2> QED BY <2>1, <2>2
<1>4. Reserved'
  <2> SUFFICES ASSUME NEW q \in Requests, NEW i \in Numbers, Holds(req'[q], i)
               PROVE  invoice'[i].status = "NONE" /\ \A p \in Requests : Holds(req'[p], i) => p = q
    BY DEF Reserved, Holds
  <2>1. q # r /\ Holds(req[q], i)
    BY <1>1, <1>2
  <2>2. invoice[i].status = "NONE" /\ ~Holds(req[r], i)
    BY <2>1 DEF Inv, Reserved
  <2>3. \A p \in Requests : Holds(req'[p], i) => p = q
    <3> SUFFICES ASSUME NEW p \in Requests, Holds(req'[p], i) PROVE p = q
      OBVIOUS
    <3>1. p # r /\ Holds(req[p], i)
      BY <1>1, <1>2
    <3> QED BY <2>1, <3>1 DEF Inv, Reserved
  <2> QED BY <2>2, <2>3
<1> QED BY <1>3, <1>4 DEF Inv

\* generate_invoice commits: the invoice takes the next number.
LEMMA CommitInvoiceInv == ASSUME Inv, NEW r \in Requests, CommitInvoice(r) PROVE Inv'
<1> DEFINE s == req[r]
<1>1. s \in Session /\ s.op = "generate" /\ s.pc = "flushed" /\ s.new \in InvoiceRow
  BY DEF CommitInvoice, Inv, TypeOK, Session
<1>2. /\ s.i \in Numbers /\ s.new.status \in {"PENDING_APPROVAL", "APPROVED"}
      /\ s.new.total > Threshold => s.new.status = "PENDING_APPROVAL"
      /\ \A j \in Numbers : j < s.i => invoice[j].status # "NONE"
  BY <1>1 DEF Inv, SessionsKnow, Knows
<1>3. invoice[s.i].status = "NONE" /\ Holds(s, s.i)
  BY <1>1, <1>2 DEF Inv, Reserved, Holds
<1>4. /\ invoice' = [invoice EXCEPT ![s.i] = s.new] /\ revStatus' = MarkInvoiced(s)
      /\ req' = [req EXCEPT ![r] = Idle]
      /\ UNCHANGED <<noteCount, creditSum, debitSum, sends, signedOff, overlapped>>
  BY DEF CommitInvoice
<1>5. invoice'[s.i] = s.new /\ \A i \in Numbers : i # s.i => invoice'[i] = invoice[i]
  BY <1>2, <1>4 DEF Inv, TypeOK
<1>6. \A l \in RevLines : revStatus'[l] = IF l \in s.new.lines THEN "INVOICED" ELSE revStatus[l]
  BY <1>4 DEF MarkInvoiced
<1> HIDE DEF s
<1>7. TypeOK'
  <2>1. invoice' \in [Numbers -> InvoiceRow]
    BY <1>1, <1>4 DEF Inv, TypeOK
  <2>2. revStatus' \in [RevLines -> RevStatus]
    BY <1>4 DEF Inv, TypeOK, MarkInvoiced, RevStatus
  <2>3. req' \in [Requests -> Session]
    BY <1>4, RowTypes DEF Inv, TypeOK
  <2> QED BY <1>4, <2>1, <2>2, <2>3 DEF Inv, TypeOK
<1>8. \A i \in Numbers : Unissued(i, invoice, creditSum, sends, signedOff)'
  BY <1>2, <1>4, <1>5 DEF Inv, InvoicesInv, Unissued
<1>9. \A i \in Numbers : SignedOff(i, invoice, signedOff)'
  BY <1>2, <1>4, <1>5 DEF Inv, InvoicesInv, SignedOff
<1>10. GivenOut(invoice)'
  <2>1. PICK n \in 0 .. MaxInvoices : \A i \in Numbers : invoice[i].status # "NONE" <=> i <= n
    BY DEF Inv, InvoicesInv, GivenOut
  <2>2. s.i = n + 1
    <3>1. s.i > n /\ n \in Nat /\ s.i \in Nat /\ s.i <= MaxInvoices
      BY <1>2, <1>3, <2>1, InvoicingAssumption DEF Numbers
    <3>2. n + 1 < s.i => FALSE
      <4> SUFFICES ASSUME n + 1 < s.i PROVE FALSE
        OBVIOUS
      <4>1. n + 1 \in Numbers
        BY <3>1, InvoicingAssumption DEF Numbers
      <4> QED BY <1>2, <2>1, <3>1, <4>1
    <3> QED BY <3>1, <3>2
  <2>3. s.i \in 0 .. MaxInvoices
    BY <1>2, InvoicingAssumption DEF Numbers
  <2>4. ASSUME NEW i \in Numbers PROVE invoice'[i].status # "NONE" <=> i <= s.i
    <3>1. CASE i = s.i
      BY <1>2, <1>5, <3>1 DEF Numbers
    <3>2. CASE i # s.i
      BY <1>5, <2>1, <2>2, <3>2, InvoicingAssumption DEF Numbers
    <3> QED BY <3>1, <3>2
  <2> QED BY <2>3, <2>4 DEF GivenOut
<1>11. Marked(invoice, revStatus)'
  <2> SUFFICES ASSUME NEW i \in Numbers, NEW l \in invoice'[i].lines PROVE revStatus'[l] = "INVOICED"
    BY DEF Marked
  <2>1. l \in RevLines
    BY <1>7 DEF TypeOK, InvoiceRow
  <2>2. CASE i = s.i
    BY <1>5, <1>6, <2>1, <2>2
  <2>3. CASE i # s.i
    <3>1. revStatus[l] = "INVOICED"
      BY <1>5, <2>3 DEF Inv, InvoicesInv, Marked
    <3> QED BY <1>6, <2>1, <3>1
  <2> QED BY <2>2, <2>3
<1>12. sends[s.i] = 0 /\ creditSum[s.i] = 0
  BY <1>2, <1>3 DEF Inv, InvoicesInv, Unissued
<1>13. SentWasSignedOff'
  BY <1>4, <1>5, <1>12 DEF Inv, InvoicesInv, SentWasSignedOff
<1>14. CreditedIsCovered'
  BY <1>2, <1>4, <1>5 DEF Inv, InvoicesInv, CreditedIsCovered
<1>15. InvoicesInv'
  BY <1>8, <1>9, <1>10, <1>11, <1>13, <1>14 DEF InvoicesInv
<1>16. Grows
  <2>1. \A i \in Numbers : creditSum'[i] >= creditSum[i]
    BY <1>4 DEF Inv, TypeOK
  <2> QED BY <1>3, <1>4, <1>5, <2>1 DEF Grows
<1>17. \A i \in Numbers : invoice[i].status = "NONE" /\ invoice'[i].status # "NONE" => Holds(req[r], i)
  BY <1>3, <1>5 DEF s
<1> QED BY <1>4, <1>7, <1>15, <1>16, <1>17, CommitStep

\* The row a column-wise UPDATE leaves.
LEMMA UpdatedFields ==
    ASSUME TypeOK, NEW s \in Session, s.i \in Numbers
    PROVE  /\ UpdatedRow(s) \in InvoiceRow
           /\ UpdatedRow(s).total = invoice[s.i].total /\ UpdatedRow(s).lines = invoice[s.i].lines
           /\ UpdatedRow(s).status = IF s.new.status = s.row.status THEN invoice[s.i].status ELSE s.new.status
<1> DEFINE row == invoice[s.i]
           status == Written(row.status, s.row.status, s.new.status)
           approval == Written(row.approval, s.row.approval, s.new.approval)
<1>1. row \in InvoiceRow /\ s.row \in InvoiceRow /\ s.new \in InvoiceRow
  BY DEF TypeOK, Session
<1>2. status \in InvoiceStatus /\ approval \in Approval
  BY <1>1 DEF Written, InvoiceRow
<1>3. UpdatedRow(s) = [row EXCEPT !.status = status, !.approval = approval]
  BY <1>1 DEF UpdatedRow, InvoiceRow
<1>4. status = IF s.new.status = s.row.status THEN row.status ELSE s.new.status
  BY DEF Written
<1> HIDE DEF row, status, approval
<1>5. LET u == [row EXCEPT !.status = status, !.approval = approval]
      IN  u \in InvoiceRow /\ u.total = row.total /\ u.lines = row.lines /\ u.status = status
  BY <1>1, <1>2 DEF InvoiceRow
<1> QED BY <1>3, <1>4, <1>5 DEF row

\* A commit that updates the row of an invoice and not its lines: what is left
\* to show is the new status, against the credits and the approvals.
LEMMA UpdateStep ==
    ASSUME Inv, NEW r \in Requests, req[r].op \in OnInvoice,
           invoice' = [invoice EXCEPT ![req[r].i] = UpdatedRow(req[r])],
           req' = [req EXCEPT ![r] = Idle], TypeOK', UNCHANGED revStatus,
           \A i \in Numbers : creditSum'[i] >= creditSum[i],
           \A i \in Numbers : i # req[r].i => creditSum'[i] = creditSum[i] /\ sends'[i] = sends[i],
           signedOff \subseteq signedOff' /\ signedOff' \subseteq signedOff \cup {req[r].i},
           SignedOff(req[r].i, invoice', signedOff'),
           sends'[req[r].i] > 0 /\ invoice'[req[r].i].total > Threshold => req[r].i \in signedOff',
           invoice'[req[r].i].status = "CREDITED" => creditSum'[req[r].i] >= invoice'[req[r].i].total,
           invoice'[req[r].i].status # "NONE"
    PROVE  Inv'
<1> DEFINE k == req[r].i
           u == UpdatedRow(req[r])
<1>1. req[r] \in Session /\ k \in Numbers /\ invoice[k].status # "NONE"
  BY DEF Inv, TypeOK, SessionsKnow, Knows
<1>2. u.total = invoice[k].total /\ u.lines = invoice[k].lines
  BY <1>1, UpdatedFields DEF Inv
<1>3. invoice'[k] = u /\ \A i \in Numbers : i # k => invoice'[i] = invoice[i]
  BY <1>1 DEF Inv, TypeOK
<1> HIDE DEF k, u
<1>4. \A i \in Numbers : Unissued(i, invoice', creditSum', sends', signedOff')
  <2> SUFFICES ASSUME NEW i \in Numbers, invoice'[i].status = "NONE"
               PROVE  /\ invoice'[i].lines = {} /\ invoice'[i].total = 0 /\ creditSum'[i] = 0
                      /\ sends'[i] = 0 /\ i \notin signedOff'
    BY DEF Unissued
  <2>1. i # k /\ invoice'[i] = invoice[i]
    BY <1>3 DEF k
  <2>2. Unissued(i, invoice, creditSum, sends, signedOff)
    BY DEF Inv, InvoicesInv
  <2> QED BY <2>1, <2>2 DEF Unissued, k
<1>5. \A i \in Numbers : SignedOff(i, invoice', signedOff')
  <2> SUFFICES ASSUME NEW i \in Numbers PROVE SignedOff(i, invoice', signedOff')
    OBVIOUS
  <2>1. CASE i = k
    BY <2>1 DEF k
  <2>2. CASE i # k
    BY <1>3, <2>2 DEF Inv, InvoicesInv, SignedOff
  <2> QED BY <2>1, <2>2
<1>6. \A i \in Numbers : invoice'[i].status # "NONE" <=> invoice[i].status # "NONE"
  BY <1>1, <1>3 DEF k
<1>7. GivenOut(invoice')
  BY <1>6 DEF Inv, InvoicesInv, GivenOut
<1>8. \A i \in Numbers : invoice'[i].lines = invoice[i].lines /\ invoice'[i].total = invoice[i].total
  BY <1>2, <1>3
<1>9. Marked(invoice', revStatus')
  BY <1>8 DEF Inv, InvoicesInv, Marked
<1>10. SentWasSignedOff'
  <2> SUFFICES ASSUME NEW i \in Numbers, sends'[i] > 0, invoice'[i].total > Threshold PROVE i \in signedOff'
    BY DEF SentWasSignedOff
  <2>1. CASE i = k
    BY <2>1 DEF k
  <2>2. CASE i # k
    <3>1. sends'[i] = sends[i]
      BY <2>2 DEF k
    <3> QED BY <1>3, <2>2, <3>1 DEF Inv, InvoicesInv, SentWasSignedOff
  <2> QED BY <2>1, <2>2
<1>11. CreditedIsCovered'
  <2> SUFFICES ASSUME NEW i \in Numbers, invoice'[i].status = "CREDITED" PROVE creditSum'[i] >= invoice'[i].total
    BY DEF CreditedIsCovered
  <2>1. CASE i = k
    BY <2>1 DEF k
  <2>2. CASE i # k
    <3>1. creditSum'[i] = creditSum[i]
      BY <2>2 DEF k
    <3> QED BY <1>3, <2>2, <3>1 DEF Inv, InvoicesInv, CreditedIsCovered
  <2> QED BY <2>1, <2>2
<1>12. InvoicesInv'
  BY <1>4, <1>5, <1>7, <1>9, <1>10, <1>11 DEF InvoicesInv, Unissued, SignedOff, GivenOut, Marked
<1>13. Grows
  BY <1>6, <1>8 DEF Grows
<1>14. \A i \in Numbers : invoice[i].status = "NONE" /\ invoice'[i].status # "NONE" => Holds(req[r], i)
  BY <1>6
<1> QED BY <1>12, <1>13, <1>14, CommitStep

\* The types after a commit that updates an invoice.
LEMMA UpdateTypes ==
    ASSUME TypeOK, NEW r \in Requests, req[r].i \in Numbers,
           invoice' = [invoice EXCEPT ![req[r].i] = UpdatedRow(req[r])],
           req' = [req EXCEPT ![r] = Idle]
    PROVE  /\ invoice' \in [Numbers -> InvoiceRow] /\ req' \in [Requests -> Session]
           /\ invoice'[req[r].i].total = invoice[req[r].i].total
           /\ invoice'[req[r].i].lines = invoice[req[r].i].lines
           /\ invoice'[req[r].i].status = IF req[r].new.status = req[r].row.status
                                          THEN invoice[req[r].i].status ELSE req[r].new.status
<1>1. req[r] \in Session
  BY DEF TypeOK
<1> DEFINE u == UpdatedRow(req[r])
<1>2. /\ u \in InvoiceRow /\ u.total = invoice[req[r].i].total /\ u.lines = invoice[req[r].i].lines
      /\ u.status = IF req[r].new.status = req[r].row.status
                    THEN invoice[req[r].i].status ELSE req[r].new.status
  BY <1>1, UpdatedFields
<1> HIDE DEF u
<1>3. invoice' \in [Numbers -> InvoiceRow] /\ invoice'[req[r].i] = u
  BY <1>2 DEF TypeOK, u
<1>4. req' \in [Requests -> Session]
  BY RowTypes DEF TypeOK
<1> QED BY <1>2, <1>3, <1>4

LEMMA CommitApprovalInv == ASSUME Inv, NEW r \in Requests, CommitApproval(r) PROVE Inv'
<1> DEFINE s == req[r]
           k == s.i
<1>1. /\ s.op = "approve"
      /\ invoice' = [invoice EXCEPT ![k] = UpdatedRow(s)]
      /\ signedOff' = signedOff \cup {k}
      /\ req' = [req EXCEPT ![r] = Idle]
      /\ UNCHANGED <<revStatus, noteCount, creditSum, debitSum, sends, overlapped>>
  BY DEF CommitApproval
<1>2. /\ TypeOK /\ k \in Numbers /\ invoice[k].status # "NONE" /\ s.new.status = "APPROVED"
  BY <1>1 DEF Inv, SessionsKnow, Knows, OnInvoice
<1>3. /\ invoice' \in [Numbers -> InvoiceRow] /\ req' \in [Requests -> Session]
      /\ invoice'[k].total = invoice[k].total
      /\ invoice'[k].status = IF s.new.status = s.row.status THEN invoice[k].status ELSE s.new.status
  BY <1>1, <1>2, UpdateTypes
<1>4. TypeOK'
  BY <1>1, <1>2, <1>3 DEF TypeOK
<1>5. \A i \in Numbers : creditSum'[i] >= creditSum[i]
  BY <1>1, <1>2 DEF TypeOK
<1>6. SignedOff(k, invoice', signedOff')
  BY <1>1 DEF SignedOff
<1>7. invoice'[k].status = "CREDITED" => creditSum'[k] >= invoice'[k].total
  <2>1. invoice'[k].status = "CREDITED" => invoice[k].status = "CREDITED"
    BY <1>2, <1>3
  <2> QED BY <1>1, <1>2, <1>3, <2>1 DEF Inv, InvoicesInv, CreditedIsCovered
<1>8. invoice'[k].status # "NONE" /\ s.op \in OnInvoice
  BY <1>1, <1>2, <1>3 DEF OnInvoice
<1> QED BY <1>1, <1>4, <1>5, <1>6, <1>7, <1>8, UpdateStep

LEMMA CommitSendInv == ASSUME Inv, NEW r \in Requests, CommitSend(r) PROVE Inv'
<1> DEFINE s == req[r]
           k == s.i
<1>1. /\ s.op = "send"
      /\ invoice' = [invoice EXCEPT ![k] = UpdatedRow(s)]
      /\ sends' = [sends EXCEPT ![k] = @ + 1]
      /\ req' = [req EXCEPT ![r] = Idle]
      /\ UNCHANGED <<revStatus, noteCount, creditSum, debitSum, signedOff, overlapped>>
  BY DEF CommitSend
<1>2. /\ TypeOK /\ k \in Numbers /\ invoice[k].status # "NONE" /\ s.new.status = "SENT"
      /\ s.row.total = invoice[k].total /\ (s.row.total > Threshold => k \in signedOff)
  BY <1>1 DEF Inv, SessionsKnow, Knows, OnInvoice
<1>3. /\ invoice' \in [Numbers -> InvoiceRow] /\ req' \in [Requests -> Session]
      /\ invoice'[k].total = invoice[k].total
      /\ invoice'[k].status = IF s.new.status = s.row.status THEN invoice[k].status ELSE s.new.status
  BY <1>1, <1>2, UpdateTypes
<1>4. sends' \in [Numbers -> Nat] /\ \A i \in Numbers : i # k => sends'[i] = sends[i]
  BY <1>1, <1>2 DEF TypeOK
<1>5. TypeOK'
  BY <1>1, <1>2, <1>3, <1>4 DEF TypeOK
<1>6. \A i \in Numbers : creditSum'[i] >= creditSum[i]
  BY <1>1, <1>2 DEF TypeOK
<1>7. SignedOff(k, invoice', signedOff')
  BY <1>1, <1>2, <1>3 DEF SignedOff
<1>8. invoice'[k].status = "CREDITED" => creditSum'[k] >= invoice'[k].total
  <2>1. invoice'[k].status = "CREDITED" => invoice[k].status = "CREDITED"
    BY <1>2, <1>3
  <2> QED BY <1>1, <1>2, <1>3, <2>1 DEF Inv, InvoicesInv, CreditedIsCovered
<1>9. invoice'[k].status # "NONE" /\ s.op \in OnInvoice
  BY <1>1, <1>2, <1>3 DEF OnInvoice
<1>10. invoice'[k].total > Threshold => k \in signedOff'
  BY <1>1, <1>2, <1>3
<1> QED BY <1>1, <1>4, <1>5, <1>6, <1>7, <1>8, <1>9, <1>10, UpdateStep

LEMMA CommitNoteInv == ASSUME Inv, NEW r \in Requests, CommitNote(r) PROVE Inv'
<1> DEFINE s == req[r]
           k == s.i
<1>1. /\ s.op \in {"credit", "debit"}
      /\ invoice' = [invoice EXCEPT ![k] = UpdatedRow(s)]
      /\ noteCount' = [noteCount EXCEPT ![s.op] = @ + 1]
      /\ creditSum' = [creditSum EXCEPT ![k] = IF s.op = "credit" THEN @ + s.amount ELSE @]
      /\ debitSum' = [debitSum EXCEPT ![k] = IF s.op = "debit" THEN @ + s.amount ELSE @]
      /\ req' = [req EXCEPT ![r] = Idle]
      /\ UNCHANGED <<revStatus, sends, signedOff, overlapped>>
  BY DEF CommitNote
<1>2. /\ TypeOK /\ k \in Numbers /\ invoice[k].status # "NONE" /\ s.row.total = invoice[k].total
      /\ s.new.status = s.row.status
         \/ (s.op = "credit" /\ s.new.status = "CREDITED" /\ creditSum[k] + s.amount >= s.row.total)
  BY <1>1 DEF Inv, SessionsKnow, Knows, OnInvoice
<1>3. /\ invoice' \in [Numbers -> InvoiceRow] /\ req' \in [Requests -> Session]
      /\ invoice'[k].total = invoice[k].total
      /\ invoice'[k].status = IF s.new.status = s.row.status THEN invoice[k].status ELSE s.new.status
  BY <1>1, <1>2, UpdateTypes
<1>4. s.amount \in Nat /\ creditSum \in [Numbers -> Nat] /\ debitSum \in [Numbers -> Nat]
  BY <1>2 DEF TypeOK, Session
<1>5. /\ creditSum' \in [Numbers -> Nat] /\ debitSum' \in [Numbers -> Nat]
      /\ creditSum'[k] = IF s.op = "credit" THEN creditSum[k] + s.amount ELSE creditSum[k]
      /\ \A i \in Numbers : i # k => creditSum'[i] = creditSum[i]
  BY <1>1, <1>2, <1>4
<1>6. noteCount' \in [credit : Nat, debit : Nat]
  BY <1>1, <1>2 DEF TypeOK
<1>7. TypeOK'
  BY <1>1, <1>2, <1>3, <1>5, <1>6 DEF TypeOK
<1>8. \A i \in Numbers : creditSum'[i] >= creditSum[i]
  BY <1>4, <1>5
<1>9. SignedOff(k, invoice', signedOff')
  <2>1. SignedOff(k, invoice, signedOff)
    BY <1>2 DEF Inv, InvoicesInv
  <2> QED BY <1>1, <1>2, <1>3, <2>1 DEF SignedOff
<1>10. invoice'[k].status = "CREDITED" => creditSum'[k] >= invoice'[k].total
  <2>1. CASE s.new.status = s.row.status
    <3>1. invoice[k].status = "CREDITED" => creditSum[k] >= invoice[k].total
      BY <1>2 DEF Inv, InvoicesInv, CreditedIsCovered
    <3>2. invoice[k].total \in Nat
      BY <1>2 DEF TypeOK, InvoiceRow
    <3> QED BY <1>2, <1>3, <1>4, <1>5, <2>1, <3>1, <3>2
  <2>2. CASE s.new.status # s.row.status
    BY <1>2, <1>3, <1>5, <2>2
  <2> QED BY <2>1, <2>2
<1>11. invoice'[k].status # "NONE" /\ s.op \in OnInvoice
  BY <1>1, <1>2, <1>3 DEF OnInvoice
<1>12. sends[k] > 0 /\ invoice'[k].total > Threshold => k \in signedOff'
  BY <1>1, <1>2, <1>3 DEF Inv, InvoicesInv, SentWasSignedOff
<1> QED BY <1>1, <1>5, <1>7, <1>8, <1>9, <1>10, <1>11, <1>12, UpdateStep

LEMMA NextInv == Inv /\ [Next]_vars => Inv'
<1> SUFFICES ASSUME Inv, [Next]_vars PROVE Inv'
  OBVIOUS
<1>1. CASE UNCHANGED vars
  <2>1. TypeOK'
    BY <1>1 DEF Inv, TypeOK, vars, db
  <2>2. InvoicesInv'
    BY <1>1 DEF Inv, vars, InvoicesInv, db, Unissued, SignedOff, GivenOut, Marked, SentWasSignedOff, CreditedIsCovered
  <2>3. Reserved' /\ SessionsKnow'
    BY <1>1 DEF Inv, vars, db, Reserved, SessionsKnow, Knows, Holds
  <2> QED BY <2>1, <2>2, <2>3 DEF Inv
<1>2. ASSUME NEW r \in Requests, Begin(r) PROVE Inv'
  <2>1. ASSUME NEW body \in Bodies, NEW lines \in SUBSET RevLines, LoadLines(r, lines, body) PROVE Inv'
    BY <2>1, LinesInv
  <2>2. OpenLines \in SUBSET RevLines
    BY DEF OpenLines
  <2>3. ASSUME NEW i \in Numbers, LoadApprove(r, i) PROVE Inv'
    BY <2>3, ApproveInv
  <2>4. ASSUME NEW i \in Numbers, LoadSend(r, i) PROVE Inv'
    BY <2>4, SendInv
  <2>5. ASSUME NEW i \in Numbers, NEW op \in {"credit", "debit"}, NEW amount \in NoteAmounts,
               LoadNote(r, op, i, amount)
        PROVE  Inv'
    BY <2>5, NoteInv
  <2> QED BY <1>2, <2>1, <2>2, <2>3, <2>4, <2>5 DEF Begin
<1>3. ASSUME NEW r \in Requests, Proceed(r) PROVE Inv'
  BY <1>3, CountInv, InsertInv, FlushInv, SumInv, CountNotesInv, InsertNoteInv, CommitInvoiceInv,
     CommitApprovalInv, CommitSendInv, CommitNoteInv, RollbackInv DEF Proceed
<1> QED BY <1>1, <1>2, <1>3 DEF Next

LEMMA Invariance == Spec => []Inv
<1> QED BY InitInv, NextInv, PTL DEF Spec

\* The invoicing tables and sessions keep their types.
THEOREM InvoicingTypeCorrect == Spec => []TypeOK
<1>1. Inv => TypeOK
  BY DEF Inv
<1> QED BY <1>1, Invariance, PTL

\* send_invoice: however approvals, dispatches and notes interleave, an invoice
\* over the threshold is dispatched only after an explicit approval.
THEOREM DispatchesSignedOff == Spec => []SentWasSignedOff
<1>1. Inv => SentWasSignedOff
  BY DEF Inv, InvoicesInv
<1> QED BY <1>1, Invariance, PTL

\* create_credit_note: however requests interleave, an invoice marked CREDITED
\* is covered by its credit notes.
THEOREM CreditedInvoicesCovered == Spec => []CreditedIsCovered
<1>1. Inv => CreditedIsCovered
  BY DEF Inv, InvoicesInv
<1> QED BY <1>1, Invariance, PTL

\* generate_invoice: count() + 1 and the unique key give out the numbers without
\* a gap, and every revenue line on an invoice is marked.
THEOREM NumbersStayDense == Spec => []NumbersAndLinesAgree
<1>1. ASSUME Inv PROVE NumbersAndLinesAgree
  <2>1. PICK n \in 0 .. MaxInvoices : \A i \in Numbers : invoice[i].status # "NONE" <=> i <= n
    BY <1>1 DEF Inv, InvoicesInv, GivenOut
  <2>2. ASSUME NEW i \in Numbers, Exists(i), NEW j \in 1 .. i PROVE Exists(j)
    <3>1. j \in Numbers /\ j <= n
      BY <2>1, <2>2, InvoicingAssumption DEF Exists, Numbers
    <3> QED BY <2>1, <3>1 DEF Exists
  <2>3. Marked(invoice, revStatus)
    BY <1>1 DEF Inv, InvoicesInv
  <2> QED BY <2>2, <2>3 DEF NumbersAndLinesAgree, Marked
<1> QED BY <1>1, Invariance, PTL

-----------------------------------------------------------------------------
(* Until requests overlap                                                   *)

\* What a session relies on while it is the only one.
Fits(s, table, credits, rev) ==
    /\ s.op \in OnInvoice => s.row = table[s.i]
    /\ s.op = "approve" => s.row.status = "PENDING_APPROVAL"
    /\ s.op = "send" => s.row.status \in {"APPROVED", "SENT"}
    /\ s.op = "credit" => s.amount > 0
    /\ s.op = "credit" /\ s.pc = "loaded" => s.new.status = s.row.status
    /\ s.op = "credit" /\ s.pc # "loaded" =>
         /\ credits[s.i] + s.amount <= s.row.total
         /\ s.new.status = IF credits[s.i] + s.amount = s.row.total THEN "CREDITED" ELSE s.row.status
    /\ s.op = "generate" => \A l \in s.new.lines : rev[l] # "INVOICED"

Alone == \A q, r \in Requests : req[q].pc # "idle" /\ req[r].pc # "idle" => q = r

SessionsFit == \A r \in Requests : req[r].pc # "idle" => Fits(req[r], invoice, creditSum, revStatus)

SerialInv ==
    /\ ~overlapped => Alone /\ SessionsFit
    /\ CreditsWithinInvoice /\ BilledOnce

LEMMA SerialInit == Init => SerialInv
<1> SUFFICES ASSUME Init PROVE SerialInv
  OBVIOUS
<1>1. \A r \in Requests : req[r].pc = "idle"
  BY DEF Init, Idle
<1>2. \A i \in Numbers : invoice[i] = NoInvoice /\ creditSum[i] = 0
  BY DEF Init
<1>3. \A i \in Numbers : invoice[i].total = 0 /\ invoice[i].lines = {}
  BY <1>2 DEF NoInvoice
<1>4. Alone /\ SessionsFit
  BY <1>1 DEF Alone, SessionsFit
<1>5. CreditsWithinInvoice
  BY <1>2, <1>3 DEF CreditsWithinInvoice
<1>6. BilledOnce
  BY <1>3 DEF BilledOnce
<1> QED BY <1>4, <1>5, <1>6 DEF SerialInv

\* The first of a series of requests begins, or the only one goes on.
LEMMA SerialSession ==
    ASSUME TypeOK, SerialInv, NEW r \in Requests, NEW s, req' = [req EXCEPT ![r] = s],
           UNCHANGED <<invoice, creditSum, revStatus>>,
           ~overlapped' => ~overlapped /\ \A q \in Requests : q # r => req[q].pc = "idle",
           ~overlapped' /\ s.pc # "idle" => Fits(s, invoice, creditSum, revStatus)
    PROVE  SerialInv'
<1>1. req'[r] = s /\ \A q \in Requests : q # r => req'[q] = req[q]
  BY DEF TypeOK
<1>2. ~overlapped' => Alone'
  BY <1>1 DEF Alone
<1>3. ~overlapped' => SessionsFit'
  <2> SUFFICES ASSUME ~overlapped', NEW q \in Requests, req'[q].pc # "idle"
               PROVE  Fits(req'[q], invoice, creditSum, revStatus)
    BY DEF SessionsFit, Fits
  <2>1. q = r
    BY <1>1
  <2> QED BY <1>1, <2>1
<1>4. CreditsWithinInvoice' /\ BilledOnce'
  BY DEF SerialInv, CreditsWithinInvoice, BilledOnce
<1> QED BY <1>2, <1>3, <1>4 DEF SerialInv

\* A request that begins without overlapping is alone.
LEMMA BeginsAlone ==
    ASSUME TypeOK, Overlaps
    PROVE  ~overlapped' => ~overlapped /\ \A q \in Requests : req[q].pc = "idle"
  BY DEF TypeOK, Overlaps

\* A request that goes on while nothing overlapped is the only one.
LEMMA GoesOnAlone ==
    ASSUME SerialInv, NEW r \in Requests, req[r].pc # "idle", UNCHANGED overlapped
    PROVE  /\ ~overlapped' => ~overlapped /\ \A q \in Requests : q # r => req[q].pc = "idle"
           /\ ~overlapped => Fits(req[r], invoice, creditSum, revStatus)
  BY DEF SerialInv, Alone, SessionsFit

\* A request begins.
LEMMA SerialBegins ==
    ASSUME TypeOK, SerialInv, NEW r \in Requests, NEW s, req' = [req EXCEPT ![r] = s],
           UNCHANGED db, Overlaps, Fits(s, invoice, creditSum, revStatus)
    PROVE  SerialInv'
<1>1. ~overlapped' => ~overlapped /\ \A q \in Requests : q # r => req[q].pc = "idle"
  BY BeginsAlone
<1>2. UNCHANGED <<invoice, creditSum, revStatus>>
  BY DEF db
<1> QED BY <1>1, <1>2, SerialSession

LEMMA SerialLines ==
    ASSUME TypeOK, SerialInv, NEW r \in Requests, NEW lines \in SUBSET RevLines, NEW body \in Bodies,
           LoadLines(r, lines, body)
    PROVE  SerialInv'
<1> DEFINE s == [Idle EXCEPT !.pc = "loaded", !.op = "generate", !.new = Priced(lines, body)]
<1>1. req' = [req EXCEPT ![r] = s] /\ UNCHANGED db /\ Overlaps
  BY DEF LoadLines, Priced
<1>2. s.op = "generate" /\ s.new.lines = lines
  BY PricedRow DEF Idle
<1>3. \A l \in lines : revStatus[l] # "INVOICED"
  BY DEF LoadLines, Eligible
<1> HIDE DEF s
<1>4. Fits(s, invoice, creditSum, revStatus)
  BY <1>2, <1>3 DEF Fits, OnInvoice
<1> QED BY <1>1, <1>4, SerialBegins

LEMMA SerialApprove ==
    ASSUME TypeOK, SerialInv, NEW r \in Requests, NEW i \in Numbers, LoadApprove(r, i)
    PROVE  SerialInv'
<1> DEFINE l == Loaded("approve", i, "summed", "APPROVED")
           s == [l EXCEPT !.new.approval = "APPROVED"]
<1>1. req' = [req EXCEPT ![r] = s] /\ UNCHANGED db /\ Overlaps /\ invoice[i].status = "PENDING_APPROVAL"
  BY DEF LoadApprove
<1>2. l \in Session /\ l.op = "approve" /\ l.i = i /\ l.row = invoice[i]
  <2>1. "approve" \in OnInvoice /\ "summed" \in {"loaded", "summed"} /\ "APPROVED" \in InvoiceStatus
    BY DEF OnInvoice, InvoiceStatus
  <2> QED BY <2>1, LoadedSession
<1> HIDE DEF l
<1>3. s.op = "approve" /\ s.i = i /\ s.row = invoice[i]
  BY <1>2 DEF Session
<1> HIDE DEF s
<1>4. Fits(s, invoice, creditSum, revStatus)
  BY <1>1, <1>3 DEF Fits
<1> QED BY <1>1, <1>4, SerialBegins

LEMMA SerialSend ==
    ASSUME TypeOK, SerialInv, NEW r \in Requests, NEW i \in Numbers, LoadSend(r, i)
    PROVE  SerialInv'
<1> DEFINE s == Loaded("send", i, "summed", "SENT")
<1>1. req' = [req EXCEPT ![r] = s] /\ UNCHANGED db /\ Overlaps /\ invoice[i].status \in {"APPROVED", "SENT"}
  BY DEF LoadSend, Sendable
<1>2. s.op = "send" /\ s.i = i /\ s.row = invoice[i]
  <2>1. "send" \in OnInvoice /\ "summed" \in {"loaded", "summed"} /\ "SENT" \in InvoiceStatus
    BY DEF OnInvoice, InvoiceStatus
  <2> QED BY <2>1, LoadedSession
<1> HIDE DEF s
<1>3. Fits(s, invoice, creditSum, revStatus)
  BY <1>1, <1>2 DEF Fits
<1> QED BY <1>1, <1>3, SerialBegins

LEMMA SerialNote ==
    ASSUME TypeOK, SerialInv, NEW r \in Requests, NEW op \in {"credit", "debit"}, NEW i \in Numbers,
           NEW amount \in NoteAmounts, LoadNote(r, op, i, amount)
    PROVE  SerialInv'
<1> DEFINE pc == IF op = "credit" THEN "loaded" ELSE "summed"
           l == Loaded(op, i, pc, invoice[i].status)
           s == [l EXCEPT !.amount = amount]
<1>1. req' = [req EXCEPT ![r] = s] /\ UNCHANGED db /\ Overlaps /\ amount > 0
  BY DEF LoadNote
<1>2. /\ pc \in {"loaded", "summed"} /\ (op = "credit" => pc = "loaded")
      /\ op \in OnInvoice /\ invoice[i].status \in InvoiceStatus
  BY DEF OnInvoice, TypeOK, InvoiceRow
<1> HIDE DEF pc
<1>3. /\ l \in Session /\ l.op = op /\ l.i = i /\ l.pc = pc /\ l.row = invoice[i]
      /\ l.new.status = invoice[i].status
  BY <1>2, LoadedSession
<1> HIDE DEF l
<1>4. /\ s.op = op /\ s.i = i /\ s.pc = pc /\ s.row = invoice[i] /\ s.amount = amount
      /\ s.new.status = invoice[i].status
  BY <1>3 DEF Session
<1> HIDE DEF s
<1>5. Fits(s, invoice, creditSum, revStatus)
  BY <1>1, <1>2, <1>4 DEF Fits
<1> QED BY <1>1, <1>5, SerialBegins

\* A request goes on.
LEMMA SerialGoesOn ==
    ASSUME TypeOK, SerialInv, NEW r \in Requests, NEW s, req' = [req EXCEPT ![r] = s],
           UNCHANGED db, UNCHANGED overlapped, req[r].pc # "idle",
           Fits(req[r], invoice, creditSum, revStatus) => Fits(s, invoice, creditSum, revStatus)
    PROVE  SerialInv'
<1>1. /\ ~overlapped' => ~overlapped /\ \A q \in Requests : q # r => req[q].pc = "idle"
      /\ ~overlapped => Fits(req[r], invoice, creditSum, revStatus)
  BY GoesOnAlone
<1>2. UNCHANGED <<invoice, creditSum, revStatus>>
  BY DEF db
<1> QED BY <1>1, <1>2, SerialSession

LEMMA SerialProceed ==
    ASSUME TypeOK, SerialInv, NEW r \in Requests,
           CountInvoices(r) \/ InsertInvoice(r) \/ FlushInvoice(r) \/ CountNotes(r) \/ InsertNote(r)
    PROVE  SerialInv'
<1>0. req[r] \in Session
  BY DEF TypeOK
<1>1. CASE CountInvoices(r)
  <2> DEFINE s == [req[r] EXCEPT !.pc = "numbered", !.i = Count + 1]
  <2>1. /\ req' = [req EXCEPT ![r] = s] /\ UNCHANGED db /\ UNCHANGED overlapped
        /\ req[r].pc = "loaded" /\ req[r].op = "generate"
    BY <1>1 DEF CountInvoices
  <2>2. s.op = "generate" /\ s.new = req[r].new
    BY <1>0, <2>1 DEF Session
  <2> HIDE DEF s
  <2>3. Fits(req[r], invoice, creditSum, revStatus) => Fits(s, invoice, creditSum, revStatus)
    BY <2>1, <2>2 DEF Fits, OnInvoice
  <2> QED BY <2>1, <2>3, SerialGoesOn
<1>2. CASE InsertInvoice(r) \/ FlushInvoice(r) \/ InsertNote(r)
  <2> DEFINE s == [req[r] EXCEPT !.pc = "flushed"]
  <2>1. /\ req' = [req EXCEPT ![r] = s] /\ UNCHANGED db /\ UNCHANGED overlapped
        /\ req[r].pc # "idle" /\ req[r].pc # "loaded"
    BY <1>2 DEF InsertInvoice, FlushInvoice, InsertNote
  <2>2. /\ s.op = req[r].op /\ s.new = req[r].new /\ s.row = req[r].row /\ s.i = req[r].i
        /\ s.amount = req[r].amount /\ s.pc = "flushed"
    BY <1>0 DEF Session
  <2> HIDE DEF s
  <2>3. Fits(req[r], invoice, creditSum, revStatus) => Fits(s, invoice, creditSum, revStatus)
    BY <2>1, <2>2 DEF Fits
  <2> QED BY <2>1, <2>3, SerialGoesOn
<1>3. CASE CountNotes(r)
  <2> DEFINE s == [req[r] EXCEPT !.pc = "numbered", !.seq = noteCount[req[r].op] + 1]
  <2>1. /\ req' = [req EXCEPT ![r] = s] /\ UNCHANGED db /\ UNCHANGED overlapped
        /\ req[r].pc # "idle" /\ req[r].pc # "loaded"
    BY <1>3 DEF CountNotes
  <2>2. /\ s.op = req[r].op /\ s.new = req[r].new /\ s.row = req[r].row /\ s.i = req[r].i
        /\ s.amount = req[r].amount /\ s.pc = "numbered"
    BY <1>0 DEF Session
  <2> HIDE DEF s
  <2>3. Fits(req[r], invoice, creditSum, revStatus) => Fits(s, invoice, creditSum, revStatus)
    BY <2>1, <2>2 DEF Fits
  <2> QED BY <2>1, <2>3, SerialGoesOn
<1> QED BY <1>1, <1>2, <1>3

\* The credit notes are summed: the new one fits what is left.
LEMMA SerialSum == ASSUME Inv, SerialInv, NEW r \in Requests, SumCredits(r) PROVE SerialInv'
<1>1. PICK s \in Session :
        /\ req' = [req EXCEPT ![r] = s] /\ UNCHANGED db /\ UNCHANGED overlapped
        /\ req[r].pc = "loaded" /\ req[r].op = "credit"
        /\ Creditable(req[r].row.total, creditSum[req[r].i], req[r].amount)
        /\ s.pc = "summed" /\ s.op = "credit" /\ s.i = req[r].i /\ s.row = req[r].row
        /\ s.amount = req[r].amount
        /\ s.new.status = IF FullyCredited(req[r].row.total, creditSum[req[r].i] + req[r].amount)
                          THEN "CREDITED" ELSE req[r].new.status
  BY SumSession DEF Inv
<1>2. /\ req[r].i \in Numbers /\ creditSum[req[r].i] \in Nat
      /\ req[r].row.total \in Nat /\ req[r].amount \in Nat
  BY <1>1 DEF Inv, TypeOK, SessionsKnow, Knows, OnInvoice, Session, InvoiceRow
<1>3. /\ creditSum[req[r].i] + req[r].amount <= req[r].row.total
      /\ FullyCredited(req[r].row.total, creditSum[req[r].i] + req[r].amount)
         <=> creditSum[req[r].i] + req[r].amount = req[r].row.total
  BY <1>1, <1>2 DEF Creditable, FullyCredited
<1>4. Fits(req[r], invoice, creditSum, revStatus) => Fits(s, invoice, creditSum, revStatus)
  BY <1>1, <1>3 DEF Fits
<1>5. TypeOK
  BY DEF Inv
<1> QED BY <1>1, <1>4, <1>5, SerialGoesOn

LEMMA SerialRollback == ASSUME TypeOK, SerialInv, NEW r \in Requests, Rollback(r) PROVE SerialInv'
<1>1. /\ req' = [req EXCEPT ![r] = Idle] /\ UNCHANGED db /\ UNCHANGED overlapped /\ req[r].pc # "idle"
  BY DEF Rollback
<1>2. Fits(Idle, invoice, creditSum, revStatus)
  BY DEF Fits, Idle, OnInvoice
<1> QED BY <1>1, <1>2, SerialGoesOn

\* The only request commits: no session is left.
LEMMA SerialCommits ==
    ASSUME TypeOK, SerialInv, NEW r \in Requests, req' = [req EXCEPT ![r] = Idle], req[r].pc # "idle",
           UNCHANGED overlapped, CreditsWithinInvoice', BilledOnce'
    PROVE  SerialInv'
<1>1. req'[r].pc = "idle" /\ \A q \in Requests : q # r => req'[q] = req[q]
  BY DEF TypeOK, Idle
<1>2. ~overlapped' => \A q \in Requests : req'[q].pc = "idle"
  BY <1>1, GoesOnAlone
<1>3. ~overlapped' => Alone' /\ SessionsFit'
  BY <1>2 DEF Alone, SessionsFit
<1> QED BY <1>3 DEF SerialInv

LEMMA SerialInvoice == ASSUME Inv, SerialInv, NEW r \in Requests, CommitInvoice(r) PROVE SerialInv'
<1> DEFINE s == req[r]
<1>1. /\ s.op = "generate" /\ s.pc = "flushed" /\ invoice' = [invoice EXCEPT ![s.i] = s.new]
      /\ req' = [req EXCEPT ![r] = Idle] /\ UNCHANGED creditSum /\ UNCHANGED overlapped
  BY DEF CommitInvoice
<1>2. /\ s.i \in Numbers /\ s.new \in InvoiceRow /\ s.new.status # "CREDITED"
      /\ invoice[s.i].status = "NONE" /\ creditSum[s.i] = 0
  <2>1. s.i \in Numbers /\ s.new.status # "CREDITED" /\ s.new \in InvoiceRow
    BY <1>1 DEF Inv, TypeOK, Session, SessionsKnow, Knows
  <2>2. invoice[s.i].status = "NONE"
    BY <1>1, <2>1 DEF Inv, Reserved, Holds
  <2> QED BY <2>1, <2>2 DEF Inv, InvoicesInv, Unissued
<1>3. invoice'[s.i] = s.new /\ \A i \in Numbers : i # s.i => invoice'[i] = invoice[i]
  BY <1>1, <1>2 DEF Inv, TypeOK
<1>4. ~overlapped => Fits(s, invoice, creditSum, revStatus)
  BY <1>1, GoesOnAlone
<1> HIDE DEF s
<1>5. CreditsWithinInvoice'
  <2> SUFFICES ASSUME ~overlapped, NEW i \in Numbers
               PROVE  /\ creditSum[i] <= invoice'[i].total
                      /\ invoice'[i].total > 0 => (invoice'[i].status = "CREDITED" <=> creditSum[i] = invoice'[i].total)
    BY <1>1 DEF CreditsWithinInvoice
  <2>1. CASE i = s.i
    BY <1>2, <1>3, <2>1 DEF InvoiceRow
  <2>2. CASE i # s.i
    BY <1>3, <2>2 DEF SerialInv, CreditsWithinInvoice
  <2> QED BY <2>1, <2>2
<1>6. BilledOnce'
  <2>1. ASSUME ~overlapped, NEW j \in Numbers, j # s.i PROVE invoice[j].lines \cap s.new.lines = {}
    <3>1. \A l \in s.new.lines : revStatus[l] # "INVOICED"
      BY <1>1, <1>4, <2>1 DEF Fits
    <3>2. \A l \in invoice[j].lines : revStatus[l] = "INVOICED"
      BY DEF Inv, InvoicesInv, Marked
    <3> QED BY <3>1, <3>2
  <2>2. ASSUME ~overlapped, NEW i \in Numbers, NEW j \in Numbers, i # j
        PROVE  invoice'[i].lines \cap invoice'[j].lines = {}
    <3>1. CASE i = s.i
      BY <1>3, <2>1, <2>2, <3>1
    <3>2. CASE j = s.i
      BY <1>3, <2>1, <2>2, <3>2
    <3>3. CASE i # s.i /\ j # s.i
      BY <1>3, <2>2, <3>3 DEF SerialInv, BilledOnce
    <3> QED BY <3>1, <3>2, <3>3
  <2> QED BY <1>1, <2>2 DEF BilledOnce
<1>7. TypeOK /\ req[r].pc # "idle"
  BY <1>1 DEF Inv, s
<1> QED BY <1>1, <1>5, <1>6, <1>7, SerialCommits

\* A commit that updates an invoice leaves the lines of all invoices; what is
\* left to show is about the credits of the one.
LEMMA SerialUpdate ==
    ASSUME Inv, SerialInv, NEW r \in Requests, req[r].op \in OnInvoice, req[r].pc = "flushed",
           invoice' = [invoice EXCEPT ![req[r].i] = UpdatedRow(req[r])],
           req' = [req EXCEPT ![r] = Idle], UNCHANGED overlapped,
           \A i \in Numbers : i # req[r].i => creditSum'[i] = creditSum[i],
           ~overlapped =>
             /\ creditSum'[req[r].i] <= invoice[req[r].i].total
             /\ invoice[req[r].i].total > 0 =>
                  (invoice'[req[r].i].status = "CREDITED" <=> creditSum'[req[r].i] = invoice[req[r].i].total)
    PROVE  SerialInv'
<1> DEFINE k == req[r].i
<1>1. TypeOK /\ k \in Numbers
  BY DEF Inv, SessionsKnow, Knows
<1>2. invoice'[k].total = invoice[k].total /\ invoice'[k].lines = invoice[k].lines
  BY <1>1, UpdateTypes
<1>3. \A i \in Numbers : i # k => invoice'[i] = invoice[i]
  BY <1>1 DEF TypeOK
<1> HIDE DEF k
<1>4. CreditsWithinInvoice'
  <2> SUFFICES ASSUME ~overlapped, NEW i \in Numbers
               PROVE  /\ creditSum'[i] <= invoice'[i].total
                      /\ invoice'[i].total > 0 => (invoice'[i].status = "CREDITED" <=> creditSum'[i] = invoice'[i].total)
    BY DEF CreditsWithinInvoice
  <2>1. CASE i = k
    BY <1>2, <2>1 DEF k
  <2>2. CASE i # k
    <3>1. creditSum'[i] = creditSum[i]
      BY <2>2 DEF k
    <3> QED BY <1>3, <2>2, <3>1 DEF SerialInv, CreditsWithinInvoice
  <2> QED BY <2>1, <2>2
<1>5. \A i \in Numbers : invoice'[i].lines = invoice[i].lines
  BY <1>2, <1>3
<1>6. BilledOnce'
  BY <1>5 DEF SerialInv, BilledOnce
<1> QED BY <1>1, <1>4, <1>6, SerialCommits

\* An approval or a dispatch finds an invoice that is not used up and leaves it so.
LEMMA SerialStatus ==
    ASSUME Inv, SerialInv, NEW r \in Requests, CommitApproval(r) \/ CommitSend(r)
    PROVE  SerialInv'
<1> DEFINE s == req[r]
           k == s.i
<1>1. /\ s.op \in {"approve", "send"} /\ s.pc = "flushed"
      /\ invoice' = [invoice EXCEPT ![k] = UpdatedRow(s)]
      /\ req' = [req EXCEPT ![r] = Idle] /\ UNCHANGED creditSum /\ UNCHANGED overlapped
  BY DEF CommitApproval, CommitSend
<1>2. TypeOK /\ k \in Numbers /\ s.new.status \in {"APPROVED", "SENT"} /\ s.op \in OnInvoice
  BY <1>1 DEF Inv, SessionsKnow, Knows, OnInvoice
<1>3. invoice'[k].status = IF s.new.status = s.row.status THEN invoice[k].status ELSE s.new.status
  BY <1>1, <1>2, UpdateTypes
<1>4. ~overlapped => invoice[k].status # "CREDITED"
  <2>1. ~overlapped => Fits(s, invoice, creditSum, revStatus)
    BY <1>1, GoesOnAlone
  <2> QED BY <1>1, <1>2, <2>1 DEF Fits
<1>5. ~overlapped =>
        /\ creditSum'[k] <= invoice[k].total
        /\ invoice[k].total > 0 => (invoice'[k].status = "CREDITED" <=> creditSum'[k] = invoice[k].total)
  <2> SUFFICES ASSUME ~overlapped
               PROVE  /\ creditSum[k] <= invoice[k].total
                      /\ invoice[k].total > 0 => (invoice'[k].status = "CREDITED" <=> creditSum[k] = invoice[k].total)
    BY <1>1
  <2>1. invoice'[k].status # "CREDITED"
    BY <1>2, <1>3, <1>4
  <2> QED BY <1>2, <1>4, <2>1 DEF SerialInv, CreditsWithinInvoice
<1> QED BY <1>1, <1>2, <1>5, SerialUpdate

\* A credit note commits what it checked; a debit note changes neither.
LEMMA SerialNoteCommit == ASSUME Inv, SerialInv, NEW r \in Requests, CommitNote(r) PROVE SerialInv'
<1> DEFINE s == req[r]
           k == s.i
<1>1. /\ s.op \in {"credit", "debit"} /\ s.pc = "flushed"
      /\ invoice' = [invoice EXCEPT ![k] = UpdatedRow(s)]
      /\ creditSum' = [creditSum EXCEPT ![k] = IF s.op = "credit" THEN @ + s.amount ELSE @]
      /\ req' = [req EXCEPT ![r] = Idle] /\ UNCHANGED overlapped
  BY DEF CommitNote
<1>2. TypeOK /\ k \in Numbers /\ s.op \in OnInvoice /\ (s.op = "debit" => s.new.status = s.row.status)
  BY <1>1 DEF Inv, SessionsKnow, Knows, OnInvoice
<1>3. invoice'[k].status = IF s.new.status = s.row.status THEN invoice[k].status ELSE s.new.status
  BY <1>1, <1>2, UpdateTypes
<1>4. s.amount \in Nat /\ creditSum \in [Numbers -> Nat] /\ invoice[k].total \in Nat
  BY <1>2 DEF TypeOK, Session, InvoiceRow
<1>5. /\ creditSum'[k] = IF s.op = "credit" THEN creditSum[k] + s.amount ELSE creditSum[k]
      /\ \A i \in Numbers : i # k => creditSum'[i] = creditSum[i]
  BY <1>1, <1>2, <1>4
<1>6. ~overlapped => Fits(s, invoice, creditSum, revStatus)
  BY <1>1, GoesOnAlone
<1>7. ~overlapped =>
        /\ creditSum[k] <= invoice[k].total
        /\ invoice[k].total > 0 => (invoice[k].status = "CREDITED" <=> creditSum[k] = invoice[k].total)
  BY <1>2 DEF SerialInv, CreditsWithinInvoice
<1>8. ~overlapped =>
        /\ creditSum'[k] <= invoice[k].total
        /\ invoice[k].total > 0 => (invoice'[k].status = "CREDITED" <=> creditSum'[k] = invoice[k].total)
  <2> SUFFICES ASSUME ~overlapped
               PROVE  /\ creditSum'[k] <= invoice[k].total
                      /\ invoice[k].total > 0 => (invoice'[k].status = "CREDITED" <=> creditSum'[k] = invoice[k].total)
    OBVIOUS
  <2>1. CASE s.op = "debit"
    BY <1>2, <1>3, <1>5, <1>7, <2>1
  <2>2. CASE s.op = "credit"
    <3>1. /\ s.row = invoice[k] /\ s.amount > 0 /\ creditSum[k] + s.amount <= invoice[k].total
          /\ s.new.status = IF creditSum[k] + s.amount = invoice[k].total THEN "CREDITED" ELSE invoice[k].status
      BY <1>1, <1>2, <1>6, <2>2 DEF Fits
    <3>2. creditSum'[k] = creditSum[k] + s.amount /\ creditSum[k] \in Nat
      BY <1>2, <1>4, <1>5, <2>2
    <3>3. invoice[k].status # "CREDITED"
      BY <1>4, <1>7, <3>1, <3>2
    <3>4. invoice'[k].status = "CREDITED" <=> creditSum[k] + s.amount = invoice[k].total
      BY <1>3, <3>1, <3>3
    <3> QED BY <3>1, <3>2, <3>4
  <2> QED BY <1>1, <2>1, <2>2
<1> QED BY <1>1, <1>2, <1>5, <1>8, SerialUpdate

LEMMA SerialNext == Inv /\ SerialInv /\ [Next]_vars => SerialInv'
<1> SUFFICES ASSUME Inv, SerialInv, [Next]_vars PROVE SerialInv'
  OBVIOUS
<1>0. TypeOK
  BY DEF Inv
<1>1. CASE UNCHANGED vars
  BY <1>1 DEF vars, db, SerialInv, Alone, SessionsFit, Fits, CreditsWithinInvoice, BilledOnce
<1>2. ASSUME NEW r \in Requests, Begin(r) PROVE SerialInv'
  <2>1. ASSUME NEW body \in Bodies, NEW lines \in SUBSET RevLines, LoadLines(r, lines, body) PROVE SerialInv'
    BY <1>0, <2>1, SerialLines
  <2>2. OpenLines \in SUBSET RevLines
    BY DEF OpenLines
  <2>3. ASSUME NEW i \in Numbers, LoadApprove(r, i) PROVE SerialInv'
    BY <1>0, <2>3, SerialApprove
  <2>4. ASSUME NEW i \in Numbers, LoadSend(r, i) PROVE SerialInv'
    BY <1>0, <2>4, SerialSend
  <2>5. ASSUME NEW i \in Numbers, NEW op \in {"credit", "debit"}, NEW amount \in NoteAmounts,
               LoadNote(r, op, i, amount)
        PROVE  SerialInv'
    BY <1>0, <2>5, SerialNote
  <2> QED BY <1>2, <2>1, <2>2, <2>3, <2>4, <2>5 DEF Begin
<1>3. ASSUME NEW r \in Requests, Proceed(r) PROVE SerialInv'
  BY <1>0, <1>3, SerialProceed, SerialSum, SerialInvoice, SerialStatus, SerialNoteCommit, SerialRollback DEF Proceed
<1> QED BY <1>1, <1>2, <1>3 DEF Next

LEMMA SerialInvariance == Spec => []SerialInv
<1> QED BY InitInv, NextInv, SerialInit, SerialNext, PTL DEF Spec

\* create_credit_note: until requests overlap, the credit notes of an invoice
\* never exceed it, and it is CREDITED exactly while they use it up.
THEOREM CreditNotesWithinInvoice == Spec => []CreditsWithinInvoice
<1>1. SerialInv => CreditsWithinInvoice
  BY DEF SerialInv
<1> QED BY <1>1, SerialInvariance, PTL

\* generate_invoice: until requests overlap, no revenue line is billed twice.
THEOREM LinesBilledOnce == Spec => []BilledOnce
<1>1. SerialInv => BilledOnce
  BY DEF SerialInv
<1> QED BY <1>1, SerialInvariance, PTL
=============================================================================
