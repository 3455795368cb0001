--------------------------- MODULE DocumentsProof ---------------------------
(***************************************************************************)
(* Proofs about Documents, for any number of requests, documents, checklist *)
(* items and files.                                                        *)
(*                                                                         *)
(* TrailIsSound is not inductive: a commit adds the version after the one   *)
(* its session loaded.  The invariant adds that a version a session loaded  *)
(* is in the trail for good, that the file it brings is stored, and that    *)
(* versions count from 1.                                                  *)
(*                                                                         *)
(* GateMeansApproved speaks of requests that did not overlap: GateInv adds  *)
(* that the copies of such a session are current.                          *)
(***************************************************************************)
EXTENDS Documents, TLAPS

Reviews == {"approve", "reject", "revise"}

\* What a session may be in the middle of.
SessionsAreSound ==
    \A r \in Requests : LET s == req[r] IN
        /\ s.pc = "stored" => s.op = "upload" /\ s.row = NoDocument
        /\ s.pc \in {"loaded", "flushed"} => s.d \in DocumentIds /\ s.op \in {"upload"} \cup Reviews
        /\ s.pc \in {"stored", "loaded", "flushed"} /\ s.op = "upload" => s.file \in stored
        /\ s.pc = "generating" => s.i \in ItemIds

\* The version a session loaded is a number of the trail, and a document that
\* was there when it was loaded is there.
CopiesAreSound ==
    \A r \in Requests : LET s == req[r] IN
        s.pc \in {"loaded", "flushed"} =>
            /\ s.row.version = 0 \/ \E v \in trail[s.d] : v.version = s.row.version
            /\ s.op \in Reviews \/ s.row.file # "none" => doc[s.d] # NoDocument

\* The trail counts from 1 without a gap, and a document shows a version of it.
TrailsAreSound ==
    \A d \in DocumentIds :
        /\ \A v \in trail[d] : v.version > 0 /\ v.file \in stored
        /\ \A v \in trail[d], m \in Nat : 0 < m /\ m < v.version => \E w \in trail[d] : w.version = m
        /\ doc[d] # NoDocument => /\ \E v \in trail[d] : v.version = doc[d].version
                                  /\ \E v \in trail[d] : v.file = doc[d].file

Inv == TypeOK /\ SessionsAreSound /\ CopiesAreSound /\ TrailsAreSound

LEMMA ConstantTypes == NoDocument \in DocumentRow /\ NoItem \in ItemRow /\ Idle \in Session /\ Idle.pc = "idle"
<1>1. NoDocument \in DocumentRow /\ NoItem \in ItemRow
  BY DEF NoDocument, DocumentRow, NoItem, ItemRow
<1>2. Idle \in Session /\ Idle.pc = "idle"
  BY <1>1 DEF Idle, Session
<1> QED BY <1>1, <1>2

LEMMA InitInv == Init => Inv
<1> SUFFICES ASSUME Init PROVE Inv
  OBVIOUS
<1>1. TypeOK
  BY ConstantTypes DEF Init, TypeOK
<1>2. \A r \in Requests : req[r].pc = "idle"
  BY ConstantTypes DEF Init
<1>3. SessionsAreSound /\ CopiesAreSound
  BY <1>2 DEF SessionsAreSound, CopiesAreSound
<1>4. TrailsAreSound
  BY DEF Init, TrailsAreSound
<1> QED BY <1>1, <1>3, <1>4 DEF Inv

LEMMA VerdictType == \A op \in {"upload"} \cup Reviews : Verdict(op) \in DocumentStatus
<1>1. Verdict("upload") \in DocumentStatus
  BY DEF Verdict, DocumentStatus
<1>2. Verdict("approve") \in DocumentStatus
  BY DEF Verdict, DocumentStatus
<1>3. Verdict("reject") \in DocumentStatus
  BY DEF Verdict, DocumentStatus
<1>4. Verdict("revise") \in DocumentStatus
  BY DEF Verdict, DocumentStatus
<1> QED BY <1>1, <1>2, <1>3, <1>4 DEF Reviews

LEMMA ItemVerdictType == \A op \in {"upload"} \cup Reviews : ItemVerdict(op) \in ItemStatus \cup {"none"}
<1>1. ItemVerdict("upload") \in ItemStatus \cup {"none"}
  BY DEF ItemVerdict, ItemStatus
<1>2. ItemVerdict("approve") \in ItemStatus \cup {"none"}
  BY DEF ItemVerdict, ItemStatus
<1>3. ItemVerdict("reject") \in ItemStatus \cup {"none"}
  BY DEF ItemVerdict, ItemStatus
<1>4. ItemVerdict("revise") \in ItemStatus \cup {"none"}
  BY DEF ItemVerdict, ItemStatus
<1> QED BY <1>1, <1>2, <1>3, <1>4 DEF Reviews

LEMMA OverlapsType == TypeOK /\ Overlaps => overlapped' \in BOOLEAN /\ approved' \in [DocumentIds -> Nat]
  BY DEF TypeOK, Overlaps

\* Every step but a commit leaves documents and trails alone.
LEMMA QuietStep ==
    ASSUME Inv, NEW r \in Requests, NEW s,
           doc' = doc, trail' = trail, stored \subseteq stored', req' = [req EXCEPT ![r] = s],
           s.pc = "stored" => s.op = "upload" /\ s.row = NoDocument,
           s.pc \in {"loaded", "flushed"} => s.d \in DocumentIds /\ s.op \in {"upload"} \cup Reviews,
           s.pc \in {"stored", "loaded", "flushed"} /\ s.op = "upload" => s.file \in stored',
           s.pc = "generating" => s.i \in ItemIds,
           s.pc \in {"loaded", "flushed"} =>
               /\ s.row.version = 0 \/ \E v \in trail[s.d] : v.version = s.row.version
               /\ s.op \in Reviews \/ s.row.file # "none" => doc[s.d] # NoDocument
    PROVE  SessionsAreSound' /\ CopiesAreSound' /\ TrailsAreSound'
<1>1. \A q \in Requests : req'[q] = IF q = r THEN s ELSE req[q]
  BY DEF Inv, TypeOK
<1>2. SessionsAreSound'
  BY <1>1 DEF Inv, SessionsAreSound
<1>3. CopiesAreSound'
  BY <1>1 DEF Inv, CopiesAreSound
<1>4. TrailsAreSound'
  BY DEF Inv, TrailsAreSound
<1> QED BY <1>2, <1>3, <1>4

\* What a commit writes.
LEMMA FlushedColumns ==
    ASSUME Inv, NEW r \in Requests, req[r].pc = "flushed"
    PROVE  LET s == req[r]
               new == Flushed(s, doc[s.d])
           IN  /\ new \in DocumentRow
               /\ s.op = "upload" => new.version = s.row.version + 1 /\ new.file \in {s.file, doc[s.d].file}
               /\ s.op = "upload" /\ s.row.file = "none" => new.file = s.file
               /\ s.op # "upload" => new.version = doc[s.d].version /\ new.file = doc[s.d].file
<1> DEFINE s == req[r]
           cur == doc[s.d]
<1>1. /\ s \in Session /\ s.d \in DocumentIds /\ s.op \in {"upload"} \cup Reviews
      /\ s.row \in DocumentRow /\ cur \in DocumentRow
      /\ s.op = "upload" => s.file \in stored
  BY DEF Inv, TypeOK, SessionsAreSound, Session
<1>2. s.op = "upload" => s.file \in Files /\ s.file # "none"
  BY <1>1, DocumentsAssumption DEF Inv, TypeOK
<1>3. Verdict(s.op) \in DocumentStatus
  BY <1>1, VerdictType
<1>4. /\ cur.status \in DocumentStatus \cup {"NONE"} /\ cur.version \in Nat /\ cur.file \in Files \cup {"none"}
      /\ s.row.version \in Nat
  BY <1>1 DEF DocumentRow
<1> HIDE DEF s, cur
<1>5. /\ Flushed(s, cur).status \in DocumentStatus \cup {"NONE"}
      /\ Flushed(s, cur).version = IF s.op = "upload" THEN s.row.version + 1 ELSE cur.version
      /\ Flushed(s, cur).file = IF s.op = "upload" THEN Column(s.file, s.row.file, cur.file) ELSE cur.file
  BY <1>3, <1>4 DEF Flushed, Column
<1>6. Column(s.file, s.row.file, cur.file) \in {s.file, cur.file} /\ (s.file # s.row.file => Column(s.file, s.row.file, cur.file) = s.file)
  BY DEF Column
<1>7. Flushed(s, cur) = [status |-> Flushed(s, cur).status, version |-> Flushed(s, cur).version, file |-> Flushed(s, cur).file]
  BY DEF Flushed
<1>8. Flushed(s, cur).version \in Nat /\ Flushed(s, cur).file \in Files \cup {"none"}
  BY <1>2, <1>4, <1>5, <1>6
<1>9. Flushed(s, cur) \in DocumentRow
  BY <1>5, <1>7, <1>8 DEF DocumentRow
<1> QED BY <1>2, <1>5, <1>6, <1>9 DEF s, cur

LEMMA CommitType ==
    ASSUME Inv, NEW r \in Requests, Commit(r)
    PROVE  TypeOK'
<1> DEFINE s == req[r]
<1>1. /\ s \in Session /\ s.d \in DocumentIds /\ s.op \in {"upload"} \cup Reviews
      /\ s.op = "upload" => s.file \in Files
      /\ s.row.version \in Nat /\ s.seen \in ItemRow
  <2>1. s.op = "upload" => s.file \in stored
    BY DEF Inv, SessionsAreSound, Commit
  <2> QED BY <2>1 DEF Inv, TypeOK, SessionsAreSound, Session, DocumentRow, Commit
<1>2. Flushed(s, doc[s.d]) \in DocumentRow
  BY FlushedColumns DEF Commit
<1>3. s.op = "upload" => NewVersion(s) \in VersionRow
  BY <1>1 DEF NewVersion, VersionRow
<1>4. ASSUME NEW i \in ItemIds PROVE ItemAfter(s, item[i]) \in ItemRow
  <2>1. ItemVerdict(s.op) \in ItemStatus \cup {"none"}
    BY <1>1, ItemVerdictType
  <2>2. item[i].status \in ItemStatus \cup {"NONE"} /\ item[i].doc \in DocumentIds \cup {"none"}
    BY DEF Inv, TypeOK, ItemRow
  <2> QED BY <1>1, <2>1, <2>2 DEF ItemAfter, ItemRow, Column
<1>5. doc' \in [DocumentIds -> DocumentRow]
  BY <1>1, <1>2 DEF Inv, TypeOK, Commit
<1>6. trail' \in [DocumentIds -> SUBSET VersionRow]
  BY <1>1, <1>3 DEF Inv, TypeOK, Commit
<1>7. item' \in [ItemIds -> ItemRow]
  BY <1>4 DEF Inv, TypeOK, Commit
<1>8. approved' \in [DocumentIds -> Nat]
  BY <1>1 DEF Inv, TypeOK, Commit, DocumentRow
<1>9. req' \in [Requests -> Session]
  BY ConstantTypes DEF Inv, TypeOK, Commit
<1> QED BY <1>5, <1>6, <1>7, <1>8, <1>9 DEF Inv, TypeOK, Commit

LEMMA CommitSound ==
    ASSUME Inv, NEW r \in Requests, Commit(r)
    PROVE  SessionsAreSound' /\ CopiesAreSound' /\ TrailsAreSound'
<1> DEFINE s == req[r]
           d == s.d
<1>1. /\ d \in DocumentIds /\ s.op \in {"upload"} \cup Reviews /\ s.row.version \in Nat
      /\ s.op = "upload" => s.file \in stored
      /\ s.row.version = 0 \/ \E v \in trail[d] : v.version = s.row.version
      /\ s.op \in Reviews \/ s.row.file # "none" => doc[d] # NoDocument
  BY DEF Inv, TypeOK, SessionsAreSound, CopiesAreSound, Session, DocumentRow, Commit
<1>2. /\ \A x \in DocumentIds : doc'[x] = IF x = d THEN Flushed(s, doc[d]) ELSE doc[x]
      /\ \A x \in DocumentIds : trail'[x] = IF x = d /\ s.op = "upload" THEN trail[d] \cup {NewVersion(s)} ELSE trail[x]
      /\ \A q \in Requests : req'[q] = IF q = r THEN Idle ELSE req[q]
      /\ stored' = stored
  BY <1>1 DEF Inv, TypeOK, Commit
<1>3. /\ s.op = "upload" => doc'[d].version = s.row.version + 1 /\ doc'[d].file \in {s.file, doc[d].file}
      /\ s.op = "upload" /\ s.row.file = "none" => doc'[d].file = s.file
      /\ s.op # "upload" => doc'[d].version = doc[d].version /\ doc'[d].file = doc[d].file
  BY <1>1, <1>2, FlushedColumns DEF Commit
<1>4. NewVersion(s).version = s.row.version + 1 /\ NewVersion(s).file = s.file
  BY DEF NewVersion
<1> HIDE DEF s, d
<1>5. \A x \in DocumentIds : trail[x] \subseteq trail'[x]
  BY <1>2
<1>6. /\ \A v \in trail'[d] : v.version > 0 /\ v.file \in stored
      /\ \A v \in trail'[d], m \in Nat : 0 < m /\ m < v.version => \E w \in trail'[d] : w.version = m
  <2>1. /\ \A v \in trail[d] : v.version > 0 /\ v.file \in stored
        /\ \A v \in trail[d], m \in Nat : 0 < m /\ m < v.version => \E w \in trail[d] : w.version = m
    BY <1>1 DEF Inv, TrailsAreSound
  <2>2. CASE s.op # "upload"
    BY <1>1, <1>2, <2>1, <2>2
  <2>3. CASE s.op = "upload"
    <3>1. trail'[d] = trail[d] \cup {NewVersion(s)}
      BY <1>1, <1>2, <2>3
    <3>2. \A v \in trail'[d] : v.version > 0 /\ v.file \in stored
      BY <1>1, <1>4, <2>1, <2>3, <3>1
    <3>3. ASSUME NEW m \in Nat, 0 < m, m < s.row.version + 1 PROVE \E w \in trail[d] : w.version = m
      <4>1. PICK v \in trail[d] : v.version = s.row.version
        BY <1>1, <3>3
      <4>2. CASE m = s.row.version
        BY <4>1, <4>2
      <4>3. CASE m < s.row.version
        BY <2>1, <3>3, <4>1, <4>3
      <4> QED BY <1>1, <3>3, <4>2, <4>3
    <3>4. \A v \in trail'[d], m \in Nat : 0 < m /\ m < v.version => \E w \in trail'[d] : w.version = m
      BY <1>4, <2>1, <3>1, <3>3
    <3> QED BY <3>2, <3>4
  <2> QED BY <2>2, <2>3
<1>7. /\ \E v \in trail'[d] : v.version = doc'[d].version
      /\ \E v \in trail'[d] : v.file = doc'[d].file
  <2>1. doc[d] # NoDocument => /\ \E v \in trail[d] : v.version = doc[d].version
                               /\ \E v \in trail[d] : v.file = doc[d].file
    BY <1>1 DEF Inv, TrailsAreSound
  <2>2. CASE s.op # "upload"
    <3>1. doc[d] # NoDocument
      BY <1>1, <2>2
    <3> QED BY <1>1, <1>3, <1>5, <2>1, <2>2, <3>1
  <2>3. CASE s.op = "upload"
    <3>1. NewVersion(s) \in trail'[d]
      BY <1>1, <1>2, <2>3
    <3>2. \E v \in trail'[d] : v.version = doc'[d].version
      BY <1>3, <1>4, <2>3, <3>1
    <3>3. \E v \in trail'[d] : v.file = doc'[d].file
      <4>1. CASE doc'[d].file = s.file
        BY <1>4, <3>1, <4>1
      <4>2. CASE doc'[d].file # s.file
        <5>1. doc[d] # NoDocument /\ doc'[d].file = doc[d].file
          BY <1>1, <1>3, <2>3, <4>2
        <5> QED BY <1>1, <1>5, <2>1, <5>1
      <4> QED BY <4>1, <4>2
    <3> QED BY <3>2, <3>3
  <2> QED BY <2>2, <2>3
<1>8. doc'[d] # NoDocument
  BY <1>6, <1>7 DEF NoDocument
<1>9. TrailsAreSound'
  <2>1. ASSUME NEW x \in DocumentIds, x # d PROVE doc'[x] = doc[x] /\ trail'[x] = trail[x]
    BY <1>2, <2>1
  <2> QED BY <1>2, <1>6, <1>7, <2>1 DEF Inv, TrailsAreSound
<1>10. SessionsAreSound'
  BY <1>2, ConstantTypes DEF Inv, SessionsAreSound
<1>11. CopiesAreSound'
  <2>1. ASSUME NEW q \in Requests, req'[q].pc \in {"loaded", "flushed"}
        PROVE  /\ req'[q].row.version = 0 \/ \E v \in trail'[req'[q].d] : v.version = req'[q].row.version
               /\ req'[q].op \in Reviews \/ req'[q].row.file # "none" => doc'[req'[q].d] # NoDocument
    <3>1. req'[q] = req[q]
      BY <1>2, <2>1, ConstantTypes
    <3>2. /\ req[q].d \in DocumentIds
          /\ req[q].row.version = 0 \/ \E v \in trail[req[q].d] : v.version = req[q].row.version
          /\ req[q].op \in Reviews \/ req[q].row.file # "none" => doc[req[q].d] # NoDocument
      BY <2>1, <3>1 DEF Inv, CopiesAreSound, SessionsAreSound
    <3>3. doc[req[q].d] # NoDocument => doc'[req[q].d] # NoDocument
      BY <1>2, <1>8, <3>2
    <3> QED BY <1>5, <3>1, <3>2, <3>3
  <2> QED BY <2>1 DEF CopiesAreSound
<1> QED BY <1>9, <1>10, <1>11

LEMMA StoreInv == ASSUME Inv, NEW r \in Requests, NEW f \in Files, StoreFile(r, f) PROVE Inv'
<1> DEFINE s == [Idle EXCEPT !.pc = "stored", !.op = "upload", !.file = f]
<1>1. s \in Session /\ s.pc = "stored" /\ s.op = "upload" /\ s.file = f /\ s.row = NoDocument
  BY ConstantTypes DEF Session, Idle
<1>2. /\ doc' = doc /\ trail' = trail /\ item' = item /\ stored' = stored \cup {f}
      /\ req' = [req EXCEPT ![r] = s]
  BY DEF StoreFile
<1> HIDE DEF s
<1>3. TypeOK'
  BY <1>1, <1>2, OverlapsType DEF Inv, TypeOK, StoreFile
<1>4. SessionsAreSound' /\ CopiesAreSound' /\ TrailsAreSound'
  BY <1>1, <1>2, QuietStep
<1> QED BY <1>3, <1>4 DEF Inv

LEMMA SelectInv == ASSUME Inv, NEW r \in Requests, SelectDocument(r) PROVE Inv'
<1>1. req[r] \in Session /\ req[r].op = "upload" /\ req[r].file \in stored
  BY DEF Inv, TypeOK, SessionsAreSound, SelectDocument
<1>2. /\ doc' = doc /\ trail' = trail /\ item' = item /\ stored' = stored
      /\ approved' = approved /\ overlapped' = overlapped
  BY DEF SelectDocument
<1>3. CASE \E d \in Live : req' = [req EXCEPT ![r].pc = "loaded", ![r].d = d, ![r].row = doc[d]]
  <2>1. PICK d \in Live : req' = [req EXCEPT ![r].pc = "loaded", ![r].d = d, ![r].row = doc[d]]
    BY <1>3
  <2>2. d \in DocumentIds /\ doc[d] # NoDocument /\ doc[d] \in DocumentRow
    BY DEF Live, Inv, TypeOK
  <2> DEFINE s == [req[r] EXCEPT !.pc = "loaded", !.d = d, !.row = doc[d]]
  <2>3. /\ s \in Session /\ s.pc = "loaded" /\ s.op = req[r].op /\ s.file = req[r].file
        /\ s.d = d /\ s.row = doc[d]
    BY <1>1, <2>2 DEF Session
  <2>4. req' = [req EXCEPT ![r] = s]
    BY <2>1
  <2>5. \E v \in trail[d] : v.version = doc[d].version
    BY <2>2 DEF Inv, TrailsAreSound
  <2> HIDE DEF s
  <2>6. SessionsAreSound' /\ CopiesAreSound' /\ TrailsAreSound'
    BY <1>1, <1>2, <2>2, <2>3, <2>4, <2>5, QuietStep
  <2>7. TypeOK'
    BY <1>2, <2>3, <2>4 DEF Inv, TypeOK
  <2> QED BY <2>6, <2>7 DEF Inv
<1>4. CASE \E d \in DocumentIds : req' = [req EXCEPT ![r].pc = "loaded", ![r].d = d]
  <2>1. PICK d \in DocumentIds : req' = [req EXCEPT ![r].pc = "loaded", ![r].d = d]
    BY <1>4
  <2> DEFINE s == [req[r] EXCEPT !.pc = "loaded", !.d = d]
  <2>2. /\ s \in Session /\ s.pc = "loaded" /\ s.op = req[r].op /\ s.file = req[r].file
        /\ s.d = d /\ s.row = req[r].row
    BY <1>1 DEF Session
  <2>3. req' = [req EXCEPT ![r] = s]
    BY <2>1
  <2>4. req[r].row.version = 0 /\ req[r].row.file = "none" /\ req[r].op \notin Reviews
    <3>1. req[r].row = NoDocument
      BY DEF Inv, SessionsAreSound, SelectDocument
    <3>2. NoDocument.version = 0 /\ NoDocument.file = "none"
      BY DEF NoDocument
    <3>3. "upload" \notin Reviews
      BY DEF Reviews
    <3> QED BY <1>1, <3>1, <3>2, <3>3
  <2> HIDE DEF s
  <2>5. SessionsAreSound' /\ CopiesAreSound' /\ TrailsAreSound'
    BY <1>1, <1>2, <2>2, <2>3, <2>4, QuietStep
  <2>6. TypeOK'
    BY <1>2, <2>2, <2>3 DEF Inv, TypeOK
  <2> QED BY <2>5, <2>6 DEF Inv
<1> QED BY <1>3, <1>4 DEF SelectDocument

LEMMA ReviewInv ==
    ASSUME Inv, NEW r \in Requests, NEW d \in DocumentIds, NEW op \in Reviews, LoadForReview(r, d, op)
    PROVE  Inv'
<1> DEFINE row == [NoDocument EXCEPT !.status = doc[d].status]
           s == [Idle EXCEPT !.pc = "loaded", !.op = op, !.d = d, !.row = row]
<1>1. doc[d] # NoDocument /\ doc[d].status \in DocumentStatus \cup {"NONE"}
  BY DEF LoadForReview, Live, Inv, TypeOK, DocumentRow
<1>2. row \in DocumentRow /\ row.version = 0
  BY <1>1 DEF NoDocument, DocumentRow
<1> HIDE DEF row
<1>3. s \in Session
  BY <1>2, ConstantTypes DEF Session, Reviews
<1>4. /\ s.pc = "loaded" /\ s.op = op /\ s.d = d /\ s.row.version = 0
  BY <1>2 DEF Idle
<1>5. /\ doc' = doc /\ trail' = trail /\ item' = item /\ stored' = stored
      /\ req' = [req EXCEPT ![r] = s]
  BY DEF LoadForReview, row
<1> HIDE DEF s
<1>6. TypeOK'
  BY <1>3, <1>5, OverlapsType DEF Inv, TypeOK, LoadForReview
<1>7. op # "upload"
  BY DEF Reviews
<1>8. SessionsAreSound' /\ CopiesAreSound' /\ TrailsAreSound'
  BY <1>1, <1>4, <1>5, <1>7, QuietStep
<1> QED BY <1>6, <1>8 DEF Inv

LEMMA FlushInv == ASSUME Inv, NEW r \in Requests, FlushDocument(r) PROVE Inv'
<1>1. /\ req[r] \in Session /\ req[r].pc = "loaded"
      /\ req[r].d \in DocumentIds /\ req[r].op \in {"upload"} \cup Reviews
      /\ req[r].op = "upload" => req[r].file \in stored
      /\ req[r].row.version = 0 \/ \E v \in trail[req[r].d] : v.version = req[r].row.version
      /\ req[r].op \in Reviews \/ req[r].row.file # "none" => doc[req[r].d] # NoDocument
  BY DEF Inv, TypeOK, SessionsAreSound, CopiesAreSound, FlushDocument
<1>2. /\ doc' = doc /\ trail' = trail /\ item' = item /\ stored' = stored
      /\ approved' = approved /\ overlapped' = overlapped
  BY DEF FlushDocument
<1>3. ASSUME NEW s \in Session, s.pc = "flushed", s.op = req[r].op, s.d = req[r].d, s.row = req[r].row,
             s.file = req[r].file, req' = [req EXCEPT ![r] = s]
      PROVE  Inv'
  <2>1. SessionsAreSound' /\ CopiesAreSound' /\ TrailsAreSound'
    BY <1>1, <1>2, <1>3, QuietStep
  <2>2. TypeOK'
    BY <1>2, <1>3 DEF Inv, TypeOK
  <2> QED BY <2>1, <2>2 DEF Inv
<1>4. CASE req' = [req EXCEPT ![r].pc = "flushed"]
  <2> DEFINE s == [req[r] EXCEPT !.pc = "flushed"]
  <2>1. /\ s \in Session /\ s.pc = "flushed" /\ s.op = req[r].op /\ s.d = req[r].d /\ s.row = req[r].row
        /\ s.file = req[r].file /\ req' = [req EXCEPT ![r] = s]
    BY <1>1, <1>4 DEF Session
  <2> HIDE DEF s
  <2> QED BY <1>3, <2>1
<1>5. CASE \E i \in Items : req' = [req EXCEPT ![r].pc = "flushed", ![r].i = i, ![r].seen = item[i]]
  <2>1. PICK i \in Items : req' = [req EXCEPT ![r].pc = "flushed", ![r].i = i, ![r].seen = item[i]]
    BY <1>5
  <2>2. i \in ItemIds /\ item[i] \in ItemRow
    BY DEF Items, Inv, TypeOK
  <2> DEFINE s == [req[r] EXCEPT !.pc = "flushed", !.i = i, !.seen = item[i]]
  <2>3. /\ s \in Session /\ s.pc = "flushed" /\ s.op = req[r].op /\ s.d = req[r].d /\ s.row = req[r].row
        /\ s.file = req[r].file /\ req' = [req EXCEPT ![r] = s]
    BY <1>1, <2>1, <2>2 DEF Session
  <2> HIDE DEF s
  <2> QED BY <1>3, <2>3
<1> QED BY <1>4, <1>5 DEF FlushDocument

LEMMA ChecklistInv == ASSUME Inv, NEW r \in Requests, StartChecklist(r) \/ CommitChecklist(r) \/ Rollback(r) PROVE Inv'
<1>1. CASE StartChecklist(r)
  <2>1. PICK i \in ItemIds :
          req' = [req EXCEPT ![r] = [Idle EXCEPT !.pc = "generating", !.op = "generate", !.i = i]]
    BY <1>1 DEF StartChecklist
  <2> DEFINE s == [Idle EXCEPT !.pc = "generating", !.op = "generate", !.i = i]
  <2>2. s \in Session /\ s.pc = "generating" /\ s.i = i
    BY ConstantTypes DEF Session, Idle
  <2>3. /\ doc' = doc /\ trail' = trail /\ item' = item /\ stored' = stored
        /\ req' = [req EXCEPT ![r] = s]
    BY <1>1, <2>1 DEF StartChecklist
  <2> HIDE DEF s
  <2>4. TypeOK'
    BY <1>1, <2>2, <2>3, OverlapsType DEF Inv, TypeOK, StartChecklist
  <2>5. SessionsAreSound' /\ CopiesAreSound' /\ TrailsAreSound'
    BY <2>2, <2>3, QuietStep
  <2> QED BY <2>4, <2>5 DEF Inv
<1>2. CASE CommitChecklist(r)
  <2>1. TypeOK'
    BY <1>2, ConstantTypes DEF Inv, TypeOK, SessionsAreSound, CommitChecklist, ItemRow, ItemStatus
  <2>2. SessionsAreSound' /\ CopiesAreSound' /\ TrailsAreSound'
    BY <1>2, QuietStep, ConstantTypes DEF CommitChecklist
  <2> QED BY <2>1, <2>2 DEF Inv
<1>3. CASE Rollback(r)
  <2>1. TypeOK'
    BY <1>3, ConstantTypes DEF Inv, TypeOK, Rollback
  <2>2. SessionsAreSound' /\ CopiesAreSound' /\ TrailsAreSound'
    BY <1>3, QuietStep, ConstantTypes DEF Rollback
  <2> QED BY <2>1, <2>2 DEF Inv
<1> QED BY <1>1, <1>2, <1>3

LEMMA NextInv == Inv /\ [Next]_vars => Inv'
<1> SUFFICES ASSUME Inv, [Next]_vars PROVE Inv'
  OBVIOUS
<1>1. CASE UNCHANGED vars
  <2>1. TypeOK'
    BY <1>1 DEF vars, Inv, TypeOK
  <2>2. SessionsAreSound' /\ CopiesAreSound' /\ TrailsAreSound'
    BY <1>1 DEF vars, Inv, SessionsAreSound, CopiesAreSound, TrailsAreSound
  <2> QED BY <2>1, <2>2 DEF Inv
<1>2. ASSUME NEW r \in Requests, Commit(r) PROVE Inv'
  BY <1>2, CommitType, CommitSound DEF Inv
<1>3. ASSUME NEW r \in Requests, NEW d \in DocumentIds, NEW op \in {"approve", "reject", "revise"},
             LoadForReview(r, d, op)
      PROVE  Inv'
  BY <1>3, ReviewInv DEF Reviews
<1> QED BY <1>1, <1>2, <1>3, StoreInv, SelectInv, FlushInv, ChecklistInv DEF Next

\* Documents, versions, checklist items and sessions keep their types for every
\* set of rows and requests.
THEOREM DocumentsTypeCorrect == Spec => []TypeOK
<1>1. Inv => TypeOK
  BY DEF Inv
<1> QED BY InitInv, NextInv, <1>1, PTL DEF Spec

\* However uploads and reviews interleave: the version trail has no gap, the
\* number and the file a document shows are in it, and the storage backend has
\* taken its files.
THEOREM TrailStaysSound == Spec => []TrailIsSound
<1>1. Inv => TrailIsSound
  <2> SUFFICES ASSUME Inv, NEW d \in DocumentIds
               PROVE  /\ \A n \in Numbers(d) : \A m \in 1 .. n : m \in Numbers(d)
                      /\ doc[d] # NoDocument => doc[d].version \in Numbers(d) /\ doc[d].file \in FilesOf(d)
                      /\ FilesOf(d) \subseteq stored
    BY DEF TrailIsSound
  <2>1. \A v \in trail[d] : v.version \in Nat
    BY DEF Inv, TypeOK, VersionRow
  <2>2. ASSUME NEW n \in Numbers(d), NEW m \in 1 .. n PROVE m \in Numbers(d)
    <3>1. PICK v \in trail[d] : n = v.version
      BY <2>2 DEF Numbers
    <3>2. CASE m = n
      BY <3>2
    <3>3. CASE m # n
      <4>1. m \in Nat /\ 0 < m /\ m < v.version
        BY <2>1, <2>2, <3>1, <3>3
      <4> QED BY <4>1 DEF Inv, TrailsAreSound, Numbers
    <3> QED BY <3>2, <3>3
  <2>3. doc[d] # NoDocument => doc[d].version \in Numbers(d) /\ doc[d].file \in FilesOf(d)
    BY DEF Inv, TrailsAreSound, Numbers, FilesOf
  <2>4. FilesOf(d) \subseteq stored
    BY DEF Inv, TrailsAreSound, FilesOf
  <2> QED BY <2>2, <2>3, <2>4
<1> QED BY InitInv, NextInv, <1>1, PTL DEF Spec

-----------------------------------------------------------------------------
(* The gate while requests come one after the other                        *)

\* What a session loaded is what the documents and the checklist still hold.
Fresh(s, docs, items) ==
    /\ s.pc \in {"stored", "loaded"} => s.i = "none"
    /\ s.pc \in {"loaded", "flushed"} /\ s.op = "upload" =>
          s.row = docs[s.d] /\ \A d \in DocumentIds : d # s.d => docs[d] = NoDocument
    /\ s.pc \in {"loaded", "flushed"} /\ s.op \in Reviews => s.row.status = docs[s.d].status
    /\ s.pc = "flushed" /\ s.op = "revise" => s.i = "none"
    /\ s.pc = "flushed" /\ s.op # "revise" => \A i \in ItemIds : items[i] # NoItem => i = s.i /\ s.seen = items[i]
    /\ s.pc = "flushed" /\ s.i # "none" => items[s.i] # NoItem
    /\ s.pc = "generating" => \A i \in ItemIds : items[i] = NoItem

\* One document and one item, and an approved item names a document whose last
\* approval was of the version it shows.
GateHolds(docs, items, last) ==
    /\ \A d, e \in DocumentIds : docs[d] # NoDocument /\ docs[e] # NoDocument => d = e
    /\ \A i, j \in ItemIds : items[i] # NoItem /\ items[j] # NoItem => i = j
    /\ \A i \in ItemIds : items[i] # NoItem /\ items[i].doc # "none" =>
          /\ docs[items[i].doc] # NoDocument
          /\ items[i].status = "APPROVED" =>
                /\ last[items[i].doc] = docs[items[i].doc].version
                /\ docs[items[i].doc].status \in {"APPROVED", "REVISION_REQUESTED"}

InOrder ==
    ~overlapped =>
        /\ \A q, r \in Requests : req[q].pc # "idle" /\ req[r].pc # "idle" => q = r
        /\ \A r \in Requests : Fresh(req[r], doc, item)
        /\ GateHolds(doc, item, approved)

GateInv == Inv /\ InOrder

LEMMA IdleIsFresh == ASSUME NEW s, s.pc = "idle", NEW docs, NEW items PROVE Fresh(s, docs, items)
  BY DEF Fresh

LEMMA GateInit == Init => GateInv
<1> SUFFICES ASSUME Init PROVE InOrder
  BY InitInv DEF GateInv
<1>1. \A r \in Requests : req[r].pc = "idle"
  BY ConstantTypes DEF Init
<1>2. GateHolds(doc, item, approved)
  BY DEF Init, GateHolds
<1> QED BY <1>1, <1>2, IdleIsFresh DEF InOrder

\* A step of the one request in flight.
LEMMA OrderStep ==
    ASSUME TypeOK, NEW r \in Requests, NEW s, req' = [req EXCEPT ![r] = s],
           \A q \in Requests : q # r => req[q].pc = "idle",
           Fresh(s, doc', item'), GateHolds(doc', item', approved')
    PROVE  InOrder'
<1>1. \A q \in Requests : req'[q] = IF q = r THEN s ELSE req[q]
  BY DEF TypeOK
<1>2. \A q \in Requests : Fresh(req'[q], doc', item')
  BY <1>1, IdleIsFresh
<1> QED BY <1>1, <1>2 DEF InOrder

\* A request begins: it is alone, or the history records that it is not.
LEMMA BeginInOrder ==
    ASSUME TypeOK, InOrder, NEW r \in Requests, NEW s, req' = [req EXCEPT ![r] = s], Overlaps,
           doc' = doc, item' = item, Fresh(s, doc, item)
    PROVE  InOrder'
<1>1. CASE overlapped'
  BY <1>1 DEF InOrder
<1>2. CASE ~overlapped'
  <2>1. ~overlapped /\ approved' = approved /\ \A q \in Requests : req[q].pc = "idle"
    BY <1>2 DEF Overlaps
  <2>2. Fresh(s, doc', item') /\ GateHolds(doc', item', approved')
    BY <2>1 DEF InOrder
  <2> QED BY <2>1, <2>2, OrderStep
<1> QED BY <1>1, <1>2

\* A request in flight goes on or ends.
LEMMA GoOnInOrder ==
    ASSUME TypeOK, InOrder, NEW r \in Requests, req[r].pc # "idle", NEW s, req' = [req EXCEPT ![r] = s],
           overlapped' = overlapped,
           ~overlapped => Fresh(s, doc', item') /\ GateHolds(doc', item', approved')
    PROVE  InOrder'
<1>1. CASE overlapped
  BY <1>1 DEF InOrder
<1>2. CASE ~overlapped
  <2>1. \A q \in Requests : q # r => req[q].pc = "idle"
    BY <1>2 DEF InOrder
  <2> QED BY <1>2, <2>1, OrderStep
<1> QED BY <1>1, <1>2

\* A step that leaves documents, items and approvals alone.
LEMMA ReadInOrder ==
    ASSUME TypeOK, InOrder, NEW r \in Requests, req[r].pc # "idle", NEW s, req' = [req EXCEPT ![r] = s],
           overlapped' = overlapped, doc' = doc, item' = item, approved' = approved,
           ~overlapped => Fresh(s, doc, item)
    PROVE  InOrder'
<1>1. ~overlapped => Fresh(s, doc', item') /\ GateHolds(doc', item', approved')
  BY DEF InOrder
<1> QED BY <1>1, GoOnInOrder

LEMMA SelectInOrder == ASSUME GateInv, NEW r \in Requests, SelectDocument(r) PROVE InOrder'
<1> DEFINE t == req[r]
<1>1. /\ TypeOK /\ InOrder /\ t \in Session /\ t.pc = "stored" /\ t.op = "upload" /\ t.row = NoDocument
      /\ doc' = doc /\ item' = item /\ approved' = approved /\ overlapped' = overlapped
  BY DEF GateInv, Inv, TypeOK, SessionsAreSound, SelectDocument
<1>2. ~overlapped => t.i = "none"
  BY <1>1 DEF InOrder, Fresh
<1>3. ASSUME NEW d \in DocumentIds, NEW s, req' = [req EXCEPT ![r] = s], s.pc = "loaded", s.op = "upload", s.i = t.i,
             s.d = d, s.row = doc[d], \A e \in DocumentIds : e # d => doc[e] = NoDocument
      PROVE  InOrder'
  <2>1. ~overlapped => Fresh(s, doc, item)
    BY <1>2, <1>3 DEF Fresh, Reviews
  <2> QED BY <1>1, <1>3, <2>1, ReadInOrder
<1>4. CASE \E d \in Live : Live = {d} /\ req' = [req EXCEPT ![r].pc = "loaded", ![r].d = d, ![r].row = doc[d]]
  <2>1. PICK d \in Live : Live = {d} /\ req' = [req EXCEPT ![r].pc = "loaded", ![r].d = d, ![r].row = doc[d]]
    BY <1>4
  <2> DEFINE s == [t EXCEPT !.pc = "loaded", !.d = d, !.row = doc[d]]
  <2>2. /\ req' = [req EXCEPT ![r] = s] /\ s.pc = "loaded" /\ s.op = "upload" /\ s.i = t.i /\ s.d = d /\ s.row = doc[d]
    BY <1>1, <2>1 DEF Session
  <2>3. d \in DocumentIds /\ \A e \in DocumentIds : e # d => doc[e] = NoDocument
    BY <2>1 DEF Live
  <2> HIDE DEF s
  <2> QED BY <1>3, <2>2, <2>3
<1>5. CASE Live = {} /\ \E d \in DocumentIds : req' = [req EXCEPT ![r].pc = "loaded", ![r].d = d]
  <2>1. PICK d \in DocumentIds : req' = [req EXCEPT ![r].pc = "loaded", ![r].d = d]
    BY <1>5
  <2> DEFINE s == [t EXCEPT !.pc = "loaded", !.d = d]
  <2>2. /\ req' = [req EXCEPT ![r] = s] /\ s.pc = "loaded" /\ s.op = "upload" /\ s.i = t.i /\ s.d = d /\ s.row = NoDocument
    BY <1>1, <2>1 DEF Session
  <2>3. \A e \in DocumentIds : doc[e] = NoDocument
    BY <1>5 DEF Live
  <2> HIDE DEF s
  <2> QED BY <1>3, <2>2, <2>3
<1> QED BY <1>4, <1>5 DEF SelectDocument

LEMMA FlushInOrder == ASSUME GateInv, NEW r \in Requests, FlushDocument(r) PROVE InOrder'
<1> DEFINE t == req[r]
<1>1. /\ TypeOK /\ InOrder /\ t \in Session /\ t.pc = "loaded" /\ t.op \in {"upload"} \cup Reviews
      /\ doc' = doc /\ item' = item /\ approved' = approved /\ overlapped' = overlapped
  BY DEF GateInv, Inv, TypeOK, SessionsAreSound, FlushDocument
<1>2. ~overlapped => Fresh(t, doc, item)
  BY <1>1 DEF InOrder
<1>3. ASSUME NEW s, req' = [req EXCEPT ![r] = s], s.pc = "flushed", s.op = t.op, s.d = t.d, s.row = t.row,
             t.i = "none" => /\ t.op = "revise" => s.i = "none"
                             /\ t.op # "revise" => \A i \in ItemIds : item[i] # NoItem => i = s.i /\ s.seen = item[i]
                             /\ s.i # "none" => item[s.i] # NoItem
      PROVE  InOrder'
  <2>1. ~overlapped => Fresh(s, doc, item)
    BY <1>1, <1>2, <1>3 DEF Fresh
  <2> QED BY <1>1, <1>3, <2>1, ReadInOrder
<1>4. CASE req' = [req EXCEPT ![r].pc = "flushed"] /\ (t.op = "revise" \/ Items = {})
  <2> DEFINE s == [t EXCEPT !.pc = "flushed"]
  <2>1. /\ req' = [req EXCEPT ![r] = s] /\ s.pc = "flushed" /\ s.op = t.op /\ s.d = t.d /\ s.row = t.row /\ s.i = t.i
    BY <1>1, <1>4 DEF Session
  <2>2. t.op # "revise" => \A i \in ItemIds : item[i] = NoItem
    BY <1>4 DEF Items
  <2> HIDE DEF s
  <2> QED BY <1>3, <2>1, <2>2
<1>5. CASE t.op # "revise" /\ \E i \in Items :
             Items = {i} /\ req' = [req EXCEPT ![r].pc = "flushed", ![r].i = i, ![r].seen = item[i]]
  <2>1. PICK i \in Items : Items = {i} /\ req' = [req EXCEPT ![r].pc = "flushed", ![r].i = i, ![r].seen = item[i]]
    BY <1>5
  <2> DEFINE s == [t EXCEPT !.pc = "flushed", !.i = i, !.seen = item[i]]
  <2>2. /\ req' = [req EXCEPT ![r] = s] /\ s.pc = "flushed" /\ s.op = t.op /\ s.d = t.d /\ s.row = t.row /\ s.i = i
        /\ s.seen = item[i]
    BY <1>1, <2>1 DEF Session
  <2>3. item[i] # NoItem /\ \A j \in ItemIds : item[j] # NoItem => j = i
    BY <2>1 DEF Items
  <2> HIDE DEF s
  <2> QED BY <1>3, <1>5, <2>2, <2>3
<1> QED BY <1>4, <1>5 DEF FlushDocument

LEMMA Verdicts ==
    /\ Verdict("upload") = "PENDING_REVIEW" /\ Verdict("approve") = "APPROVED"
    /\ Verdict("reject") = "REJECTED" /\ Verdict("revise") = "REVISION_REQUESTED"
    /\ ItemVerdict("upload") = "UPLOADED" /\ ItemVerdict("approve") = "APPROVED" /\ ItemVerdict("reject") = "MISSING"
<1>1. Verdict("upload") = "PENDING_REVIEW"
  BY DEF Verdict
<1>2. Verdict("approve") = "APPROVED"
  BY DEF Verdict
<1>3. Verdict("reject") = "REJECTED"
  BY DEF Verdict
<1>4. Verdict("revise") = "REVISION_REQUESTED"
  BY DEF Verdict
<1>5. ItemVerdict("upload") = "UPLOADED"
  BY DEF ItemVerdict
<1>6. ItemVerdict("approve") = "APPROVED"
  BY DEF ItemVerdict
<1>7. ItemVerdict("reject") = "MISSING"
  BY DEF ItemVerdict
<1> QED BY <1>1, <1>2, <1>3, <1>4, <1>5, <1>6, <1>7

\* A commit of fresh copies writes its verdict on the document and the item.
LEMMA CommitKeepsGate ==
    ASSUME GateInv, NEW r \in Requests, Commit(r), ~overlapped
    PROVE  GateHolds(doc', item', approved')
<1> DEFINE s == req[r]
           d == s.d
<1>1. /\ s \in Session /\ s.pc = "flushed" /\ d \in DocumentIds /\ s.op \in {"upload"} \cup Reviews
      /\ s.row.version \in Nat /\ Fresh(s, doc, item) /\ GateHolds(doc, item, approved)
      /\ s.op \in Reviews => doc[d] # NoDocument
  BY DEF GateInv, Inv, TypeOK, Session, DocumentRow, SessionsAreSound, CopiesAreSound, InOrder, Commit
<1>2. /\ \A x \in DocumentIds : doc'[x] = IF x = d THEN Flushed(s, doc[d]) ELSE doc[x]
      /\ \A i \in ItemIds : item'[i] = IF i = s.i THEN ItemAfter(s, item[i]) ELSE item[i]
      /\ \A x \in DocumentIds : approved'[x] = IF x = d /\ s.op = "approve" THEN doc[d].version ELSE approved[x]
  BY <1>1 DEF GateInv, Inv, TypeOK, Commit
<1>3. /\ Flushed(s, doc[d]).status = Column(Verdict(s.op), s.row.status, doc[d].status)
      /\ s.op \in Reviews => Flushed(s, doc[d]).version = doc[d].version
  BY DEF Flushed, Reviews
<1>4. s.row.status = doc[d].status
  BY <1>1 DEF Fresh
<1>5. doc'[d].status = Verdict(s.op) /\ (s.op \in Reviews => doc'[d].version = doc[d].version)
  BY <1>1, <1>2, <1>3, <1>4 DEF Column
<1>6. doc'[d] # NoDocument
  <2>1. "NONE" \notin DocumentStatus /\ NoDocument.status = "NONE"
    BY DEF NoDocument, DocumentStatus
  <2> QED BY <1>1, <1>5, <2>1, VerdictType
<1>7. \A i \in ItemIds :
         /\ ItemAfter(s, item[i]).status = IF ItemVerdict(s.op) = "none" THEN item[i].status
                                           ELSE Column(ItemVerdict(s.op), s.seen.status, item[i].status)
         /\ ItemAfter(s, item[i]).doc = IF s.op = "upload" THEN Column(d, s.seen.doc, item[i].doc) ELSE item[i].doc
  BY DEF ItemAfter
<1>8. \A i \in ItemIds : item'[i] # NoItem => item[i] # NoItem
  BY <1>1, <1>2, DocumentsAssumption DEF Fresh
<1>9. \A x, y \in DocumentIds : doc'[x] # NoDocument /\ doc'[y] # NoDocument => x = y
  <2>1. CASE s.op = "upload"
    BY <1>1, <1>2, <2>1 DEF Fresh
  <2>2. CASE s.op \in Reviews
    BY <1>1, <1>2, <2>2 DEF GateHolds
  <2> QED BY <1>1, <2>1, <2>2
<1>10. \A i, j \in ItemIds : item'[i] # NoItem /\ item'[j] # NoItem => i = j
  BY <1>1, <1>8 DEF GateHolds
<1>11. ASSUME NEW i \in ItemIds, item'[i] # NoItem, item'[i].doc # "none"
       PROVE  /\ doc'[item'[i].doc] # NoDocument
              /\ item'[i].status = "APPROVED" =>
                    /\ approved'[item'[i].doc] = doc'[item'[i].doc].version
                    /\ doc'[item'[i].doc].status \in {"APPROVED", "REVISION_REQUESTED"}
  <2>1. item[i] # NoItem /\ item[i] \in ItemRow
    BY <1>8, <1>11 DEF GateInv, Inv, TypeOK
  <2>2. item[i].doc # "none" => item[i].doc \in DocumentIds /\ doc[item[i].doc] # NoDocument
    BY <1>1, <2>1 DEF GateHolds, ItemRow
  <2>3. s.op \in Reviews /\ item[i].doc # "none" => item[i].doc = d
    BY <1>1, <2>2 DEF GateHolds
  <2>4. s.op # "revise" => i = s.i /\ s.seen = item[i]
    BY <1>1, <2>1 DEF Fresh
  <2>5. CASE s.op = "upload"
    <3>1. item'[i].status = "UPLOADED" /\ item'[i].doc = d
      BY <1>2, <1>7, <2>4, <2>5, Verdicts DEF Column
    <3> QED BY <1>6, <3>1
  <2>6. CASE s.op = "approve"
    <3>1. item'[i].status = "APPROVED" /\ item'[i].doc = item[i].doc
      BY <1>2, <1>7, <2>4, <2>6, Verdicts DEF Column
    <3>2. item'[i].doc = d
      BY <1>11, <2>3, <2>6, <3>1 DEF Reviews
    <3>3. approved'[d] = doc[d].version /\ doc'[d].version = doc[d].version /\ doc'[d].status = "APPROVED"
      BY <1>1, <1>2, <1>5, <2>6, Verdicts DEF Reviews
    <3> QED BY <1>6, <3>2, <3>3
  <2>7. CASE s.op = "reject"
    <3>1. item'[i].status = "MISSING" /\ item'[i].doc = item[i].doc
      BY <1>2, <1>7, <2>4, <2>7, Verdicts DEF Column
    <3>2. item'[i].doc = d
      BY <1>11, <2>3, <2>7, <3>1 DEF Reviews
    <3> QED BY <1>6, <3>1, <3>2
  <2>8. CASE s.op = "revise"
    <3>1. item'[i] = item[i]
      BY <1>1, <1>2, <2>8, DocumentsAssumption DEF Fresh
    <3>2. item[i].doc = d
      BY <1>11, <2>3, <2>8, <3>1 DEF Reviews
    <3>3. approved'[d] = approved[d] /\ doc'[d].version = doc[d].version /\ doc'[d].status = "REVISION_REQUESTED"
      BY <1>1, <1>2, <1>5, <2>8, Verdicts DEF Reviews
    <3>4. item[i].status = "APPROVED" => approved[d] = doc[d].version
      BY <1>1, <1>11, <2>1, <3>1, <3>2 DEF GateHolds
    <3> QED BY <1>6, <3>1, <3>2, <3>3, <3>4
  <2> QED BY <1>1, <2>5, <2>6, <2>7, <2>8 DEF Reviews
<1> QED BY <1>9, <1>10, <1>11 DEF GateHolds

LEMMA GateNext == GateInv /\ [Next]_vars => GateInv'
<1> SUFFICES ASSUME GateInv, [Next]_vars PROVE InOrder'
  BY NextInv DEF GateInv
<1>1. TypeOK /\ InOrder
  BY DEF GateInv, Inv
<1>2. CASE UNCHANGED vars
  BY <1>1, <1>2 DEF vars, InOrder
<1>3. ASSUME NEW r \in Requests, NEW f \in Files, StoreFile(r, f) PROVE InOrder'
  <2> DEFINE s == [Idle EXCEPT !.pc = "stored", !.op = "upload", !.file = f]
  <2>1. s.pc = "stored" /\ s.i = "none"
    BY DEF Idle
  <2>2. doc' = doc /\ item' = item /\ req' = [req EXCEPT ![r] = s] /\ Overlaps
    BY <1>3 DEF StoreFile
  <2> HIDE DEF s
  <2>3. Fresh(s, doc, item)
    BY <2>1 DEF Fresh
  <2> QED BY <1>1, <2>2, <2>3, BeginInOrder
<1>4. ASSUME NEW r \in Requests, NEW d \in DocumentIds, NEW op \in {"approve", "reject", "revise"}, LoadForReview(r, d, op)
      PROVE  InOrder'
  <2> DEFINE row == [NoDocument EXCEPT !.status = doc[d].status]
             s == [Idle EXCEPT !.pc = "loaded", !.op = op, !.d = d, !.row = row]
  <2>1. row.status = doc[d].status
    BY DEF NoDocument
  <2>2. doc' = doc /\ item' = item /\ req' = [req EXCEPT ![r] = s] /\ Overlaps
    BY <1>4 DEF LoadForReview
  <2> HIDE DEF row
  <2>3. s.pc = "loaded" /\ s.op = op /\ s.d = d /\ s.row = row /\ s.i = "none"
    BY DEF Idle
  <2> HIDE DEF s
  <2>4. Fresh(s, doc, item)
    BY <2>1, <2>3 DEF Fresh
  <2> QED BY <1>1, <2>2, <2>4, BeginInOrder
<1>5. ASSUME NEW r \in Requests, Commit(r) PROVE InOrder'
  <2>1. req' = [req EXCEPT ![r] = Idle] /\ overlapped' = overlapped /\ req[r].pc # "idle"
    BY <1>5 DEF Commit
  <2>2. Fresh(Idle, doc', item')
    BY ConstantTypes, IdleIsFresh
  <2>3. ~overlapped => GateHolds(doc', item', approved')
    BY <1>5, CommitKeepsGate
  <2> QED BY <1>1, <2>1, <2>2, <2>3, GoOnInOrder
<1>6. ASSUME NEW r \in Requests, StartChecklist(r) PROVE InOrder'
  <2>1. PICK i \in ItemIds :
          req' = [req EXCEPT ![r] = [Idle EXCEPT !.pc = "generating", !.op = "generate", !.i = i]]
    BY <1>6 DEF StartChecklist
  <2> DEFINE s == [Idle EXCEPT !.pc = "generating", !.op = "generate", !.i = i]
  <2>2. s.pc = "generating" /\ \A j \in ItemIds : item[j] = NoItem
    BY <1>6 DEF Idle, StartChecklist, Items
  <2>3. doc' = doc /\ item' = item /\ req' = [req EXCEPT ![r] = s] /\ Overlaps
    BY <1>6, <2>1 DEF StartChecklist
  <2> HIDE DEF s
  <2>4. Fresh(s, doc, item)
    BY <2>2 DEF Fresh
  <2> QED BY <1>1, <2>3, <2>4, BeginInOrder
<1>7. ASSUME NEW r \in Requests, CommitChecklist(r) PROVE InOrder'
  <2> DEFINE new == [status |-> "REQUIRED", doc |-> "none"]
  <2>1. /\ req' = [req EXCEPT ![r] = Idle] /\ overlapped' = overlapped /\ req[r].pc # "idle"
        /\ doc' = doc /\ approved' = approved /\ req[r].i \in ItemIds
        /\ \A j \in ItemIds : item'[j] = IF j = req[r].i THEN new ELSE item[j]
    BY <1>1, <1>7 DEF CommitChecklist, GateInv, Inv, TypeOK, SessionsAreSound
  <2>2. Fresh(Idle, doc', item')
    BY ConstantTypes, IdleIsFresh
  <2>3. ~overlapped => \A j \in ItemIds : item[j] = NoItem
    BY <1>1, <1>7 DEF InOrder, Fresh, CommitChecklist
  <2>4. ~overlapped => GateHolds(doc', item', approved')
    BY <1>1, <2>1, <2>3 DEF InOrder, GateHolds
  <2> QED BY <1>1, <2>1, <2>2, <2>4, GoOnInOrder
<1>8. ASSUME NEW r \in Requests, Rollback(r) PROVE InOrder'
  <2>1. /\ req' = [req EXCEPT ![r] = Idle] /\ overlapped' = overlapped /\ req[r].pc # "idle"
        /\ doc' = doc /\ item' = item /\ approved' = approved
    BY <1>8 DEF Rollback
  <2>2. Fresh(Idle, doc, item)
    BY ConstantTypes, IdleIsFresh
  <2> QED BY <1>1, <2>1, <2>2, ReadInOrder
<1> QED BY <1>2, <1>3, <1>4, <1>5, <1>6, <1>7, <1>8, SelectInOrder, FlushInOrder DEF Next

\* While requests come one after the other, the checklist lets the shipment go on
\* only when the version its document shows was approved and neither rejected nor
\* replaced since, for every set of documents, items, files and requests.
THEOREM GateStaysApproved == Spec => []GateMeansApproved
<1>1. GateInv => GateMeansApproved
  BY DEF GateInv, InOrder, GateHolds, GateMeansApproved, CanProceed, Items
<1> QED BY GateInit, GateNext, <1>1, PTL DEF Spec
=============================================================================
