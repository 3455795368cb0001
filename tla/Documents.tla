----------------------------- MODULE Documents ------------------------------
(***************************************************************************)
(* The documents of one type on one shipment and the checklist item that    *)
(* asks for them (app/modules/documents/service.py and its endpoints):      *)
(* upload, approve, reject, request a revision, generate the checklist.     *)
(*                                                                         *)
(* documents, document_versions and document_checklist_items have no unique *)
(* key but the id, and no SELECT takes a lock.  A request works on the copy *)
(* it loaded; its UPDATE names only the columns that differ from that copy, *)
(* and keeps the row until the commit.                                     *)
(***************************************************************************)
EXTENDS Integers

CONSTANTS
    Requests,       \* HTTP requests that may be in flight together
    DocumentIds,    \* row ids of documents
    ItemIds,        \* row ids of document_checklist_items
    Files,          \* storage keys: the hash of the content and the file name
    Approvers,      \* role sets users may hold
    Gate,           \* DOCUMENT_APPROVAL_GATES of the type, {} for no gate
    MaxVersion      \* bound on version numbers

ASSUME DocumentsAssumption == MaxVersion \in Nat /\ "none" \notin DocumentIds \cup ItemIds \cup Files

VARIABLES
    stored,         \* files the storage backend has taken: in S3 or, if S3 fails, in memory until a restart
    doc,            \* documents
    trail,          \* document_versions of each document; rows alike are one
    item,           \* document_checklist_items
    req,            \* the requests' sessions
    approved,       \* history: the version of each document approved last, until requests overlap
    overlapped      \* history: whether two requests have been in flight together

vars == <<stored, doc, trail, item, req, approved, overlapped>>

DocumentStatus == {"PENDING_REVIEW", "APPROVED", "REJECTED", "REVISION_REQUESTED"}
ItemStatus == {"REQUIRED", "UPLOADED", "APPROVED", "MISSING"}

DocumentRow == [status : DocumentStatus \cup {"NONE"}, version : Nat, file : Files \cup {"none"}]
NoDocument == [status |-> "NONE", version |-> 0, file |-> "none"]
VersionRow == [version : Nat, file : Files]
ItemRow == [status : ItemStatus \cup {"NONE"}, doc : DocumentIds \cup {"none"}]
NoItem == [status |-> "NONE", doc |-> "none"]

\* A session: what it does, the copies it loaded and the file it brings.
Session == [pc : {"idle", "stored", "loaded", "flushed", "generating"},
            op : {"none", "upload", "approve", "reject", "revise", "generate"},
            file : Files \cup {"none"}, d : DocumentIds \cup {"none"}, row : DocumentRow,
            i : ItemIds \cup {"none"}, seen : ItemRow]
Idle == [pc |-> "idle", op |-> "none", file |-> "none", d |-> "none", row |-> NoDocument,
         i |-> "none", seen |-> NoItem]

Init ==
    /\ stored = {}
    /\ doc = [d \in DocumentIds |-> NoDocument]
    /\ trail = [d \in DocumentIds |-> {}]
    /\ item = [i \in ItemIds |-> NoItem]
    /\ req = [r \in Requests |-> Idle]
    /\ approved = [d \in DocumentIds |-> 0]
    /\ overlapped = FALSE

Live == {d \in DocumentIds : doc[d] # NoDocument}
Items == {i \in ItemIds : item[i] # NoItem}

\* A request that begins while another is in flight ends the record of approvals.
Overlaps ==
    /\ overlapped' = (overlapped \/ \E q \in Requests : req[q].pc # "idle")
    /\ approved' = IF overlapped' THEN [d \in DocumentIds |-> 0] ELSE approved

-----------------------------------------------------------------------------
(* What a request changes                                                   *)

\* The status each operation gives the document and the checklist item.
Verdict(op) ==
    CASE op = "upload" -> "PENDING_REVIEW" [] op = "approve" -> "APPROVED"
      [] op = "reject" -> "REJECTED" [] op = "revise" -> "REVISION_REQUESTED"

ItemVerdictOfReview(op) == CASE op = "approve" -> "APPROVED" [] op = "reject" -> "MISSING" [] OTHER -> "none"

ItemVerdict(op) ==
    CASE op = "upload" -> "UPLOADED" [] op = "approve" -> "APPROVED" [] op = "reject" -> "MISSING"
      [] OTHER -> "none"

\* A column keeps what others wrote when the session's value is the one it loaded.
Column(new, loaded, current) == IF new = loaded THEN current ELSE new

\* The documents row once the session has flushed.
Flushed(s, current) ==
    [status  |-> Column(Verdict(s.op), s.row.status, current.status),
     version |-> IF s.op = "upload" THEN s.row.version + 1 ELSE current.version,
     file    |-> IF s.op = "upload" THEN Column(s.file, s.row.file, current.file) ELSE current.file]

VersionRowOfLoaded(s) == [version |-> s.row.version + 1, file |-> IF s.row.file = "none" THEN s.file ELSE s.row.file]

\* The immutable DocumentVersion of an upload.
NewVersion(s) == [version |-> s.row.version + 1, file |-> s.file]

\* The checklist item once the session has committed.
ItemAfter(s, current) ==
    [status |-> IF ItemVerdict(s.op) = "none" THEN current.status
                ELSE Column(ItemVerdict(s.op), s.seen.status, current.status),
     doc    |-> IF s.op = "upload" THEN Column(s.d, s.seen.doc, current.doc) ELSE current.doc]

\* The UPDATE of documents waits for a session that holds the row.  There is
\* none when an approval finds the document approved already.
Writes(s) == s.op = "approve" => s.row.status # "APPROVED"
RowIsFree(r, d) == \A q \in Requests \ {r} : ~(req[q].pc = "flushed" /\ req[q].d = d /\ Writes(req[q]))

-----------------------------------------------------------------------------
(* upload_document                                                          *)

\* The file goes to the storage backend before the transaction begins.  A put that
\* fails goes to a dictionary of the process instead and succeeds all the same.
StoreFile(r, f) ==
    /\ req[r].pc = "idle"
    /\ stored' = stored \cup {f}
    /\ req' = [req EXCEPT ![r] = [Idle EXCEPT !.pc = "stored", !.op = "upload", !.file = f]]
    /\ Overlaps
    /\ UNCHANGED <<doc, trail, item>>

\* scalar_one_or_none: a second document of the type makes every upload raise.
\* Without one, the request inserts its own, which nobody else sees.
SelectDocument(r) ==
    /\ req[r].pc = "stored"
    /\ \/ \E d \in Live :
            /\ Live = {d}
            /\ req' = [req EXCEPT ![r].pc = "loaded", ![r].d = d, ![r].row = doc[d]]
       \/ /\ Live = {}
          /\ \E d \in DocumentIds :
               /\ \A q \in Requests : req[q].d # d
               /\ req' = [req EXCEPT ![r].pc = "loaded", ![r].d = d]
    /\ UNCHANGED <<stored, doc, trail, item, approved, overlapped>>

\* approve_document, reject_document and request_revision load the row by id.
\* None of them looks at the status it has.
MayApprove(user) == Gate = {} \/ user \cap Gate # {} \/ "SUPER_ADMIN" \in user

LoadForReview(r, d, op) ==
    /\ req[r].pc = "idle"
    /\ d \in Live
    /\ op = "approve" => \E user \in Approvers : MayApprove(user)
    /\ req' = [req EXCEPT ![r] = [Idle EXCEPT !.pc = "loaded", !.op = op, !.d = d,
                                              !.row = [NoDocument EXCEPT !.status = doc[d].status]]]
    /\ Overlaps
    /\ UNCHANGED <<stored, doc, trail, item>>

\* The SELECT of the checklist item flushes the document first; again
\* scalar_one_or_none.  request_revision does not look at the checklist.
FlushDocument(r) ==
    LET s == req[r]
    IN  /\ s.pc = "loaded"
        /\ Writes(s) => RowIsFree(r, s.d)
        /\ \/ /\ s.op # "revise" /\ Items = {}
              /\ req' = [req EXCEPT ![r].pc = "flushed"]
           \/ /\ s.op # "revise"
              /\ \E i \in Items :
                   /\ Items = {i}
                   /\ req' = [req EXCEPT ![r].pc = "flushed", ![r].i = i, ![r].seen = item[i]]
           \/ /\ s.op = "revise"
              /\ req' = [req EXCEPT ![r].pc = "flushed"]
        /\ UNCHANGED <<stored, doc, trail, item, approved, overlapped>>

Commit(r) ==
    LET s == req[r]
    IN  /\ s.pc = "flushed"
        /\ s.op = "upload" => s.row.version < MaxVersion
        /\ doc' = [doc EXCEPT ![s.d] = Flushed(s, @)]
        /\ trail' = IF s.op = "upload" THEN [trail EXCEPT ![s.d] = @ \cup {NewVersion(s)}] ELSE trail
        /\ item' = [i \in ItemIds |-> IF i = s.i THEN ItemAfter(s, item[i]) ELSE item[i]]
        /\ approved' = IF s.op = "approve" /\ ~overlapped
                       THEN [approved EXCEPT ![s.d] = doc[s.d].version] ELSE approved
        /\ req' = [req EXCEPT ![r] = Idle]
        /\ UNCHANGED <<stored, overlapped>>

-----------------------------------------------------------------------------
(* generate_checklist: the item is inserted when the SELECT found none.     *)

StartChecklist(r) ==
    /\ req[r].pc = "idle"
    /\ Items = {}
    /\ \E i \in ItemIds :
         /\ \A q \in Requests : req[q].i # i
         /\ req' = [req EXCEPT ![r] = [Idle EXCEPT !.pc = "generating", !.op = "generate", !.i = i]]
    /\ Overlaps
    /\ UNCHANGED <<stored, doc, trail, item>>

CommitChecklist(r) ==
    /\ req[r].pc = "generating"
    /\ item' = [item EXCEPT ![req[r].i] = [status |-> "REQUIRED", doc |-> "none"]]
    /\ req' = [req EXCEPT ![r] = Idle]
    /\ UNCHANGED <<stored, doc, trail, approved, overlapped>>

\* A failed check, a lost connection: the stored file stays behind.
Rollback(r) ==
    /\ req[r].pc # "idle"
    /\ req' = [req EXCEPT ![r] = Idle]
    /\ UNCHANGED <<stored, doc, trail, item, approved, overlapped>>

Next ==
    \E r \in Requests :
        \/ \E f \in Files : StoreFile(r, f)
        \/ SelectDocument(r)
        \/ \E d \in DocumentIds, op \in {"approve", "reject", "revise"} : LoadForReview(r, d, op)
        \/ FlushDocument(r) \/ Commit(r)
        \/ StartChecklist(r) \/ CommitChecklist(r)
        \/ Rollback(r)

Spec == Init /\ [][Next]_vars

-----------------------------------------------------------------------------
(* Properties                                                              *)

\* Rows and sessions have their types.
TypeOK ==
    /\ stored \subseteq Files
    /\ doc \in [DocumentIds -> DocumentRow]
    /\ trail \in [DocumentIds -> SUBSET VersionRow]
    /\ item \in [ItemIds -> ItemRow]
    /\ req \in [Requests -> Session]
    /\ approved \in [DocumentIds -> Nat]
    /\ overlapped \in BOOLEAN

Numbers(d) == {v.version : v \in trail[d]}
FilesOf(d) == {v.file : v \in trail[d]}

\* However uploads and reviews interleave, also when two uploads take the same
\* number or a late one sets the number back: the version trail of a document
\* has no gap, the number and the file the document shows are in it, and every
\* file named anywhere was taken by the storage backend.
TrailIsSound ==
    \A d \in DocumentIds :
        /\ \A n \in Numbers(d) : \A m \in 1 .. n : m \in Numbers(d)
        /\ doc[d] # NoDocument => doc[d].version \in Numbers(d) /\ doc[d].file \in FilesOf(d)
        /\ FilesOf(d) \subseteq stored

\* validate_transition_documents, for the one mandatory item.
CanProceed == Items # {} /\ \A i \in Items : item[i].status = "APPROVED" /\ item[i].doc # "none"

\* While requests come one after the other, the checklist lets a shipment go on
\* only if the version its document shows now has been approved, and not
\* rejected or replaced since.
GateMeansApproved ==
    ~overlapped /\ CanProceed =>
        \A i \in Items : LET d == item[i].doc
                         IN  /\ approved[d] = doc[d].version
                             /\ doc[d].status \in {"APPROVED", "REVISION_REQUESTED"}
=============================================================================
