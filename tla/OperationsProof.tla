-------------------------- MODULE OperationsProof ---------------------------
(***************************************************************************)
(* Proofs about Shipments and Eta, for any number of shipments, legs and    *)
(* requests.                                                               *)
(*                                                                         *)
(* Shipments.  HistoryExplainsState and HistoryIsPath say nothing of        *)
(* requests in flight.  The invariant adds what a session knows of the rows *)
(* it loaded: the transition it checked, that nobody else works on a        *)
(* shipment being created, and that the copy of the only request on a       *)
(* shipment is fresh.                                                      *)
(*                                                                         *)
(* Estimates.  Whatever the interleaving, the rows a session has added and  *)
(* those committed are numbered without a gap, also together with the rows  *)
(* of others (EtaInv); it holds no leg created later than that of its last  *)
(* row, and its alerts tell every slip it sees.  A request that has been alone knows more       *)
(* (EtaSerialInv): its copies are current and its rows follow one from the  *)
(* other.                                                                  *)
(***************************************************************************)
EXTENDS Shipments, Eta, WellFoundedInduction, TLAPS

-----------------------------------------------------------------------------
(* Shipments                                                               *)

Moving == {"shipment", "workflow"}
Reading == {"loaded", "shipment"}

\* What a session may be in the middle of.
SessionsAreSound ==
    \A r \in Requests :
        /\ req[r].op = "idle" => req[r].s = "none"
        /\ req[r].op # "idle" => req[r].s \in ShipmentIds
        /\ req[r].op = "create" => status[req[r].s] = "NONE"
        /\ req[r].op \in Moving \cup {"loaded"} => status[req[r].s] # "NONE"
        /\ req[r].op \in Moving => <<req[r].row.state, req[r].to>> \in Transitions

CreatorsAreAlone ==
    \A r, q \in Requests : req[r].op = "create" /\ req[q].s = req[r].s => q = r

\* A shipment that is not there has left no trace.
RowsAreSound ==
    \A s \in ShipmentIds : status[s] = "NONE" => instance[s] = NoInstance /\ history[s] = <<>>

\* The only request on a shipment has fresh copies of its rows.
CopiesAreFresh ==
    \A s \in ShipmentIds \ crossed :
        /\ \A r, q \in Requests : req[r].s = s /\ req[q].s = s => r = q
        /\ \A r \in Requests : req[r].s = s /\ req[r].op \in Moving => req[r].row = instance[s]
        /\ \A r \in Requests : req[r].s = s /\ req[r].op \in Reading => req[r].seen = status[s]

\* HistoryIsPath, and where the path ends.
PathEndsHere ==
    \A s \in ShipmentIds \ crossed : instance[s] # NoInstance =>
        /\ instance[s].version = 1 + Len(history[s])
        /\ instance[s].state = IF history[s] = <<>> THEN "DRAFT" ELSE history[s][Len(history[s])][2]
        /\ \A k \in 1 .. Len(history[s]) :
              history[s][k][1] = IF k = 1 THEN "DRAFT" ELSE history[s][k - 1][2]

\* HistoryExplainsState with the positions as numbers.
RowsExplainState ==
    \A s \in ShipmentIds :
        /\ \A k \in 1 .. Len(history[s]) : history[s][k] \in Transitions
        /\ history[s] # <<>> => instance[s].state = history[s][Len(history[s])][2]

Rest == SessionsAreSound /\ CreatorsAreAlone /\ RowsAreSound /\ CopiesAreFresh /\ PathEndsHere /\ RowsExplainState
Inv == TypeOK /\ Rest

LEMMA ConstantTypes ==
    /\ NoInstance \in InstanceRow /\ Idle \in Session
    /\ Idle.op = "idle" /\ Idle.s = "none"
    /\ Transitions \subseteq States \X States
<1>1. NoInstance \in InstanceRow
  BY DEF NoInstance, InstanceRow
<1>2. Idle \in Session /\ Idle.op = "idle" /\ Idle.s = "none"
  BY <1>1 DEF Idle, Session
<1>3. Transitions \subseteq States \X States
  BY DEF Transitions, States
<1> QED BY <1>1, <1>2, <1>3

LEMMA AppendFacts ==
    ASSUME NEW S, NEW h \in Seq(S), NEW e \in S
    PROVE  /\ Append(h, e) \in Seq(S) /\ Append(h, e) # <<>>
           /\ Len(h) \in Nat /\ Len(Append(h, e)) = Len(h) + 1
           /\ \A k \in 1 .. Len(h) : Append(h, e)[k] = h[k]
           /\ Append(h, e)[Len(h) + 1] = e
  OBVIOUS

LEMMA InitInv == Init => Inv
<1> SUFFICES ASSUME Init PROVE Inv
  OBVIOUS
<1>1. TypeOK
  <2>1. status \in [ShipmentIds -> States \cup {"NONE"}] /\ instance \in [ShipmentIds -> InstanceRow]
    BY ConstantTypes DEF Init
  <2>2. history \in [ShipmentIds -> Seq(States \X States)]
    <3>1. <<>> \in Seq(States \X States)
      OBVIOUS
    <3> QED BY <3>1 DEF Init
  <2>3. req \in [Requests -> Session] /\ crossed \subseteq ShipmentIds
    BY ConstantTypes DEF Init
  <2>4. machine \in BOOLEAN
    BY DEF Init
  <2> QED BY <2>1, <2>2, <2>3, <2>4 DEF TypeOK
<1>2. \A r \in Requests : req[r].op = "idle" /\ req[r].s = "none"
  BY ConstantTypes DEF Init
<1>3. \A s \in ShipmentIds : instance[s] = NoInstance /\ history[s] = <<>> /\ status[s] = "NONE"
  BY DEF Init
<1>4. SessionsAreSound /\ CreatorsAreAlone /\ RowsAreSound
  BY <1>2, <1>3 DEF SessionsAreSound, CreatorsAreAlone, RowsAreSound, Moving
<1>5. CopiesAreFresh /\ PathEndsHere /\ RowsExplainState
  BY <1>2, <1>3, ShipmentsAssumption DEF CopiesAreFresh, PathEndsHere, RowsExplainState, Moving, Reading
<1> QED BY <1>1, <1>4, <1>5 DEF Inv, Rest

\* A request that begins on a shipment, goes on with it or gives up: only its
\* session changes, and a request that joins another on it is noted.
LEMMA SessionStep ==
    ASSUME Inv, NEW r \in Requests, NEW x \in Session, req' = [req EXCEPT ![r] = x],
           UNCHANGED db, crossed \subseteq crossed', crossed' \subseteq ShipmentIds,
           x.op = "idle" => x.s = "none",
           x.op # "idle" => x.s \in ShipmentIds,
           x.op = "create" => status[x.s] = "NONE" /\ \A q \in Requests : req[q].s # x.s,
           x.op \in Moving \cup {"loaded"} => status[x.s] # "NONE",
           x.op \in Moving => <<x.row.state, x.to>> \in Transitions /\ x.row = instance[x.s],
           x.op \in Reading => x.seen = status[x.s] \/ x.s \in crossed,
           x.op # "idle" /\ x.s # req[r].s => x.s \in crossed' \/ \A q \in Requests : req[q].s # x.s
    PROVE  Inv'
<1>1. \A q \in Requests : req'[q] = IF q = r THEN x ELSE req[q]
  BY DEF Inv, TypeOK
<1>2. status' = status /\ instance' = instance /\ history' = history /\ machine' = machine
  BY DEF db
<1>3. TypeOK'
  BY <1>2 DEF Inv, TypeOK
<1>4. SessionsAreSound'
  BY <1>1, <1>2 DEF Inv, Rest, SessionsAreSound
<1>5. RowsAreSound' /\ PathEndsHere' /\ RowsExplainState'
  <2>1. RowsAreSound'
    BY <1>2 DEF Inv, Rest, RowsAreSound
  <2>2. PathEndsHere'
    BY <1>2 DEF Inv, Rest, PathEndsHere
  <2>3. RowsExplainState'
    BY <1>2 DEF Inv, Rest, RowsExplainState
  <2> QED BY <2>1, <2>2, <2>3
<1>6. CreatorsAreAlone'
  <2> SUFFICES ASSUME NEW p \in Requests, NEW q \in Requests, req'[p].op = "create", req'[q].s = req'[p].s
               PROVE  q = p
    BY DEF CreatorsAreAlone
  <2>1. CASE p = r
    BY <1>1, <2>1
  <2>2. CASE p # r /\ q # r
    BY <1>1, <2>2 DEF Inv, Rest, CreatorsAreAlone
  <2>3. CASE p # r /\ q = r
    <3>1. req[p].op = "create" /\ x.s = req[p].s /\ req[p].s \in ShipmentIds /\ status[x.s] = "NONE"
      BY <1>1, <2>3 DEF Inv, Rest, SessionsAreSound
    <3>2. x.op \notin {"idle"} /\ x.op \notin Moving \cup {"loaded"}
      BY <3>1, ShipmentsAssumption
    <3>3. x.op = "create"
      BY <3>2 DEF Session, Moving
    <3> QED BY <3>1, <3>3
  <2> QED BY <2>1, <2>2, <2>3
<1>7. CopiesAreFresh'
  <2> SUFFICES ASSUME NEW s \in ShipmentIds \ crossed'
               PROVE  /\ \A p, q \in Requests : req'[p].s = s /\ req'[q].s = s => p = q
                      /\ \A p \in Requests : req'[p].s = s /\ req'[p].op \in Moving => req'[p].row = instance[s]
                      /\ \A p \in Requests : req'[p].s = s /\ req'[p].op \in Reading => req'[p].seen = status[s]
    BY <1>2 DEF CopiesAreFresh
  <2>1. s \in ShipmentIds \ crossed
    OBVIOUS
  <2>2. /\ \A p, q \in Requests : req[p].s = s /\ req[q].s = s => p = q
        /\ \A p \in Requests : req[p].s = s /\ req[p].op \in Moving => req[p].row = instance[s]
        /\ \A p \in Requests : req[p].s = s /\ req[p].op \in Reading => req[p].seen = status[s]
    BY <2>1 DEF Inv, Rest, CopiesAreFresh
  <2>3. \A q \in Requests : x.s = s /\ q # r => req[q].s # s
    <3> SUFFICES ASSUME x.s = s, NEW q \in Requests, q # r, req[q].s = s PROVE FALSE
      OBVIOUS
    <3>1. x.op # "idle"
      BY ShipmentsAssumption
    <3>2. x.s = req[r].s
      BY <3>1
    <3> QED BY <2>2, <3>2
  <2>4. ASSUME NEW p \in Requests, NEW q \in Requests, req'[p].s = s, req'[q].s = s PROVE p = q
    BY <1>1, <2>2, <2>3, <2>4
  <2>5. ASSUME NEW p \in Requests, req'[p].s = s, req'[p].op \in Moving PROVE req'[p].row = instance[s]
    BY <1>1, <2>2, <2>5
  <2>6. ASSUME NEW p \in Requests, req'[p].s = s, req'[p].op \in Reading PROVE req'[p].seen = status[s]
    BY <1>1, <2>1, <2>2, <2>6
  <2> QED BY <2>4, <2>5, <2>6
<1> QED BY <1>3, <1>4, <1>5, <1>6, <1>7 DEF Inv, Rest

LEMMA StartCreateInv ==
    ASSUME Inv, NEW r \in Requests, NEW s \in ShipmentIds, NEW user \in Users, StartCreate(r, s, user)
    PROVE  Inv'
<1> DEFINE x == [Idle EXCEPT !.op = "create", !.s = s, !.sawMachine = machine]
<1>1. x \in Session /\ x.op = "create" /\ x.s = s
  BY DEF Idle, Session, NoInstance, InstanceRow, Inv, TypeOK
<1>2. req' = [req EXCEPT ![r] = x] /\ UNCHANGED db /\ crossed' = crossed /\ crossed \subseteq ShipmentIds
  BY DEF StartCreate, Inv, TypeOK
<1>3. status[s] = "NONE" /\ \A q \in Requests : req[q].s # s
  BY DEF StartCreate
<1> HIDE DEF x
<1> QED BY <1>1, <1>2, <1>3, SessionStep DEF Moving, Reading

\* A request that begins on s joins the others on it, or is alone.
LEMMA MeetsFacts ==
    ASSUME Inv, NEW s \in ShipmentIds, Meets(s)
    PROVE  /\ crossed \subseteq crossed' /\ crossed' \subseteq ShipmentIds
           /\ s \in crossed' \/ \A q \in Requests : req[q].s # s
  BY DEF Meets, Inv, TypeOK

LEMMA LoadShipmentInv ==
    ASSUME Inv, NEW r \in Requests, NEW s \in ShipmentIds, LoadShipment(r, s)
    PROVE  Inv'
<1> DEFINE x == [Idle EXCEPT !.op = "loaded", !.s = s, !.seen = status[s]]
<1>1. x \in Session /\ x.op = "loaded" /\ x.s = s /\ x.seen = status[s]
  BY DEF Idle, Session, NoInstance, InstanceRow, Inv, TypeOK
<1>2. req' = [req EXCEPT ![r] = x] /\ UNCHANGED db /\ Meets(s) /\ status[s] # "NONE"
  BY DEF LoadShipment
<1>3. /\ crossed \subseteq crossed' /\ crossed' \subseteq ShipmentIds
      /\ s \in crossed' \/ \A q \in Requests : req[q].s # s
  BY <1>2, MeetsFacts
<1> HIDE DEF x
<1> QED BY <1>1, <1>2, <1>3, SessionStep DEF Moving, Reading

\* The checks made on the instance that was read, whichever endpoint made them.
LEMMA CheckedInv ==
    ASSUME Inv, NEW r \in Requests, NEW s \in ShipmentIds, NEW to \in States, NEW user \in Users,
           NEW channel \in Moving, NEW seen \in States \cup {"NONE"},
           Checked(r, s, to, user, channel, seen),
           channel = "shipment" => seen = status[s] \/ s \in crossed,
           crossed \subseteq crossed', crossed' \subseteq ShipmentIds,
           s # req[r].s => s \in crossed' \/ \A q \in Requests : req[q].s # s
    PROVE  Inv'
<1> DEFINE x == [Idle EXCEPT !.op = channel, !.s = s, !.seen = seen, !.row = instance[s], !.to = to]
<1>1. x \in Session /\ x.op = channel /\ x.s = s /\ x.row = instance[s] /\ x.to = to /\ x.seen = seen
  BY DEF Idle, Session, NoInstance, InstanceRow, Inv, TypeOK, Moving
<1>2. req' = [req EXCEPT ![r] = x] /\ UNCHANGED db /\ <<x.row.state, x.to>> \in Transitions
  BY <1>1 DEF Checked, Allows
<1>3. status[s] # "NONE"
  BY DEF Checked, Inv, Rest, RowsAreSound
<1>4. x.op # "idle" /\ x.op # "create" /\ (x.op \in Reading => x.op = "shipment")
  BY <1>1 DEF Moving, Reading
<1> HIDE DEF x
<1> QED BY <1>1, <1>2, <1>3, <1>4, SessionStep

LEMMA LoadInstanceInv ==
    ASSUME Inv, NEW r \in Requests, NEW to \in States, NEW user \in Users, LoadInstance(r, to, user)
    PROVE  Inv'
<1>1. req[r].s \in ShipmentIds /\ req[r].seen \in States \cup {"NONE"}
  BY DEF LoadInstance, Inv, TypeOK, Session, Rest, SessionsAreSound
<1>2. crossed' = crossed /\ crossed \subseteq ShipmentIds
  BY DEF LoadInstance, Inv, TypeOK
<1>3. Checked(r, req[r].s, to, user, "shipment", req[r].seen) /\ "shipment" \in Moving
  BY DEF LoadInstance, Moving
<1>4. req[r].seen = status[req[r].s] \/ req[r].s \in crossed
  BY <1>1 DEF LoadInstance, Reading, Inv, Rest, CopiesAreFresh
<1> QED BY <1>1, <1>2, <1>3, <1>4, CheckedInv

LEMMA LoadInstanceAloneInv ==
    ASSUME Inv, NEW r \in Requests, NEW s \in ShipmentIds, NEW to \in States, NEW user \in Users,
           LoadInstanceAlone(r, s, to, user)
    PROVE  Inv'
<1>1. Checked(r, s, to, user, "workflow", "NONE") /\ "workflow" \in Moving /\ Meets(s)
  BY DEF LoadInstanceAlone, Moving
<1>2. /\ crossed \subseteq crossed' /\ crossed' \subseteq ShipmentIds
      /\ s \in crossed' \/ \A q \in Requests : req[q].s # s
  BY <1>1, MeetsFacts
<1> QED BY <1>1, <1>2, CheckedInv

LEMMA RollbackInv ==
    ASSUME Inv, NEW r \in Requests, Rollback(r)
    PROVE  Inv'
<1>1. req' = [req EXCEPT ![r] = Idle] /\ UNCHANGED db /\ crossed' = crossed /\ crossed \subseteq ShipmentIds
  BY DEF Rollback, Inv, TypeOK
<1> QED BY <1>1, ConstantTypes, SessionStep DEF Moving, Reading

LEMMA BookFromQuotationInv ==
    ASSUME Inv, NEW r \in Requests, NEW s \in ShipmentIds, BookFromQuotation(r, s)
    PROVE  Inv'
<1>1. /\ status' = [status EXCEPT ![s] = "BOOKED"] /\ \A q \in Requests : req[q].s # s
      /\ UNCHANGED <<instance, history, machine, req, crossed>>
  BY DEF BookFromQuotation
<1>2. \A u \in ShipmentIds : status'[u] = IF u = s THEN "BOOKED" ELSE status[u]
  BY <1>1 DEF Inv, TypeOK
<1>3. TypeOK'
  BY <1>1 DEF Inv, TypeOK, States
<1>4. SessionsAreSound'
  BY <1>1, <1>2 DEF Inv, Rest, SessionsAreSound, Moving
<1>5. RowsAreSound'
  BY <1>1, <1>2 DEF Inv, Rest, RowsAreSound
<1>6. CreatorsAreAlone' /\ CopiesAreFresh'
  BY <1>1, <1>2 DEF Inv, Rest, CreatorsAreAlone, CopiesAreFresh
<1>7. PathEndsHere' /\ RowsExplainState'
  BY <1>1 DEF Inv, Rest, PathEndsHere, RowsExplainState
<1> QED BY <1>3, <1>4, <1>5, <1>6, <1>7 DEF Inv, Rest

\* A commit writes the rows of its shipment and ends the session.  The other
\* sessions on the shipment, if there are any, are noted in crossed.
LEMMA CommitStep ==
    ASSUME Inv, NEW r \in Requests, NEW s \in ShipmentIds, req[r].s = s,
           NEW st \in States, NEW row \in InstanceRow, NEW h \in Seq(States \X States),
           status' = [status EXCEPT ![s] = st], instance' = [instance EXCEPT ![s] = row],
           history' = [history EXCEPT ![s] = h], req' = [req EXCEPT ![r] = Idle],
           machine' \in BOOLEAN, crossed' = crossed,
           \A q \in Requests : q # r /\ req[q].s = s => req[q].op # "create",
           \A k \in 1 .. Len(h) : h[k] \in Transitions,
           h # <<>> => row.state = h[Len(h)][2],
           s \notin crossed =>
               /\ row.version = 1 + Len(h)
               /\ row.state = IF h = <<>> THEN "DRAFT" ELSE h[Len(h)][2]
               /\ \A k \in 1 .. Len(h) : h[k][1] = IF k = 1 THEN "DRAFT" ELSE h[k - 1][2]
    PROVE  Inv'
<1>1. \A q \in Requests : req'[q] = IF q = r THEN Idle ELSE req[q]
  BY DEF Inv, TypeOK
<1>2. \A u \in ShipmentIds : /\ status'[u] = IF u = s THEN st ELSE status[u]
                             /\ instance'[u] = IF u = s THEN row ELSE instance[u]
                             /\ history'[u] = IF u = s THEN h ELSE history[u]
  BY DEF Inv, TypeOK
<1>3. st # "NONE"
  BY DEF States
<1>4. TypeOK'
  <2>1. status' \in [ShipmentIds -> States \cup {"NONE"}] /\ instance' \in [ShipmentIds -> InstanceRow]
    BY DEF Inv, TypeOK
  <2>2. history' \in [ShipmentIds -> Seq(States \X States)]
    BY DEF Inv, TypeOK
  <2>3. req' \in [Requests -> Session] /\ crossed' \subseteq ShipmentIds
    BY ConstantTypes DEF Inv, TypeOK
  <2> QED BY <2>1, <2>2, <2>3 DEF TypeOK
<1>5. SessionsAreSound'
  <2> SUFFICES ASSUME NEW q \in Requests
               PROVE  /\ req'[q].op = "idle" => req'[q].s = "none"
                      /\ req'[q].op # "idle" => req'[q].s \in ShipmentIds
                      /\ req'[q].op = "create" => status'[req'[q].s] = "NONE"
                      /\ req'[q].op \in Moving \cup {"loaded"} => status'[req'[q].s] # "NONE"
                      /\ req'[q].op \in Moving => <<req'[q].row.state, req'[q].to>> \in Transitions
    BY DEF SessionsAreSound
  <2>1. CASE q = r
    BY <1>1, <2>1, ConstantTypes DEF Moving
  <2>2. CASE q # r
    <3>1. /\ req[q].op = "idle" => req[q].s = "none"
          /\ req[q].op # "idle" => req[q].s \in ShipmentIds
          /\ req[q].op = "create" => status[req[q].s] = "NONE"
          /\ req[q].op \in Moving \cup {"loaded"} => status[req[q].s] # "NONE"
          /\ req[q].op \in Moving => <<req[q].row.state, req[q].to>> \in Transitions
      BY DEF Inv, Rest, SessionsAreSound
    <3>2. req'[q] = req[q]
      BY <1>1, <2>2
    <3>3. req[q].op \in Moving \cup {"loaded"} => req[q].op # "idle"
      BY DEF Moving
    <3> QED BY <1>2, <1>3, <2>2, <3>1, <3>2, <3>3
  <2> QED BY <2>1, <2>2
<1>6. CreatorsAreAlone'
  <2>1. \A p \in Requests : req[p].op = "create" => req[p].s # "none"
    BY ShipmentsAssumption DEF Inv, Rest, SessionsAreSound
  <2> QED BY <1>1, <2>1, ConstantTypes DEF Inv, Rest, CreatorsAreAlone
<1>7. RowsAreSound'
  BY <1>2, <1>3 DEF Inv, Rest, RowsAreSound
<1>8. CopiesAreFresh'
  <2> SUFFICES ASSUME NEW u \in ShipmentIds \ crossed
               PROVE  /\ \A p, q \in Requests : req'[p].s = u /\ req'[q].s = u => p = q
                      /\ \A p \in Requests : req'[p].s = u /\ req'[p].op \in Moving => req'[p].row = instance'[u]
                      /\ \A p \in Requests : req'[p].s = u /\ req'[p].op \in Reading => req'[p].seen = status'[u]
    BY DEF CopiesAreFresh
  <2>1. /\ \A p, q \in Requests : req[p].s = u /\ req[q].s = u => p = q
        /\ \A p \in Requests : req[p].s = u /\ req[p].op \in Moving => req[p].row = instance[u]
        /\ \A p \in Requests : req[p].s = u /\ req[p].op \in Reading => req[p].seen = status[u]
    BY DEF Inv, Rest, CopiesAreFresh
  <2>2. Idle.s # u
    BY ConstantTypes, ShipmentsAssumption
  <2>3. \A p \in Requests : req'[p].s = u => p # r /\ req'[p] = req[p]
    BY <1>1, <2>2
  <2>4. \A p \in Requests : req'[p].s = u => u # s
    BY <2>1, <2>3
  <2> QED BY <1>2, <2>1, <2>3, <2>4
<1>9. PathEndsHere'
  <2> SUFFICES ASSUME NEW u \in ShipmentIds \ crossed, instance'[u] # NoInstance
               PROVE  /\ instance'[u].version = 1 + Len(history'[u])
                      /\ instance'[u].state = IF history'[u] = <<>> THEN "DRAFT" ELSE history'[u][Len(history'[u])][2]
                      /\ \A k \in 1 .. Len(history'[u]) :
                            history'[u][k][1] = IF k = 1 THEN "DRAFT" ELSE history'[u][k - 1][2]
    BY DEF PathEndsHere
  <2>1. CASE u = s
    BY <1>2, <2>1
  <2>2. CASE u # s
    BY <1>2, <2>2 DEF Inv, Rest, PathEndsHere
  <2> QED BY <2>1, <2>2
<1>10. RowsExplainState'
  BY <1>2 DEF Inv, Rest, RowsExplainState
<1> QED BY <1>4, <1>5, <1>6, <1>7, <1>8, <1>9, <1>10 DEF Inv, Rest

LEMMA CommitCreateInv ==
    ASSUME Inv, NEW r \in Requests, CommitCreate(r)
    PROVE  Inv'
<1> DEFINE s == req[r].s
           row == [state |-> "DRAFT", version |-> 1]
<1>1. /\ req[r].op = "create" /\ machine' \in BOOLEAN /\ crossed' = crossed
      /\ status' = [status EXCEPT ![s] = "DRAFT"] /\ instance' = [instance EXCEPT ![s] = row]
      /\ req' = [req EXCEPT ![r] = Idle] /\ history' = history
  BY DEF CommitCreate
<1>2. s \in ShipmentIds /\ history[s] = <<>>
  BY <1>1 DEF Inv, Rest, SessionsAreSound, RowsAreSound
<1>3. history' = [history EXCEPT ![s] = <<>>]
  BY <1>1, <1>2 DEF Inv, TypeOK
<1>4. \A q \in Requests : q # r /\ req[q].s = s => req[q].op # "create"
  BY <1>1 DEF Inv, Rest, CreatorsAreAlone
<1>5. row \in InstanceRow /\ row.state = "DRAFT" /\ row.version = 1 /\ "DRAFT" \in States
  BY DEF InstanceRow, States
<1> DEFINE h == <<>>
<1>6. h \in Seq(States \X States) /\ h = <<>> /\ Len(h) = 0 /\ 1 .. Len(h) = {}
  OBVIOUS
<1>7. history' = [history EXCEPT ![s] = h] /\ req[r].s = s
  BY <1>3
<1> DEFINE st == "DRAFT"
<1>8. st \in States /\ status' = [status EXCEPT ![s] = st]
  BY <1>1, <1>5
<1>9. h \in Seq(States \X States) /\ (h # <<>> => row.state = h[Len(h)][2])
  BY <1>6
<1>10. \A k \in 1 .. Len(h) : h[k] \in Transitions
  BY <1>6
<1>11. row \in InstanceRow
  BY <1>5
<1>12. /\ row.version = 1 + Len(h)
       /\ row.state = IF h = <<>> THEN "DRAFT" ELSE h[Len(h)][2]
       /\ \A k \in 1 .. Len(h) : h[k][1] = IF k = 1 THEN "DRAFT" ELSE h[k - 1][2]
  BY <1>5, <1>6
<1> HIDE DEF s, row, h, st
<1>13. /\ machine' \in BOOLEAN /\ crossed' = crossed /\ s \in ShipmentIds
       /\ instance' = [instance EXCEPT ![s] = row] /\ req' = [req EXCEPT ![r] = Idle]
  BY <1>1, <1>2
<1> QED BY <1>4, <1>7, <1>8, <1>9, <1>10, <1>11, <1>12, <1>13, CommitStep

LEMMA CommitTransitionInv ==
    ASSUME Inv, NEW r \in Requests, CommitTransition(r)
    PROVE  Inv'
<1> DEFINE s == req[r].s
           st == StatusAfter(req[r])
           row == [state |-> req[r].to, version |-> NextVersion(req[r].row)]
           e == <<req[r].row.state, req[r].to>>
           h == Append(history[s], e)
<1>1. /\ req[r].op \in Moving /\ machine' = machine /\ crossed' = crossed
      /\ status' = [status EXCEPT ![s] = st] /\ instance' = [instance EXCEPT ![s] = row]
      /\ history' = [history EXCEPT ![s] = h] /\ req' = [req EXCEPT ![r] = Idle]
  BY DEF CommitTransition, Moving
<1>2. /\ s \in ShipmentIds /\ status[s] # "NONE" /\ e \in Transitions /\ req[r] \in Session
      /\ history[s] \in Seq(States \X States) /\ machine' \in BOOLEAN
  BY <1>1 DEF Inv, TypeOK, Rest, SessionsAreSound, Moving
<1>3. e \in States \X States /\ req[r].row.state \in States /\ req[r].to \in States
  BY <1>2, ConstantTypes
<1>4. st \in States
  BY <1>2, <1>3 DEF StatusAfter, Inv, TypeOK
<1>5. row \in InstanceRow /\ row.state = req[r].to /\ row.version = req[r].row.version + 1
  BY <1>2, <1>3 DEF NextVersion, Session, InstanceRow
<1>6. /\ h \in Seq(States \X States) /\ h # <<>>
      /\ Len(history[s]) \in Nat /\ Len(h) = Len(history[s]) + 1
      /\ \A k \in 1 .. Len(history[s]) : h[k] = history[s][k]
      /\ h[Len(history[s]) + 1] = e
  <2> HIDE DEF e
  <2> QED BY <1>2, <1>3, AppendFacts
<1>7. e[1] = req[r].row.state /\ e[2] = req[r].to
  OBVIOUS
<1>8. \A q \in Requests : q # r /\ req[q].s = s => req[q].op # "create"
  BY DEF Inv, Rest, CreatorsAreAlone
<1>9. \A k \in 1 .. Len(history[s]) : history[s][k] \in Transitions
  BY <1>2 DEF Inv, Rest, RowsExplainState
<1>10. ASSUME s \notin crossed
       PROVE  /\ row.version = 1 + Len(h)
              /\ row.state = IF h = <<>> THEN "DRAFT" ELSE h[Len(h)][2]
              /\ \A k \in 1 .. Len(h) : h[k][1] = IF k = 1 THEN "DRAFT" ELSE h[k - 1][2]
  <2>1. req[r].row = instance[s]
    BY <1>1, <1>2, <1>10 DEF Inv, Rest, CopiesAreFresh
  <2>2. instance[s] # NoInstance
    <3>1. NoInstance.state \notin States
      BY DEF NoInstance, States
    <3> QED BY <1>3, <2>1, <3>1
  <2>3. /\ instance[s].version = 1 + Len(history[s])
        /\ instance[s].state = IF history[s] = <<>> THEN "DRAFT" ELSE history[s][Len(history[s])][2]
        /\ \A k \in 1 .. Len(history[s]) :
              history[s][k][1] = IF k = 1 THEN "DRAFT" ELSE history[s][k - 1][2]
    BY <1>2, <1>10, <2>2 DEF Inv, Rest, PathEndsHere
  <2>4. history[s] = <<>> <=> Len(history[s]) = 0
    BY <1>2
  <2> HIDE DEF s, row, e, h
  <2>5. row.version = 1 + Len(h)
    BY <1>5, <1>6, <2>1, <2>3
  <2>6. row.state = IF h = <<>> THEN "DRAFT" ELSE h[Len(h)][2]
    BY <1>5, <1>6, <1>7
  <2>7. ASSUME NEW k \in 1 .. Len(h) PROVE h[k][1] = IF k = 1 THEN "DRAFT" ELSE h[k - 1][2]
    <3>1. CASE k \in 1 .. Len(history[s])
      <4>1. k # 1 => k - 1 \in 1 .. Len(history[s])
        BY <1>6, <3>1
      <4> QED BY <1>6, <2>3, <3>1, <4>1
    <3>2. CASE k = Len(history[s]) + 1
      <4>1. h[k][1] = instance[s].state
        BY <1>6, <1>7, <2>1, <3>2
      <4>2. k # 1 => k - 1 = Len(history[s]) /\ k - 1 \in 1 .. Len(history[s])
        BY <1>6, <3>2
      <4>3. k = 1 <=> history[s] = <<>>
        BY <1>6, <2>4, <3>2
      <4> QED BY <1>6, <2>3, <4>1, <4>2, <4>3
    <3> QED BY <1>6, <3>1, <3>2
  <2> QED BY <2>5, <2>6, <2>7
<1> HIDE DEF s, st, row, e, h
<1>11. \A k \in 1 .. Len(h) : h[k] \in Transitions
  BY <1>2, <1>6, <1>9
<1>12. row.state = h[Len(h)][2]
  BY <1>5, <1>6, <1>7
<1> QED BY <1>1, <1>2, <1>4, <1>5, <1>6, <1>8, <1>10, <1>11, <1>12, CommitStep DEF s

LEMMA NextInv == Inv /\ [Next]_vars => Inv'
<1> SUFFICES ASSUME Inv, [Next]_vars PROVE Inv'
  OBVIOUS
<1>1. CASE UNCHANGED vars
  <2>1. UNCHANGED <<status, instance, history, machine, req, crossed>>
    BY <1>1 DEF vars
  <2>2. TypeOK' /\ SessionsAreSound' /\ CreatorsAreAlone'
    BY <2>1 DEF Inv, Rest, TypeOK, SessionsAreSound, CreatorsAreAlone
  <2>3. RowsAreSound' /\ CopiesAreFresh' /\ PathEndsHere' /\ RowsExplainState'
    BY <2>1 DEF Inv, Rest, RowsAreSound, CopiesAreFresh, PathEndsHere, RowsExplainState
  <2> QED BY <2>2, <2>3 DEF Inv, Rest
<1>2. CASE Next
  <2>1. PICK r \in Requests :
          \/ \E s \in ShipmentIds :
               \/ \E user \in Users : StartCreate(r, s, user)
               \/ BookFromQuotation(r, s)
               \/ LoadShipment(r, s)
               \/ \E to \in States, user \in Users : LoadInstanceAlone(r, s, to, user)
          \/ \E to \in States, user \in Users : LoadInstance(r, to, user)
          \/ CommitCreate(r) \/ CommitTransition(r) \/ Rollback(r)
    BY <1>2 DEF Next
  <2>2. ASSUME NEW s \in ShipmentIds, NEW user \in Users, StartCreate(r, s, user) PROVE Inv'
    BY <2>2, StartCreateInv
  <2>3. ASSUME NEW s \in ShipmentIds, BookFromQuotation(r, s) PROVE Inv'
    BY <2>3, BookFromQuotationInv
  <2>4. ASSUME NEW s \in ShipmentIds, LoadShipment(r, s) PROVE Inv'
    BY <2>4, LoadShipmentInv
  <2>5. ASSUME NEW s \in ShipmentIds, NEW to \in States, NEW user \in Users, LoadInstanceAlone(r, s, to, user)
        PROVE  Inv'
    BY <2>5, LoadInstanceAloneInv
  <2>6. ASSUME NEW to \in States, NEW user \in Users, LoadInstance(r, to, user) PROVE Inv'
    BY <2>6, LoadInstanceInv
  <2>7. CASE CommitCreate(r)
    BY <2>7, CommitCreateInv
  <2>8. CASE CommitTransition(r)
    BY <2>8, CommitTransitionInv
  <2>9. CASE Rollback(r)
    BY <2>9, RollbackInv
  <2> QED BY <2>1, <2>2, <2>3, <2>4, <2>5, <2>6, <2>7, <2>8, <2>9
<1> QED BY <1>1, <1>2

-----------------------------------------------------------------------------
(* The theorems                                                            *)

\* Shipments, instances, history rows and sessions keep their types.
THEOREM ShipmentsTypeCorrect == Spec => []TypeOK
<1>1. Inv => TypeOK
  BY DEF Inv
<1> QED BY <1>1, InitInv, NextInv, PTL DEF Spec

\* However the two transition endpoints interleave, every history row is a
\* transition of the machine and the last one explains the instance's state.
THEOREM HistoryStaysExplained == Spec => []HistoryExplainsState
<1>1. Inv => HistoryExplainsState
  <2> SUFFICES ASSUME Inv, NEW s \in ShipmentIds
               PROVE  /\ \A k \in DOMAIN history[s] : history[s][k] \in Transitions
                      /\ history[s] # <<>> => instance[s].state = Last(history[s])[2]
    BY DEF HistoryExplainsState
  <2>1. history[s] \in Seq(States \X States)
    BY DEF Inv, TypeOK
  <2>2. DOMAIN history[s] = 1 .. Len(history[s])
    BY <2>1
  <2> QED BY <2>2 DEF Inv, Rest, RowsExplainState, Last
<1> QED BY <1>1, InitInv, NextInv, PTL DEF Spec

\* The history of a shipment whose requests never met is a path from DRAFT, and
\* the version of its instance counts the steps.
THEOREM HistoryStaysAPath == Spec => []HistoryIsPath
<1>1. Inv => HistoryIsPath
  <2> SUFFICES ASSUME Inv, NEW s \in ShipmentIds \ crossed, instance[s] # NoInstance
               PROVE  /\ instance[s].version = 1 + Len(history[s])
                      /\ \A k \in DOMAIN history[s] :
                            history[s][k][1] = IF k = 1 THEN "DRAFT" ELSE history[s][k - 1][2]
    BY DEF HistoryIsPath
  <2>1. history[s] \in Seq(States \X States)
    BY DEF Inv, TypeOK
  <2>2. DOMAIN history[s] = 1 .. Len(history[s])
    BY <2>1
  <2> QED BY <2>2 DEF Inv, Rest, PathEndsHere
<1> QED BY <1>1, InitInv, NextInv, PTL DEF Spec

\* A transition through the shipment endpoint, alone on its shipment, leaves the
\* status and the instance in one state: what it read of both is still there.
THEOREM TransitionsSyncStatus == Spec => TransitionSyncsStatus
<1> DEFINE Synced ==
        \A r \in Requests : \A s \in ShipmentIds \ crossed :
            req[r].op = "shipment" /\ req[r].s = s /\ history'[s] # history[s] =>
                status'[s] = instance'[s].state
<1>1. Inv /\ [Next]_vars => [Synced]_vars
  <2> SUFFICES ASSUME Inv, Next, NEW r \in Requests, NEW s \in ShipmentIds \ crossed,
                      req[r].op = "shipment", req[r].s = s, history'[s] # history[s]
               PROVE  status'[s] = instance'[s].state
    OBVIOUS
  <2>1. PICK q \in Requests : CommitTransition(q)
    BY DEF Next, StartCreate, BookFromQuotation, LoadShipment, LoadInstanceAlone, LoadInstance,
           Checked, CommitCreate, Rollback, db
  <2>2. req[q].s = s
    <3>1. history' = [history EXCEPT ![req[q].s] = Append(@, <<req[q].row.state, req[q].to>>)]
      BY <2>1 DEF CommitTransition
    <3> QED BY <3>1 DEF Inv, TypeOK
  <2>3. q = r
    BY <2>2 DEF Inv, Rest, CopiesAreFresh
  <2>4. req[r].seen = status[s]
    BY DEF Inv, Rest, CopiesAreFresh, Reading
  <2>5. /\ status' = [status EXCEPT ![s] = StatusAfter(req[r])]
        /\ instance' = [instance EXCEPT ![s] = [state |-> req[r].to, version |-> NextVersion(req[r].row)]]
    BY <2>1, <2>3 DEF CommitTransition
  <2>6. StatusAfter(req[r]) = req[r].to
    BY <2>4 DEF StatusAfter
  <2> QED BY <2>5, <2>6 DEF Inv, TypeOK
<1> QED BY <1>1, InitInv, NextInv, PTL DEF Spec, TransitionSyncsStatus

-----------------------------------------------------------------------------
(* Estimates: numbers                                                       *)

\* A set of naturals that is not empty and has a bound has a greatest element.
LEMMA HasGreatest ==
    ASSUME NEW S \in SUBSET Nat, S # {}, NEW b \in Nat, \A x \in S : x <= b
    PROVE  \E m \in S : \A x \in S : x <= m
<1> DEFINE R == OpToRel(<, Nat)
           T == {b - x : x \in S}
<1>1. T \subseteq Nat /\ T # {}
  <2>1. ASSUME NEW x \in S PROVE b - x \in Nat
    OBVIOUS
  <2>2. T \subseteq Nat
    BY <2>1
  <2>3. T # {}
    OBVIOUS
  <2> QED BY <2>2, <2>3
<1>2. IsWellFoundedOn(R, Nat)
  BY NatLessThanWellFounded
<1> HIDE DEF R
<1>3. PICK y \in T : \A z \in T : ~(<<z, y>> \in R)
  <2> HIDE DEF T
  <2> QED BY <1>1, <1>2, WFMin
<1>4. \A z \in T : ~(z < y)
  BY <1>1, <1>3 DEF R, OpToRel
<1>5. PICK m \in S : y = b - m
  OBVIOUS
<1>6. ASSUME NEW x \in S PROVE x <= m
  <2>1. b - x \in T
    OBVIOUS
  <2> HIDE DEF T
  <2>2. ~(b - x < b - m)
    BY <1>4, <1>5, <2>1
  <2> QED BY <2>2
<1> QED BY <1>6

\* Rows of eta_history, numbered from 1 to the bound.
GoodRows(rows) == \A h \in rows : h \in Row /\ h.version >= 1 /\ h.version <= MaxVersion

\* Every number below that of a row is in use, for the same leg and type.
Dense(rows) ==
    \A h \in rows : \A m \in 1 .. h.version :
        \E g \in rows : g.leg = h.leg /\ g.type = h.type /\ g.version = m

\* The number of the latest version is that of a row, and none is higher.
LEMMA LatestFacts ==
    ASSUME NEW rows, GoodRows(rows), NEW l, NEW t
    PROVE  /\ Latest(rows, l, t) \in Nat /\ Latest(rows, l, t) <= MaxVersion
           /\ \A h \in rows : h.leg = l /\ h.type = t => h.version <= Latest(rows, l, t)
           /\ Latest(rows, l, t) > 0 =>
                \E h \in rows : h.leg = l /\ h.type = t /\ h.version = Latest(rows, l, t)
<1> DEFINE V == Versions(rows, l, t)
           n == Latest(rows, l, t)
<1>1. \A v \in V : \E h \in rows : h.leg = l /\ h.type = t /\ h.version = v
  BY DEF Versions
<1>2. \A h \in rows : h.leg = l /\ h.type = t => h.version \in V
  BY DEF Versions
<1>3. \A h \in rows : h.version \in Nat /\ h.version <= MaxVersion
  BY DEF GoodRows, Row
<1>4. V \in SUBSET Nat /\ \A v \in V : v <= MaxVersion
  BY <1>1, <1>3
<1>5. CASE V = {}
  <2>1. n = 0
    BY <1>5 DEF Latest
  <2>2. \A h \in rows : ~(h.leg = l /\ h.type = t)
    BY <1>2, <1>5
  <2> QED BY <2>1, <2>2, EtaAssumption
<1>6. CASE V # {}
  <2> HIDE DEF V
  <2>1. \E m \in V : \A v \in V : v <= m
    BY <1>4, <1>6, HasGreatest, EtaAssumption
  <2>2. n = CHOOSE m \in V : \A v \in V : v <= m
    BY <1>6 DEF Latest, V
  <2>3. n \in V /\ \A v \in V : v <= n
    BY <2>1, <2>2
  <2> HIDE DEF n
  <2>4. /\ n \in Nat /\ n <= MaxVersion
        /\ \A h \in rows : h.leg = l /\ h.type = t => h.version <= n
        /\ \E h \in rows : h.leg = l /\ h.type = t /\ h.version = n
    BY <1>1, <1>2, <1>4, <2>3
  <2> QED BY <2>4 DEF n
<1> QED BY <1>5, <1>6

\* The rows of two requests, both without a gap, have none together.
LEMMA UnionIsDense ==
    ASSUME NEW S, NEW T, Dense(S), Dense(T) PROVE Dense(S \cup T)
  BY DEF Dense

\* The next number leaves no gap.
LEMMA NextIsDense ==
    ASSUME NEW S, GoodRows(S), Dense(S), NEW x \in Row,
           x.version = Latest(S, x.leg, x.type) + 1, x.version <= MaxVersion
    PROVE  GoodRows(S \cup {x}) /\ Dense(S \cup {x})
<1> DEFINE n == Latest(S, x.leg, x.type)
<1>1. /\ n \in Nat
      /\ n > 0 => \E h \in S : h.leg = x.leg /\ h.type = x.type /\ h.version = n
  BY LatestFacts
<1>2. x.version = n + 1
  OBVIOUS
<1> HIDE DEF n
<1>3. GoodRows(S \cup {x})
  BY <1>1, <1>2 DEF GoodRows
<1>4. ASSUME NEW m \in 1 .. x.version
      PROVE  \E g \in S \cup {x} : g.leg = x.leg /\ g.type = x.type /\ g.version = m
  <2>1. CASE m = n + 1
    BY <1>2, <2>1
  <2>2. CASE m # n + 1
    <3>1. n > 0 /\ m \in 1 .. n
      BY <1>1, <1>2, <2>2
    <3>2. PICK h \in S : h.leg = x.leg /\ h.type = x.type /\ h.version = n
      BY <1>1, <3>1
    <3>3. PICK g \in S : g.leg = h.leg /\ g.type = h.type /\ g.version = m
      BY <3>1, <3>2 DEF Dense
    <3> QED BY <3>2, <3>3
  <2> QED BY <2>1, <2>2
<1>5. Dense(S \cup {x})
  <2> SUFFICES ASSUME NEW h \in S \cup {x}, NEW m \in 1 .. h.version
               PROVE  \E g \in S \cup {x} : g.leg = h.leg /\ g.type = h.type /\ g.version = m
    BY DEF Dense
  <2>1. CASE h = x
    BY <1>4, <2>1
  <2>2. CASE h \in S
    BY <2>2 DEF Dense
  <2> QED BY <2>1, <2>2
<1> QED BY <1>3, <1>5

\* The rows of a request after one more.
LEMMA RowFacts ==
    ASSUME NEW rows \in Seq(Row), NEW x \in Row
    PROVE  /\ Append(rows, x) \in Seq(Row) /\ Append(rows, x) # <<>>
           /\ Append(rows, x)[Len(Append(rows, x))] = x
           /\ RowsOf(Append(rows, x)) = RowsOf(rows) \cup {x}
           /\ <<x>> \in Seq(Row) /\ <<x>> # <<>> /\ <<x>>[Len(<<x>>)] = x /\ RowsOf(<<x>>) = {x}
           /\ RowsOf(<< >>) = {}
           /\ RowsOf(rows) \subseteq Row
           /\ rows # <<>> => rows[Len(rows)] \in RowsOf(rows)
<1>1. /\ Append(rows, x) \in Seq(Row) /\ Append(rows, x) # <<>> /\ Len(Append(rows, x)) = Len(rows) + 1
      /\ Append(rows, x)[Len(rows) + 1] = x
      /\ \A i \in 1 .. Len(rows) : Append(rows, x)[i] = rows[i]
      /\ DOMAIN Append(rows, x) = 1 .. (Len(rows) + 1) /\ DOMAIN rows = 1 .. Len(rows) /\ Len(rows) \in Nat
  OBVIOUS
<1>2. RowsOf(Append(rows, x)) = RowsOf(rows) \cup {x}
  <2>1. ASSUME NEW y \in RowsOf(Append(rows, x)) PROVE y \in RowsOf(rows) \cup {x}
    <3>1. PICK i \in 1 .. (Len(rows) + 1) : y = Append(rows, x)[i]
      BY <1>1, <2>1 DEF RowsOf
    <3> QED BY <1>1, <3>1 DEF RowsOf
  <2>2. ASSUME NEW y \in RowsOf(rows) PROVE y \in RowsOf(Append(rows, x))
    <3>1. PICK i \in 1 .. Len(rows) : y = rows[i]
      BY <1>1, <2>2 DEF RowsOf
    <3>2. i \in 1 .. (Len(rows) + 1) /\ y = Append(rows, x)[i]
      BY <1>1, <3>1
    <3> QED BY <1>1, <3>2 DEF RowsOf
  <2>3. x \in RowsOf(Append(rows, x))
    <3>1. Len(rows) + 1 \in 1 .. (Len(rows) + 1)
      BY <1>1
    <3> QED BY <1>1, <3>1 DEF RowsOf
  <2> QED BY <2>1, <2>2, <2>3
<1>3. <<x>> \in Seq(Row) /\ <<x>> # <<>> /\ <<x>>[Len(<<x>>)] = x
  OBVIOUS
<1>4. RowsOf(<<x>>) = {x}
  BY DEF RowsOf
<1>5. RowsOf(<< >>) = {}
  BY DEF RowsOf
<1>6. RowsOf(rows) \subseteq Row
  BY <1>1 DEF RowsOf
<1>7. rows # <<>> => rows[Len(rows)] \in RowsOf(rows)
  <2>1. rows # <<>> => Len(rows) \in 1 .. Len(rows)
    OBVIOUS
  <2> QED BY <1>1, <2>1 DEF RowsOf
<1> QED BY <1>1, <1>2, <1>3, <1>4, <1>5, <1>6, <1>7

-----------------------------------------------------------------------------
(* Estimates: what every session keeps to, however requests interleave      *)

\* What a slip past the limit is, and that all of them among the rows are told.
IsSlip(S, a, b) ==
    /\ a \in S /\ b \in S /\ a.type = "ETA" /\ b.type = "ETA" /\ a.leg = b.leg
    /\ a.version = 1 /\ Only(Etas(S, a.leg), 1)
    /\ (\A g \in Etas(S, b.leg) : g.version <= b.version) /\ Only(Etas(S, b.leg), b.version)
    /\ b.value - a.value > SlipLimit
AllTold(S, told) ==
    \A a, b \in S : IsSlip(S, a, b) => [leg |-> a.leg, plan |-> a.value, eta |-> b.value] \in told

\* A session's rows extend the history without a gap; it goes through the legs in
\* an order of created_at, and holds none created later than that of its last row;
\* and once it has evaluated, its alerts are complete.
UpdateIsSound(s, h, told) ==
    /\ GoodRows(h \cup RowsOf(s.rows)) /\ Dense(h \cup RowsOf(s.rows))
    /\ s.pc \in {"idle", "loaded"} <=> s.rows = <<>>
    /\ s.pc \in {"idle", "loaded", "numbered"} => s.holds = {}
    /\ s.pc \in {"cascading", "evaluated"} /\ s.first.type = "ETA" => s.place \in ByCreatedAt
    /\ s.pc = "cascading" => \A l \in s.holds : CreatedAt[l] <= CreatedAt[LastRow(s).leg]
    /\ s.pc = "evaluated" => AllTold(h \cup RowsOf(s.rows), told \cup s.alerts)

EtaInv ==
    /\ EtaTypeOK
    /\ GoodRows(hist) /\ Dense(hist) /\ AllTold(hist, notified)
    /\ \A r \in Updaters : UpdateIsSound(update[r], hist, notified)
    /\ \A q, r \in Updaters : q # r => update[q].holds \cap update[r].holds = {}

LEMMA NoUpdateFacts ==
    /\ NoUpdate \in EtaSession /\ NoUpdate.pc = "idle" /\ NoUpdate.rows = <<>> /\ NoUpdate.holds = {}
    /\ 1 \in Legs
<1>1. 1 \in Legs
  BY EtaAssumption DEF Legs
<1>2. NoUpdate.copy \in Estimates
  BY DEF NoUpdate, Estimates
<1>6. NoUpdate.place \in [Legs -> Legs]
  BY DEF NoUpdate
<1>3. NoItem \in Item
  BY <1>1 DEF NoItem, Item, Types
<1>4. <<>> \in Seq(Row)
  OBVIOUS
<1>5. NoUpdate \in EtaSession
  BY <1>2, <1>3, <1>4, <1>6 DEF NoUpdate, EtaSession
<1> QED BY <1>1, <1>5 DEF NoUpdate

LEMMA TimesAreNumbers == \A l \in Legs : CreatedAt[l] \in Nat
  BY EtaAssumption DEF Legs

\* The rows of a session are of the right type.
LEMMA SessionTypes ==
    ASSUME NEW s \in EtaSession
    PROVE  /\ s.place \in [Legs -> Legs]
           /\ s.rows \in Seq(Row) /\ s.copy \in Estimates /\ s.first \in Item /\ s.firm \in BOOLEAN
           /\ s.holds \subseteq Legs /\ s.alerts \subseteq Slip
           /\ s.pc \in {"idle", "loaded", "numbered", "cascading", "evaluated"}
           /\ s.first.leg \in Legs /\ s.first.type \in Types /\ s.first.value \in Nat
           /\ RowsOf(s.rows) \subseteq Row
           /\ s.rows # <<>> => LastRow(s) \in RowsOf(s.rows) /\ LastRow(s) \in Row
<1>1. /\ s.place \in [Legs -> Legs]
      /\ s.rows \in Seq(Row) /\ s.copy \in Estimates /\ s.first \in Item /\ s.firm \in BOOLEAN
      /\ s.holds \subseteq Legs /\ s.alerts \subseteq Slip
      /\ s.pc \in {"idle", "loaded", "numbered", "cascading", "evaluated"}
  BY DEF EtaSession
<1>2. s.first.leg \in Legs /\ s.first.type \in Types /\ s.first.value \in Nat
  BY <1>1 DEF Item
<1>3. [leg |-> 1, type |-> "ETA", version |-> 0, value |-> 0] \in Row
  BY NoUpdateFacts DEF Row, Types
<1>4. RowsOf(s.rows) \subseteq Row /\ (s.rows # <<>> => s.rows[Len(s.rows)] \in RowsOf(s.rows))
  BY <1>1, <1>3, RowFacts
<1> QED BY <1>1, <1>2, <1>4 DEF LastRow

\* A session without rows adds nothing to the history.
LEMMA EmptyIsSound ==
    ASSUME NEW s \in EtaSession, s.pc \in {"idle", "loaded"}, s.rows = <<>>, s.holds = {},
           NEW h, GoodRows(h), Dense(h), NEW told
    PROVE  UpdateIsSound(s, h, told)
<1>1. RowsOf(s.rows) = {}
  BY DEF RowsOf
<1>2. h \cup RowsOf(s.rows) = h
  BY <1>1
<1> QED BY <1>2 DEF UpdateIsSound

LEMMA EtaInitInv == EtaInit => EtaInv
<1> SUFFICES ASSUME EtaInit PROVE EtaInv
  OBVIOUS
<1>1. EtaTypeOK
  BY NoUpdateFacts, EtaAssumption DEF EtaInit, EtaTypeOK
<1>2. GoodRows(hist) /\ Dense(hist) /\ AllTold(hist, notified)
  BY DEF EtaInit, GoodRows, Dense, AllTold
<1>3. \A r \in Updaters : update[r] = NoUpdate
  BY DEF EtaInit
<1>4. UpdateIsSound(NoUpdate, hist, notified)
  BY <1>2, NoUpdateFacts, EmptyIsSound
<1> QED BY <1>1, <1>2, <1>3, <1>4, NoUpdateFacts DEF EtaInv

\* A request that loads, goes on or gives up: only its session changes.
LEMMA EtaSessionStep ==
    ASSUME EtaInv, NEW r \in Updaters, NEW s \in EtaSession, update' = [update EXCEPT ![r] = s],
           UNCHANGED <<legs, hist, notified>>, overlapped' \in BOOLEAN,
           UpdateIsSound(s, hist, notified),
           \A q \in Updaters \ {r} : update[q].holds \cap s.holds = {}
    PROVE  EtaInv'
<1>1. \A q \in Updaters : update'[q] = IF q = r THEN s ELSE update[q]
  BY DEF EtaInv, EtaTypeOK
<1>2. legs' = legs /\ hist' = hist /\ notified' = notified
  OBVIOUS
<1>3. EtaTypeOK'
  BY <1>2 DEF EtaInv, EtaTypeOK
<1>4. GoodRows(hist') /\ Dense(hist') /\ AllTold(hist', notified')
  BY <1>2 DEF EtaInv
<1>5. \A q \in Updaters : UpdateIsSound(update'[q], hist', notified')
  BY <1>1, <1>2 DEF EtaInv
<1>6. \A p, q \in Updaters : p # q => update'[p].holds \cap update'[q].holds = {}
  <2> SUFFICES ASSUME NEW p \in Updaters, NEW q \in Updaters, p # q
               PROVE  update'[p].holds \cap update'[q].holds = {}
    OBVIOUS
  <2>1. \A x, y \in Updaters : x # y => update[x].holds \cap update[y].holds = {}
    BY DEF EtaInv
  <2>2. CASE p = r
    BY <1>1, <2>2
  <2>3. CASE q = r
    BY <1>1, <2>3
  <2>4. CASE p # r /\ q # r
    BY <1>1, <2>1, <2>4
  <2> QED BY <2>2, <2>3, <2>4
<1> QED BY <1>3, <1>4, <1>5, <1>6 DEF EtaInv

LEMMA DropInv == ASSUME EtaInv, NEW r \in Updaters, DropUpdate(r) PROVE EtaInv'
<1>1. UpdateIsSound(NoUpdate, hist, notified)
  BY NoUpdateFacts, EmptyIsSound DEF EtaInv
<1>2. update' = [update EXCEPT ![r] = NoUpdate] /\ UNCHANGED <<legs, hist, notified>> /\ overlapped' \in BOOLEAN
  BY DEF DropUpdate, EtaInv, EtaTypeOK
<1> QED BY <1>1, <1>2, NoUpdateFacts, EtaSessionStep

\* The session after the leg is loaded.
LoadedSession(x, firm) == [NoUpdate EXCEPT !.pc = "loaded", !.first = x, !.firm = firm, !.copy[x.leg] = legs[x.leg]]

LEMMA LoadedFacts ==
    ASSUME EtaTypeOK, NEW x \in Item, NEW firm \in BOOLEAN
    PROVE  /\ LoadedSession(x, firm) \in EtaSession
           /\ LoadedSession(x, firm).pc = "loaded" /\ LoadedSession(x, firm).first = x
           /\ LoadedSession(x, firm).rows = <<>> /\ LoadedSession(x, firm).holds = {}
           /\ LoadedSession(x, firm).copy[x.leg] = legs[x.leg]
<1> DEFINE s == LoadedSession(x, firm)
<1>1. x.leg \in Legs
  BY DEF Item
<1>2. /\ s.pc = "loaded" /\ s.first = x /\ s.firm = firm /\ s.rows = <<>> /\ s.holds = {} /\ s.alerts = {}
      /\ s.copy = [NoUpdate.copy EXCEPT ![x.leg] = legs[x.leg]]
  BY DEF LoadedSession, NoUpdate
<1>3. NoUpdate.copy \in Estimates /\ legs \in Estimates
  BY NoUpdateFacts, SessionTypes DEF EtaTypeOK
<1>4. s.copy \in Estimates /\ s.copy[x.leg] = legs[x.leg]
  <2> HIDE DEF s
  <2> QED BY <1>1, <1>2, <1>3 DEF Estimates
<1>5. s = [NoUpdate EXCEPT !.pc = "loaded", !.first = x, !.firm = firm, !.copy = s.copy]
  BY DEF LoadedSession, NoUpdate
<1>7. s \in EtaSession
  <2> HIDE DEF s
  <2> QED BY <1>4, <1>5, NoUpdateFacts DEF EtaSession
<1> QED BY <1>2, <1>4, <1>7

LEMMA LoadLegInv ==
    ASSUME EtaInv, NEW r \in Updaters, NEW x \in Item, NEW firm \in BOOLEAN, LoadLeg(r, x, firm) PROVE EtaInv'
<1> DEFINE s == LoadedSession(x, firm)
<1>1. s \in EtaSession /\ s.pc = "loaded" /\ s.rows = <<>> /\ s.holds = {}
  BY LoadedFacts DEF EtaInv
<1>2. update' = [update EXCEPT ![r] = s] /\ UNCHANGED <<legs, hist, notified>> /\ overlapped' \in BOOLEAN
  BY DEF LoadLeg, EtaInv, EtaTypeOK, LoadedSession
<1> HIDE DEF s
<1>3. UpdateIsSound(s, hist, notified)
  BY <1>1, EmptyIsSound DEF EtaInv
<1> QED BY <1>1, <1>2, <1>3, EtaSessionStep

\* A session that goes on with its request.
GoesOn(s, pc, copy, place, rows, holds, alerts) ==
    [s EXCEPT !.pc = pc, !.copy = copy, !.place = place, !.rows = rows, !.holds = holds, !.alerts = alerts]

LEMMA GoesOnFacts ==
    ASSUME NEW s \in EtaSession, NEW pc \in {"numbered", "cascading", "evaluated"}, NEW copy \in Estimates,
           NEW place \in [Legs -> Legs],
           NEW rows \in Seq(Row), NEW holds \in SUBSET Legs, NEW alerts \in SUBSET Slip
    PROVE  LET n == GoesOn(s, pc, copy, place, rows, holds, alerts)
           IN  /\ n \in EtaSession /\ n.pc = pc /\ n.first = s.first /\ n.firm = s.firm /\ n.copy = copy
               /\ n.place = place /\ n.rows = rows /\ n.holds = holds /\ n.alerts = alerts
  BY DEF GoesOn, EtaSession

\* A row numbered next extends the rows the session sees.
LEMMA NumberedFacts ==
    ASSUME NEW s \in EtaSession, NEW told, UpdateIsSound(s, hist, told), NEW x \in Item,
           NextEtaVersion(s, x) <= MaxVersion
    PROVE  /\ Numbered(s, x) \in Row
           /\ Numbered(s, x).leg = x.leg /\ Numbered(s, x).type = x.type /\ Numbered(s, x).value = x.value
           /\ Numbered(s, x).version = NextEtaVersion(s, x)
           /\ GoodRows(hist \cup (RowsOf(s.rows) \cup {Numbered(s, x)}))
           /\ Dense(hist \cup (RowsOf(s.rows) \cup {Numbered(s, x)}))
<1> DEFINE S == hist \cup RowsOf(s.rows)
           n == Latest(S, x.leg, x.type)
           y == Numbered(s, x)
<1>1. GoodRows(S) /\ Dense(S)
  BY DEF UpdateIsSound
<1>2. n \in Nat
  <2> HIDE DEF S
  <2> QED BY <1>1, LatestFacts
<1>3. y.leg = x.leg /\ y.type = x.type /\ y.value = x.value /\ y.version = n + 1 /\ n + 1 <= MaxVersion
  BY DEF Numbered, NextEtaVersion
<1>4. y \in Row
  BY <1>2 DEF Numbered, NextEtaVersion, Row, Item
<1>5. GoodRows(S \cup {y}) /\ Dense(S \cup {y})
  <2>1. y.version = Latest(S, y.leg, y.type) + 1 /\ y.version <= MaxVersion
    BY <1>3
  <2> HIDE DEF S, y, n
  <2> QED BY <1>1, <1>4, <2>1, NextIsDense
<1>6. S \cup {y} = hist \cup (RowsOf(s.rows) \cup {y})
  OBVIOUS
<1>7. y.version = NextEtaVersion(s, x)
  BY DEF Numbered
<1> HIDE DEF S, y, n
<1>8. GoodRows(hist \cup (RowsOf(s.rows) \cup {y})) /\ Dense(hist \cup (RowsOf(s.rows) \cup {y}))
  BY <1>5, <1>6
<1> QED BY <1>3, <1>4, <1>7, <1>8 DEF y

\* A flush takes the row of a leg only when nobody else has it.
LEMMA HeldFacts ==
    ASSUME EtaInv, NEW r \in Updaters, update[r].rows # <<>>, MayFlush(r)
    PROVE  /\ Held(update[r]) \subseteq Legs
           /\ \A l \in Held(update[r]) : l \in update[r].holds \/ l = LastRow(update[r]).leg
           /\ \A q \in Updaters \ {r} : update[q].holds \cap Held(update[r]) = {}
<1> DEFINE s == update[r]
<1>1. s \in EtaSession
  BY DEF EtaInv, EtaTypeOK
<1>2. s.holds \subseteq Legs /\ LastRow(s) \in Row
  BY <1>1, SessionTypes
<1>3. LastRow(s).leg \in Legs
  BY <1>2 DEF Row
<1>4. \A q \in Updaters \ {r} : update[q].holds \cap s.holds = {}
  BY DEF EtaInv
<1>5. CASE Changes(s, LastRow(s))
  <2>1. Held(s) = s.holds \cup {LastRow(s).leg}
    BY <1>5 DEF Held
  <2>2. \A q \in Updaters \ {r} : LastRow(s).leg \notin update[q].holds
    BY <1>5 DEF MayFlush, IsFree
  <2> HIDE DEF s
  <2>3. Held(s) \subseteq Legs
    BY <1>2, <1>3, <2>1
  <2>4. \A q \in Updaters \ {r} : update[q].holds \cap Held(s) = {}
    BY <1>4, <2>1, <2>2
  <2>5. \A l \in Held(s) : l \in s.holds \/ l = LastRow(s).leg
    BY <2>1
  <2> QED BY <2>3, <2>4, <2>5 DEF s
<1>6. CASE ~Changes(s, LastRow(s))
  <2>1. Held(s) = s.holds
    BY <1>6 DEF Held
  <2> HIDE DEF s
  <2> QED BY <1>2, <1>4, <2>1 DEF s
<1> QED BY <1>5, <1>6

LEMMA NumberFirstInv == ASSUME EtaInv, NEW r \in Updaters, NumberFirst(r) PROVE EtaInv'
<1> DEFINE s == update[r]
           y == Numbered(s, s.first)
           n == GoesOn(s, "numbered", s.copy, s.place, <<y>>, s.holds, s.alerts)
<1>1. s \in EtaSession /\ UpdateIsSound(s, hist, notified)
  BY DEF EtaInv, EtaTypeOK
<1>2. s.pc = "loaded" /\ NextEtaVersion(s, s.first) <= MaxVersion
  BY DEF NumberFirst
<1>3. s.rows = <<>> /\ s.holds = {}
  BY <1>1, <1>2 DEF UpdateIsSound
<1>4. s.first \in Item /\ s.copy \in Estimates /\ s.place \in [Legs -> Legs] /\ s.alerts \in SUBSET Slip /\ s.rows \in Seq(Row)
  BY <1>1, SessionTypes
<1>5. /\ y \in Row /\ GoodRows(hist \cup (RowsOf(s.rows) \cup {y})) /\ Dense(hist \cup (RowsOf(s.rows) \cup {y}))
  <2> HIDE DEF s
  <2> QED BY <1>1, <1>2, <1>4, NumberedFacts
<1>6. update' = [update EXCEPT ![r] = n] /\ UNCHANGED <<legs, hist, notified>> /\ overlapped' \in BOOLEAN
  BY <1>1 DEF NumberFirst, EtaInv, EtaTypeOK, GoesOn, EtaSession
<1> HIDE DEF y
<1>7. RowsOf(s.rows) = {} /\ RowsOf(<<y>>) = {y} /\ <<y>> \in Seq(Row) /\ <<y>> # <<>>
  BY <1>3, <1>4, <1>5, RowFacts
<1>8. n \in EtaSession /\ n.pc = "numbered" /\ n.rows = <<y>> /\ n.holds = {}
  <2> HIDE DEF s
  <2> DEFINE rows == <<y>>
  <2>1. rows \in Seq(Row) /\ s.holds \in SUBSET Legs /\ s.holds = {}
    BY <1>3, <1>7
  <2>2. n = GoesOn(s, "numbered", s.copy, s.place, rows, s.holds, s.alerts)
    OBVIOUS
  <2> HIDE DEF rows, n
  <2>3. n \in EtaSession /\ n.pc = "numbered" /\ n.rows = rows /\ n.holds = {}
    BY <1>1, <1>4, <2>1, <2>2, GoesOnFacts
  <2> QED BY <2>3 DEF rows
<1> HIDE DEF n, s
<1>9. hist \cup RowsOf(n.rows) = hist \cup (RowsOf(s.rows) \cup {y})
  BY <1>7, <1>8
<1>10. UpdateIsSound(n, hist, notified)
  BY <1>5, <1>7, <1>8, <1>9 DEF UpdateIsSound
<1> QED BY <1>6, <1>8, <1>10, EtaSessionStep

LEMMA FlushFirstInv == ASSUME EtaInv, NEW r \in Updaters, FlushFirst(r) PROVE EtaInv'
<1> DEFINE s == update[r]
           loaded == [l \in Legs |-> IF l = s.first.leg THEN s.copy[l] ELSE legs[l]]
           copy == IF s.first.type = "ETA" THEN loaded ELSE s.copy
<1>1. s \in EtaSession /\ UpdateIsSound(s, hist, notified)
  BY DEF EtaInv, EtaTypeOK
<1>2. s.pc = "numbered" /\ MayFlush(r)
  BY DEF FlushFirst
<1>p. PICK place \in IF s.first.type = "ETA" THEN ByCreatedAt ELSE {s.place} :
        update' = [update EXCEPT ![r].pc = "cascading", ![r].holds = Held(s), ![r].place = place,
                                 ![r].copy = IF s.first.type = "ETA" THEN loaded ELSE @]
  BY DEF FlushFirst
<1> DEFINE n == GoesOn(s, "cascading", copy, place, s.rows, Held(s), s.alerts)
<1>t. place \in [Legs -> Legs]
  <2>1. s.place \in [Legs -> Legs] /\ \A p \in ByCreatedAt : p \in [Legs -> Legs]
    BY <1>1, SessionTypes DEF ByCreatedAt, Bijection, Injection
  <2> HIDE DEF s
  <2> QED BY <1>p, <2>1
<1>3. s.rows # <<>> /\ s.holds = {}
  BY <1>1, <1>2 DEF UpdateIsSound
<1>4. s.first \in Item /\ s.copy \in Estimates /\ s.place \in [Legs -> Legs] /\ s.alerts \in SUBSET Slip /\ s.rows \in Seq(Row)
      /\ LastRow(s) \in Row
  BY <1>1, <1>3, SessionTypes
<1>5. copy \in Estimates
  <2>1. legs \in Estimates
    BY DEF EtaInv, EtaTypeOK
  <2> HIDE DEF s
  <2> QED BY <1>4, <2>1 DEF Estimates
<1>6. /\ Held(s) \subseteq Legs
      /\ \A l \in Held(s) : l \in s.holds \/ l = LastRow(s).leg
      /\ \A q \in Updaters \ {r} : update[q].holds \cap Held(s) = {}
  BY <1>2, <1>3, HeldFacts
<1>7. update' = [update EXCEPT ![r] = n] /\ UNCHANGED <<legs, hist, notified>> /\ overlapped' \in BOOLEAN
  <2>1. update' = [update EXCEPT ![r] = n]
    BY <1>1, <1>p DEF EtaInv, EtaTypeOK, GoesOn, EtaSession
  <2>2. UNCHANGED <<legs, hist, notified>> /\ overlapped' \in BOOLEAN
    BY DEF FlushFirst, EtaInv, EtaTypeOK
  <2> QED BY <2>1, <2>2
<1> HIDE DEF copy, loaded
<1>8. /\ n \in EtaSession /\ n.pc = "cascading" /\ n.rows = s.rows /\ n.holds = Held(s)
      /\ n.first = s.first /\ n.place = place
  <2> HIDE DEF s
  <2> QED BY <1>1, <1>4, <1>5, <1>6, <1>t, GoesOnFacts
<1> HIDE DEF n
<1>9. LastRow(n) = LastRow(s)
  BY <1>8 DEF LastRow
<1>10. UpdateIsSound(n, hist, notified)
  <2>1. CreatedAt[LastRow(s).leg] \in Nat
    <3>1. LastRow(s).leg \in Legs
      BY <1>4 DEF Row
    <3> QED BY <3>1, TimesAreNumbers
  <2>2. \A l \in n.holds : CreatedAt[l] <= CreatedAt[LastRow(n).leg]
    BY <1>3, <1>6, <1>8, <1>9, <2>1
  <2>3. n.first.type = "ETA" => n.place \in ByCreatedAt
    BY <1>8, <1>p
  <2> HIDE DEF s
  <2> QED BY <1>1, <1>3, <1>8, <2>2, <2>3 DEF UpdateIsSound
<1> QED BY <1>6, <1>7, <1>8, <1>10, EtaSessionStep

\* The next row of the cascade is for the leg of the last row or the next one,
\* which was not created before it.
LEMMA FollowingFacts ==
    ASSUME NEW s \in EtaSession, s.rows # <<>>, NEW x \in Following(s)
    PROVE  /\ x \in Item /\ s.first.type = "ETA"
           /\ LastRow(s).type = "ETD" =>
                x.leg = LastRow(s).leg /\ x.type = "ETA" /\ x.value = LastRow(s).value + Transit(s.copy[x.leg])
           /\ LastRow(s).type = "ETA" =>
                /\ s.place[x.leg] = s.place[LastRow(s).leg] + 1 /\ x.type = "ETD"
                /\ x.value = Departure(s.copy[x.leg], LastRow(s).value)
           /\ LastRow(s).leg \in Legs /\ x.leg \in Legs /\ LastRow(s).type \in Types
           /\ s.place \in ByCreatedAt => CreatedAt[LastRow(s).leg] <= CreatedAt[x.leg]
<1> DEFINE y == LastRow(s)
<1>1. y \in Row /\ s.copy \in Estimates /\ s.place \in [Legs -> Legs] /\ s.first.type \in Types
  BY SessionTypes
<1>2. y.leg \in Legs /\ y.type \in Types /\ y.value \in Nat /\ y.leg \in Nat
  BY <1>1 DEF Row, Legs
<1>3. s.first.type = "ETA"
  BY <1>1 DEF Following, Types
<1>4. ASSUME NEW l \in Legs
      PROVE  /\ Transit(s.copy[l]) \in Nat
             /\ Departure(s.copy[l], y.value) \in Nat
  <2>1. s.copy[l]["ETA"] \in Nat \cup {None} /\ s.copy[l]["ETD"] \in Nat \cup {None}
    BY <1>1, <1>4 DEF Estimates, Types
  <2> HIDE DEF y
  <2>2. Transit(s.copy[l]) \in Nat
    BY <2>1, EtaAssumption DEF Transit, None
  <2>3. Departure(s.copy[l], y.value) \in Nat
    BY <1>2, <2>1, EtaAssumption DEF Departure, None
  <2> QED BY <2>2, <2>3
<1>5. CASE y.type = "ETD"
  <2>1. x = NextArrival(s, y)
    BY <1>3, <1>5 DEF Following
  <2>2. CreatedAt[y.leg] <= CreatedAt[y.leg]
    BY <1>2, EtaAssumption DEF Legs
  <2> HIDE DEF y
  <2> QED BY <1>2, <1>3, <1>4, <1>5, <2>1, <2>2 DEF NextArrival, Item, Types, y
<1>6. CASE y.type = "ETA"
  <2>1. PICK l \in Legs : s.place[l] = s.place[y.leg] + 1 /\ x = NextDeparture(s, y, l)
    BY <1>3, <1>6 DEF Following
  <2>2. s.place[l] \in Nat /\ s.place[y.leg] \in Nat /\ CreatedAt[l] \in Nat /\ CreatedAt[y.leg] \in Nat
    <3>1. Legs \subseteq Nat
      BY DEF Legs
    <3> HIDE DEF y
    <3>2. s.place[l] \in Legs /\ s.place[y.leg] \in Legs
      BY <1>1, <1>2
    <3> QED BY <1>2, <3>1, <3>2, TimesAreNumbers
  <2>3. s.place \in ByCreatedAt => CreatedAt[y.leg] <= CreatedAt[l]
    <3>1. s.place \in ByCreatedAt => (CreatedAt[l] < CreatedAt[y.leg] => s.place[l] < s.place[y.leg])
      BY <1>2 DEF ByCreatedAt
    <3> HIDE DEF y
    <3> QED BY <2>1, <2>2, <3>1
  <2> HIDE DEF y
  <2>4. x.leg = l /\ x.type = "ETD" /\ x.value = Departure(s.copy[l], y.value)
    BY <2>1 DEF NextDeparture
  <2>5. x \in Item
    BY <1>4, <2>1 DEF NextDeparture, Item, Types
  <2> QED BY <1>2, <1>3, <1>6, <2>1, <2>3, <2>4, <2>5 DEF y
<1> QED BY <1>2, <1>5, <1>6 DEF Types

LEMMA CascadeRowInv == ASSUME EtaInv, NEW r \in Updaters, CascadeRow(r) PROVE EtaInv'
<1> DEFINE s == update[r]
<1>1. s \in EtaSession /\ UpdateIsSound(s, hist, notified)
  BY DEF EtaInv, EtaTypeOK
<1>2. s.pc = "cascading" /\ MayFlush(r)
  BY DEF CascadeRow
<1>3. PICK x \in Following(s) :
        /\ NextEtaVersion(s, x) <= MaxVersion
        /\ update' = [update EXCEPT ![r].holds = Held(s), ![r].rows = Append(@, Numbered(s, x))]
  BY DEF CascadeRow
<1> DEFINE y == Numbered(s, x)
           rows == Append(s.rows, y)
           n == GoesOn(s, "cascading", s.copy, s.place, rows, Held(s), s.alerts)
<1>4. s.rows # <<>>
  BY <1>1, <1>2 DEF UpdateIsSound
<1>5. s.copy \in Estimates /\ s.place \in [Legs -> Legs] /\ s.alerts \in SUBSET Slip /\ s.rows \in Seq(Row)
  BY <1>1, SessionTypes
<1>6. /\ x \in Item /\ LastRow(s).leg \in Legs /\ x.leg \in Legs /\ s.place \in ByCreatedAt
      /\ CreatedAt[LastRow(s).leg] <= CreatedAt[x.leg]
  <2>1. s.first.type = "ETA" => s.place \in ByCreatedAt
    BY <1>1, <1>2 DEF UpdateIsSound
  <2> HIDE DEF s
  <2> QED BY <1>1, <1>3, <1>4, <2>1, FollowingFacts
<1>7. /\ Held(s) \subseteq Legs
      /\ \A l \in Held(s) : l \in s.holds \/ l = LastRow(s).leg
      /\ \A q \in Updaters \ {r} : update[q].holds \cap Held(s) = {}
  BY <1>2, <1>4, HeldFacts
<1>8. /\ y \in Row /\ y.leg = x.leg
      /\ GoodRows(hist \cup (RowsOf(s.rows) \cup {y})) /\ Dense(hist \cup (RowsOf(s.rows) \cup {y}))
  <2> HIDE DEF s
  <2> QED BY <1>1, <1>3, <1>6, NumberedFacts
<1>9. update' = [update EXCEPT ![r] = n]
  BY <1>1, <1>2, <1>3 DEF EtaInv, EtaTypeOK, GoesOn, EtaSession
<1>10. UNCHANGED <<legs, hist, notified>> /\ overlapped' \in BOOLEAN
  BY DEF CascadeRow, EtaInv, EtaTypeOK
<1> HIDE DEF y
<1>11. rows \in Seq(Row) /\ rows # <<>> /\ rows[Len(rows)] = y /\ RowsOf(rows) = RowsOf(s.rows) \cup {y}
  BY <1>5, <1>8, RowFacts
<1> HIDE DEF rows
<1>12. n \in EtaSession /\ n.pc = "cascading" /\ n.rows = rows /\ n.holds = Held(s) /\ n.place = s.place
  <2> HIDE DEF s
  <2> QED BY <1>1, <1>5, <1>7, <1>11, GoesOnFacts
<1> HIDE DEF n
<1>13. LastRow(n) = y
  BY <1>11, <1>12 DEF LastRow
<1>14. \A l \in Held(s) : CreatedAt[l] <= CreatedAt[LastRow(n).leg]
  <2>1. \A l \in s.holds : CreatedAt[l] <= CreatedAt[LastRow(s).leg]
    BY <1>1, <1>2 DEF UpdateIsSound
  <2>2. \A l \in Legs : CreatedAt[l] \in Nat
    BY TimesAreNumbers
  <2> HIDE DEF s
  <2> SUFFICES ASSUME NEW l \in Held(s) PROVE CreatedAt[l] <= CreatedAt[y.leg]
    BY <1>13
  <2>3. CreatedAt[l] <= CreatedAt[LastRow(s).leg]
    BY <1>6, <1>7, <2>1, <2>2
  <2> QED BY <1>6, <1>7, <1>8, <2>2, <2>3
<1>15. UpdateIsSound(n, hist, notified)
  <2> HIDE DEF s
  <2> QED BY <1>6, <1>8, <1>11, <1>12, <1>14 DEF UpdateIsSound
<1> HIDE DEF s
<1> QED BY <1>7, <1>9, <1>10, <1>12, <1>15, EtaSessionStep

\* The alerts of an evaluation tell every slip among the rows it sees.
LEMMA DeviationsTell ==
    ASSUME NEW S, GoodRows(S), NEW firm \in BOOLEAN, NEW alerts \in Deviations(S, firm)
    PROVE  alerts \subseteq Slip /\ AllTold(S, alerts)
<1> DEFINE ends == [l \in Legs |-> Ends(S, l)]
<1>1. /\ alerts \subseteq UNION {Alert(e, firm) : e \in UNION {ends[l] : l \in Legs}}
      /\ \A l \in Legs : ends[l] # {} => \E e \in ends[l] : {x \in alerts : x.leg = l} = Alert(e, firm)
  BY DEF Deviations
<1>2. \A h \in S : h \in Row /\ h.leg \in Legs /\ h.version \in Nat /\ h.version >= 1 /\ h.value \in Nat
  BY DEF GoodRows, Row
<1>3. \A l \in Legs : ends[l] = Ends(S, l)
  OBVIOUS
<1> HIDE DEF ends
<1>4. alerts \subseteq Slip
  <2> SUFFICES ASSUME NEW x \in alerts PROVE x \in Slip
    OBVIOUS
  <2>1. PICK l \in Legs : \E e \in ends[l] : x \in Alert(e, firm)
    BY <1>1
  <2>2. PICK e \in ends[l] : x \in Alert(e, firm)
    BY <2>1
  <2>3. PICK a \in Etas(S, l), b \in Etas(S, l) : e = <<a, b>>
    BY <1>3, <2>2 DEF Ends
  <2>4. a \in S /\ b \in S
    BY <2>3 DEF Etas
  <2>5. x = [leg |-> a.leg, plan |-> a.value, eta |-> b.value]
    BY <2>2, <2>3 DEF Alert
  <2> QED BY <1>2, <2>4, <2>5 DEF Slip
<1>5. AllTold(S, alerts)
  <2> SUFFICES ASSUME NEW a \in S, NEW b \in S, IsSlip(S, a, b)
               PROVE  [leg |-> a.leg, plan |-> a.value, eta |-> b.value] \in alerts
    BY DEF AllTold
  <2> DEFINE l == a.leg
             E == Etas(S, l)
             slip == [leg |-> a.leg, plan |-> a.value, eta |-> b.value]
  <2>1. l \in Legs /\ a \in E /\ b \in E /\ \A g \in E : g \in S
    BY <1>2 DEF Etas, IsSlip
  <2>2. /\ a.version = 1 /\ \A g \in E : g.version = 1 => g = a
        /\ \A g \in E : g.version <= b.version /\ (g.version = b.version => g = b)
        /\ b.value - a.value > SlipLimit
    <3>1. a.version = 1 /\ Only(E, 1) /\ Only(E, b.version) /\ b.value - a.value > SlipLimit
          /\ \A g \in E : g.version <= b.version
      BY DEF IsSlip
    <3> HIDE DEF E
    <3> QED BY <2>1, <3>1 DEF Only
  <2> HIDE DEF E
  <2>3. \A e \in Ends(S, l) : e = <<a, b>>
    <3> SUFFICES ASSUME NEW e \in Ends(S, l) PROVE e = <<a, b>>
      OBVIOUS
    <3>1. PICK c \in E, d \in E : /\ e = <<c, d>>
                                  /\ \A g \in E : c.version <= g.version
                                  /\ \A g \in E : g.version <= d.version
      BY DEF Ends, E
    <3>2. c.version = 1
      BY <1>2, <2>1, <2>2, <3>1
    <3>3. d.version = b.version
      BY <1>2, <2>1, <2>2, <3>1
    <3> QED BY <2>2, <3>1, <3>2, <3>3
  <2>4. <<a, b>> \in Ends(S, l)
    <3>1. /\ \A g \in E : a.version <= g.version
          /\ \A g \in E : g.version <= b.version
      BY <1>2, <2>1, <2>2
    <3> QED BY <2>1, <3>1 DEF Ends, E
  <2>5. {x \in alerts : x.leg = l} = Alert(<<a, b>>, firm)
    BY <1>1, <1>3, <2>1, <2>3, <2>4
  <2>6. Publish(b.value - a.value, firm)
    <3>1. b.value - a.value \in Int
      BY <1>2
    <3> QED BY <2>2, <3>1, EtaAssumption DEF Publish
  <2>7. slip \in Alert(<<a, b>>, firm)
    BY <2>6 DEF Alert
  <2> QED BY <2>5, <2>7
<1> QED BY <1>4, <1>5

\* What is told of two sets of rows without gaps is told of both together: the
\* first version of a leg is among the rows that hold its latest.
LEMMA TellBoth ==
    ASSUME NEW S, NEW T, GoodRows(S), GoodRows(T), Dense(S), Dense(T),
           NEW M, NEW N, AllTold(S, M), AllTold(T, N)
    PROVE  AllTold(S \cup T, M \cup N)
<1> SUFFICES ASSUME NEW a \in S \cup T, NEW b \in S \cup T, IsSlip(S \cup T, a, b)
             PROVE  [leg |-> a.leg, plan |-> a.value, eta |-> b.value] \in M \cup N
  BY DEF AllTold
<1>1. ASSUME NEW U, U \subseteq S \cup T, GoodRows(U), Dense(U), b \in U, NEW K, AllTold(U, K)
      PROVE  [leg |-> a.leg, plan |-> a.value, eta |-> b.value] \in K
  <2>1. a.type = "ETA" /\ b.type = "ETA" /\ a.leg = b.leg /\ a.version = 1 /\ b.value - a.value > SlipLimit
    BY DEF IsSlip
  <2>2. 1 \in 1 .. b.version
    BY <1>1 DEF GoodRows, Row
  <2>3. PICK g \in U : g.leg = b.leg /\ g.type = b.type /\ g.version = 1
    BY <1>1, <2>2 DEF Dense
  <2>4. g = a
    <3>1. g \in Etas(S \cup T, a.leg) /\ a \in Etas(S \cup T, a.leg)
      BY <1>1, <2>1, <2>3 DEF Etas
    <3> QED BY <2>1, <2>3, <3>1 DEF IsSlip, Only
  <2>5. \A h \in Etas(U, a.leg) : h \in Etas(S \cup T, a.leg)
    BY <1>1 DEF Etas
  <2>6. Only(Etas(U, a.leg), 1) /\ Only(Etas(U, b.leg), b.version)
        /\ \A h \in Etas(U, b.leg) : h.version <= b.version
    BY <2>1, <2>5 DEF IsSlip, Only
  <2>7. IsSlip(U, a, b)
    BY <1>1, <2>1, <2>3, <2>4, <2>6 DEF IsSlip
  <2> QED BY <1>1, <2>3, <2>4, <2>7 DEF AllTold
<1>2. CASE b \in S
  BY <1>1, <1>2
<1>3. CASE b \in T
  BY <1>1, <1>3
<1> QED BY <1>2, <1>3

\* More that is told of the same rows.
LEMMA TellMore ==
    ASSUME NEW S, NEW M, NEW N, AllTold(S, M), M \subseteq N PROVE AllTold(S, N)
  BY DEF AllTold

LEMMA EvaluateInv == ASSUME EtaInv, NEW r \in Updaters, EvaluateDeviations(r) PROVE EtaInv'
<1> DEFINE s == update[r]
<1>1. s \in EtaSession /\ UpdateIsSound(s, hist, notified)
  BY DEF EtaInv, EtaTypeOK
<1>2. s.pc = "cascading" /\ MayFlush(r)
  BY DEF EvaluateDeviations
<1>3. PICK alerts \in Deviations(hist \cup RowsOf(s.rows), s.firm) :
        update' = [update EXCEPT ![r].pc = "evaluated", ![r].holds = Held(s), ![r].alerts = alerts]
  BY DEF EvaluateDeviations
<1> DEFINE n == GoesOn(s, "evaluated", s.copy, s.place, s.rows, Held(s), alerts)
<1>4. s.rows # <<>> /\ GoodRows(hist \cup RowsOf(s.rows))
  BY <1>1, <1>2 DEF UpdateIsSound
<1>5. s.copy \in Estimates /\ s.place \in [Legs -> Legs] /\ s.rows \in Seq(Row) /\ s.firm \in BOOLEAN
  BY <1>1, SessionTypes
<1>6. /\ Held(s) \subseteq Legs
      /\ \A q \in Updaters \ {r} : update[q].holds \cap Held(s) = {}
  BY <1>2, <1>4, HeldFacts
<1>7. alerts \subseteq Slip /\ AllTold(hist \cup RowsOf(s.rows), alerts)
  <2> HIDE DEF s
  <2> QED BY <1>3, <1>4, <1>5, DeviationsTell
<1>8. update' = [update EXCEPT ![r] = n]
  BY <1>1, <1>2, <1>3 DEF EtaInv, EtaTypeOK, GoesOn, EtaSession
<1>9. UNCHANGED <<legs, hist, notified>> /\ overlapped' \in BOOLEAN
  BY DEF EvaluateDeviations, EtaInv, EtaTypeOK
<1>10. /\ n \in EtaSession /\ n.pc = "evaluated" /\ n.rows = s.rows /\ n.holds = Held(s) /\ n.alerts = alerts
       /\ n.first = s.first /\ n.place = s.place
  <2> HIDE DEF s
  <2> QED BY <1>1, <1>5, <1>6, <1>7, GoesOnFacts
<1> HIDE DEF n, s
<1>11. AllTold(hist \cup RowsOf(s.rows), notified \cup alerts)
  BY <1>7, TellMore
<1>12. UpdateIsSound(n, hist, notified)
  BY <1>1, <1>2, <1>4, <1>10, <1>11 DEF UpdateIsSound
<1> QED BY <1>6, <1>8, <1>9, <1>10, <1>12, EtaSessionStep

\* What a commit leaves in the columns of the legs.
LEMMA WrittenFacts ==
    ASSUME NEW s \in EtaSession, NEW l \in Legs, NEW t \in Types, NEW v \in Nat \cup {None}
    PROVE  Written(s, l, t, v) \in Nat \cup {None}
<1>1. RowsOf(s.rows) \subseteq Row
  BY SessionTypes
<1>2. CASE \E x \in RowsOf(s.rows) : x.leg = l /\ x.type = t /\ Changes(s, x)
  <2> DEFINE c == CHOOSE x \in RowsOf(s.rows) : x.leg = l /\ x.type = t
  <2>1. c \in RowsOf(s.rows)
    BY <1>2
  <2>2. Written(s, l, t, v) = c.value
    BY <1>2 DEF Written
  <2> HIDE DEF c
  <2> QED BY <1>1, <2>1, <2>2 DEF Row
<1>3. CASE ~\E x \in RowsOf(s.rows) : x.leg = l /\ x.type = t /\ Changes(s, x)
  BY <1>3 DEF Written
<1> QED BY <1>2, <1>3

LEMMA EtaCommitInv == ASSUME EtaInv, NEW r \in Updaters, Commit(r) PROVE EtaInv'
<1> DEFINE s == update[r]
           S == hist \cup RowsOf(s.rows)
<1>1. s \in EtaSession /\ UpdateIsSound(s, hist, notified)
  BY DEF EtaInv, EtaTypeOK
<1>2. /\ s.pc = "evaluated" /\ hist' = S /\ notified' = notified \cup s.alerts
      /\ legs' = [l \in Legs |-> [t \in Types |-> Written(s, l, t, legs[l][t])]]
      /\ update' = [update EXCEPT ![r] = NoUpdate] /\ overlapped' = overlapped
  BY DEF Commit
<1>3. GoodRows(S) /\ Dense(S) /\ AllTold(S, notified')
  BY <1>1, <1>2 DEF UpdateIsSound
<1>4. \A q \in Updaters : update'[q] = IF q = r THEN NoUpdate ELSE update[q]
  BY <1>2 DEF EtaInv, EtaTypeOK
<1>5. EtaTypeOK'
  <2>1. \A l \in Legs, t \in Types : legs[l][t] \in Nat \cup {None}
    BY DEF EtaInv, EtaTypeOK, Estimates
  <2>2. \A l \in Legs, t \in Types : Written(s, l, t, legs[l][t]) \in Nat \cup {None}
    <3> HIDE DEF s
    <3> QED BY <1>1, <2>1, WrittenFacts
  <2>3. legs' \in Estimates
    BY <1>2, <2>2 DEF Estimates
  <2>4. RowsOf(s.rows) \subseteq Row /\ s.alerts \subseteq Slip
    BY <1>1, SessionTypes
  <2>5. hist' \subseteq Row /\ notified' \subseteq Slip
    BY <1>2, <2>4 DEF EtaInv, EtaTypeOK
  <2>6. update' \in [Updaters -> EtaSession] /\ overlapped' \in BOOLEAN
    BY <1>2, NoUpdateFacts DEF EtaInv, EtaTypeOK
  <2> QED BY <2>3, <2>5, <2>6 DEF EtaTypeOK
<1>6. \A q \in Updaters : UpdateIsSound(update'[q], S, notified')
  <2> SUFFICES ASSUME NEW q \in Updaters PROVE UpdateIsSound(update'[q], S, notified')
    OBVIOUS
  <2>1. CASE q = r
    <3> HIDE DEF S
    <3>1. UpdateIsSound(NoUpdate, S, notified')
      BY <1>3, NoUpdateFacts, EmptyIsSound
    <3> QED BY <1>4, <2>1, <3>1
  <2>2. CASE q # r
    <3> DEFINE u == update[q]
               R == RowsOf(u.rows)
    <3>1. u \in EtaSession /\ UpdateIsSound(u, hist, notified) /\ update'[q] = u
      BY <1>4, <2>2 DEF EtaInv, EtaTypeOK
    <3>2. GoodRows(hist \cup R) /\ Dense(hist \cup R)
      BY <3>1 DEF UpdateIsSound
    <3>3. S \cup R = (hist \cup R) \cup S
      OBVIOUS
    <3> HIDE DEF u, R, s, S
    <3>4. GoodRows((hist \cup R) \cup S)
      BY <1>3, <3>2 DEF GoodRows
    <3>5. Dense((hist \cup R) \cup S)
      BY <1>3, <3>2, UnionIsDense
    <3>6. ASSUME u.pc = "evaluated" PROVE AllTold((hist \cup R) \cup S, notified' \cup u.alerts)
      <4>1. AllTold(hist \cup R, notified \cup u.alerts)
        BY <3>1, <3>6 DEF UpdateIsSound, R
      <4>2. AllTold((hist \cup R) \cup S, (notified \cup u.alerts) \cup notified')
        BY <1>3, <3>2, <4>1, TellBoth
      <4>3. (notified \cup u.alerts) \cup notified' = notified' \cup u.alerts
        BY <1>2
      <4> QED BY <4>2, <4>3
    <3>7. GoodRows(S \cup R) /\ Dense(S \cup R) /\ (u.pc = "evaluated" => AllTold(S \cup R, notified' \cup u.alerts))
      BY <3>3, <3>4, <3>5, <3>6
    <3>8. UpdateIsSound(u, S, notified')
      BY <3>1, <3>7 DEF UpdateIsSound, R
    <3> QED BY <3>1, <3>8
  <2> QED BY <2>1, <2>2
<1>7. \A p, q \in Updaters : p # q => update'[p].holds \cap update'[q].holds = {}
  BY <1>4, NoUpdateFacts DEF EtaInv
<1> HIDE DEF s, S
<1> QED BY <1>2, <1>3, <1>5, <1>6, <1>7 DEF EtaInv

LEMMA EtaNextInv == EtaInv /\ [EtaNext]_etaVars => EtaInv'
<1> SUFFICES ASSUME EtaInv, [EtaNext]_etaVars PROVE EtaInv'
  OBVIOUS
<1>1. CASE UNCHANGED etaVars
  BY <1>1 DEF etaVars, EtaInv, EtaTypeOK
<1>2. CASE EtaNext
  <2>1. PICK r \in Updaters :
          \/ \E u \in Updates : LoadLeg(r, [leg |-> u.leg, type |-> u.type, value |-> u.value], u.firm)
          \/ NumberFirst(r) \/ FlushFirst(r) \/ CascadeRow(r) \/ EvaluateDeviations(r)
          \/ Commit(r) \/ DropUpdate(r)
    BY <1>2 DEF EtaNext
  <2>2. ASSUME NEW u \in Updates, LoadLeg(r, [leg |-> u.leg, type |-> u.type, value |-> u.value], u.firm)
        PROVE  EtaInv'
    <3> DEFINE x == [leg |-> u.leg, type |-> u.type, value |-> u.value]
    <3>1. x \in Item /\ u.firm \in BOOLEAN /\ LoadLeg(r, x, u.firm)
      BY <2>2, EtaAssumption DEF Item
    <3> HIDE DEF x
    <3> QED BY <3>1, LoadLegInv
  <2> QED BY <2>1, <2>2, NumberFirstInv, FlushFirstInv, CascadeRowInv, EvaluateInv, EtaCommitInv, DropInv
<1> QED BY <1>1, <1>2

LEMMA EtaInvariance == EtaSpec => []EtaInv
  BY EtaInitInv, EtaNextInv, PTL DEF EtaSpec

\* Rows and sessions keep their types.
THEOREM EtaTypeCorrect == EtaSpec => []EtaTypeOK
<1>1. EtaInv => EtaTypeOK
  BY DEF EtaInv
<1> QED BY <1>1, EtaInvariance, PTL

\* publish_customer_notification: whatever the interleaving, a slip past the limit
\* that no two rows leave in doubt has been told to the customer.
THEOREM SlipsAreNotified == EtaSpec => []SlipIsNotified
<1>1. EtaInv => SlipIsNotified
  <2> SUFFICES ASSUME EtaInv, NEW l \in Legs, NEW a \in Etas(hist, l), NEW b \in Etas(hist, l),
                      a.version = 1, Only(Etas(hist, l), 1),
                      b.version = Latest(hist, l, "ETA"), Only(Etas(hist, l), b.version),
                      b.value - a.value > SlipLimit
               PROVE  [leg |-> l, plan |-> a.value, eta |-> b.value] \in notified
    BY DEF SlipIsNotified
  <2>1. a \in hist /\ b \in hist /\ a.leg = l /\ b.leg = l /\ a.type = "ETA" /\ b.type = "ETA"
    BY DEF Etas
  <2>2. \A g \in hist : g.leg = l /\ g.type = "ETA" => g.version <= b.version
    BY LatestFacts DEF EtaInv
  <2>3. \A g \in Etas(hist, l) : g.version <= b.version
    BY <2>2 DEF Etas
  <2>4. IsSlip(hist, a, b)
    BY <2>1, <2>3 DEF IsSlip
  <2>5. AllTold(hist, notified)
    BY DEF EtaInv
  <2> QED BY <2>1, <2>4, <2>5 DEF AllTold
<1> QED BY <1>1, EtaInvariance, PTL

\* The row locks: requests wait for each other in a circle only for legs created
\* together.  Of a circle take a request that waits for a leg created last: the
\* one it waits for waits for a leg created no earlier, so at the same time.
THEOREM DeadlocksNeedTies == EtaSpec => []DeadlockNeedsTie
<1>1. EtaInv => DeadlockNeedsTie
  <2> SUFFICES ASSUME EtaInv, NEW W \in SUBSET Updaters, W # {},
                      \A p \in W : \E q \in W : WaitsFor(p, q)
               PROVE  \E p, q \in W : /\ WaitsFor(p, q)
                                     /\ CreatedAt[LastRow(update[p]).leg] = CreatedAt[LastRow(update[q]).leg]
    BY DEF DeadlockNeedsTie
  <2> DEFINE T == [p \in W |-> CreatedAt[LastRow(update[p]).leg]]
             S == {T[p] : p \in W}
  <2>1. \A p \in W : T[p] \in Nat /\ T[p] <= LastLeg
    <3> SUFFICES ASSUME NEW p \in W PROVE LastRow(update[p]).leg \in Legs
      BY EtaAssumption DEF Legs
    <3>1. update[p] \in EtaSession /\ UpdateIsSound(update[p], hist, notified)
      BY DEF EtaInv, EtaTypeOK
    <3>2. update[p].pc \in {"numbered", "cascading"}
      BY DEF WaitsFor
    <3>3. update[p].rows # <<>>
      BY <3>1, <3>2 DEF UpdateIsSound
    <3>4. LastRow(update[p]) \in Row
      BY <3>1, <3>3, SessionTypes
    <3> QED BY <3>4 DEF Row
  <2>2. ASSUME NEW p \in W, NEW q \in W, WaitsFor(p, q) PROVE T[p] <= T[q]
    <3>1. UpdateIsSound(update[q], hist, notified)
      BY DEF EtaInv
    <3>2. LastRow(update[p]).leg \in update[q].holds /\ update[q].pc \in {"numbered", "cascading"}
      BY <2>2 DEF WaitsFor
    <3>3. update[q].pc = "cascading"
      BY <3>1, <3>2 DEF UpdateIsSound
    <3> QED BY <3>1, <3>2, <3>3 DEF UpdateIsSound
  <2>3. \A p \in W : T[p] = CreatedAt[LastRow(update[p]).leg]
    OBVIOUS
  <2> HIDE DEF T
  <2>4. S \in SUBSET Nat /\ S # {} /\ \A n \in S : n <= LastLeg
    BY <2>1
  <2>5. PICK m \in S : \A n \in S : n <= m
    <3> HIDE DEF S
    <3> QED BY <2>4, HasGreatest, EtaAssumption
  <2>6. PICK p \in W : T[p] = m
    OBVIOUS
  <2>7. PICK q \in W : WaitsFor(p, q)
    OBVIOUS
  <2>8. T[p] = T[q]
    <3>1. T[q] <= T[p]
      BY <2>5, <2>6
    <3> QED BY <2>1, <2>2, <2>7, <3>1
  <2> QED BY <2>3, <2>7, <2>8
<1> QED BY <1>1, EtaInvariance, PTL

-----------------------------------------------------------------------------
(* Estimates: requests one after the other                                  *)

\* The order of the cascade, for the places its legs were read in.
Rank(p, x) == 2 * p[x.leg] + (IF x.type = "ETA" THEN 1 ELSE 0)

\* The rows follow the history, are of different columns, and the last is the
\* furthest; the session's copies of their legs are current.
RowsFollow(s, h, current) ==
    \A x \in RowsOf(s.rows) :
        /\ x.version = Latest(h, x.leg, x.type) + 1
        /\ Rank(s.place, x) <= Rank(s.place, LastRow(s))
        /\ \A y \in RowsOf(s.rows) : y.leg = x.leg /\ y.type = x.type => y = x
        /\ s.copy[x.leg] = current[x.leg]

\* The rows of a new ETA reach every leg up to the last row's, and each follows
\* from the one before.
RowsChain(s) ==
    /\ s.place[s.first.leg] <= s.place[LastRow(s).leg]
    /\ \A l \in Legs :
         /\ s.place[s.first.leg] <= s.place[l] /\ s.place[l] <= s.place[LastRow(s).leg]
         /\ s.place[l] < s.place[LastRow(s).leg] \/ LastRow(s).type = "ETA"
         => \E x \in RowsOf(s.rows) : x.leg = l /\ x.type = "ETA"
    /\ \A x \in RowsOf(s.rows) :
         /\ x.type = "ETD" => \E y \in RowsOf(s.rows) :
               s.place[x.leg] = s.place[y.leg] + 1 /\ y.type = "ETA" /\ x.value = Departure(s.copy[x.leg], y.value)
         /\ x.type = "ETA" /\ x.leg # s.first.leg => \E y \in RowsOf(s.rows) :
               y.leg = x.leg /\ y.type = "ETD" /\ x.value = y.value + Transit(s.copy[x.leg])

UpdateIsSerial(s, h, current) ==
    /\ s.pc # "idle" => s.copy[s.first.leg] = current[s.first.leg]
    /\ s.pc = "numbered" => LastRow(s).leg = s.first.leg /\ LastRow(s).type = s.first.type
                            /\ RowsOf(s.rows) = {LastRow(s)}
    /\ s.pc # "idle" => RowsFollow(s, h, current)
    /\ s.pc \in {"cascading", "evaluated"} /\ s.first.type = "ETA" => s.copy = current /\ RowsChain(s)
    /\ s.pc = "evaluated" /\ s.first.type = "ETA" =>
         LastRow(s).type = "ETA" /\ \A l \in Legs : s.place[l] <= s.place[LastRow(s).leg]

\* The leg shows the latest version of each of its columns that has one.
LegsShowLatest(current, h) ==
    \A l \in Legs, t \in Types : \A x \in h :
        x.leg = l /\ x.type = t /\ x.version = Latest(h, l, t) => x.value = current[l][t]

EtaSerialInv ==
    ~overlapped =>
        /\ \A q, r \in Updaters : update[q].pc # "idle" /\ update[r].pc # "idle" => q = r
        /\ LegsShowLatest(legs, hist)
        /\ \A r \in Updaters : UpdateIsSerial(update[r], hist, legs)

LEMMA IdleIsSerial ==
    ASSUME NEW s, s.pc = "idle", NEW h, NEW current PROVE UpdateIsSerial(s, h, current)
  BY DEF UpdateIsSerial

LEMMA EtaSerialInit == EtaInit => EtaSerialInv
<1> SUFFICES ASSUME EtaInit PROVE EtaSerialInv
  OBVIOUS
<1>1. \A r \in Updaters : update[r] = NoUpdate /\ update[r].pc = "idle"
  BY NoUpdateFacts DEF EtaInit
<1>2. \A r \in Updaters : UpdateIsSerial(update[r], hist, legs)
  BY <1>1, IdleIsSerial
<1>3. LegsShowLatest(legs, hist)
  BY DEF EtaInit, LegsShowLatest
<1> QED BY <1>1, <1>2, <1>3 DEF EtaSerialInv

\* A step of one session, which is then alone or known not to be.
LEMMA EtaSerialSession ==
    ASSUME EtaTypeOK, EtaSerialInv, NEW r \in Updaters, NEW s, update' = [update EXCEPT ![r] = s],
           UNCHANGED <<legs, hist>>,
           ~overlapped' => ~overlapped /\ (s.pc # "idle" => \A q \in Updaters \ {r} : update[q].pc = "idle"),
           ~overlapped' => UpdateIsSerial(s, hist, legs)
    PROVE  EtaSerialInv'
<1> SUFFICES ASSUME ~overlapped'
             PROVE  /\ \A p, q \in Updaters : update'[p].pc # "idle" /\ update'[q].pc # "idle" => p = q
                    /\ LegsShowLatest(legs', hist')
                    /\ \A q \in Updaters : UpdateIsSerial(update'[q], hist', legs')
  BY DEF EtaSerialInv
<1>1. \A q \in Updaters : update'[q] = IF q = r THEN s ELSE update[q]
  BY DEF EtaTypeOK
<1>2. /\ \A p, q \in Updaters : update[p].pc # "idle" /\ update[q].pc # "idle" => p = q
      /\ LegsShowLatest(legs, hist)
      /\ \A q \in Updaters : UpdateIsSerial(update[q], hist, legs)
  BY DEF EtaSerialInv
<1>3. \A p, q \in Updaters : update'[p].pc # "idle" /\ update'[q].pc # "idle" => p = q
  BY <1>1, <1>2
<1>4. hist' = hist /\ legs' = legs
  OBVIOUS
<1>5. \A q \in Updaters : UpdateIsSerial(update'[q], hist, legs)
  BY <1>1, <1>2
<1> QED BY <1>2, <1>3, <1>4, <1>5

\* A session that goes on.
LEMMA EtaGoesOnAlone ==
    ASSUME EtaTypeOK, EtaSerialInv, NEW r \in Updaters, update[r].pc # "idle", ~overlapped
    PROVE  /\ \A q \in Updaters \ {r} : update[q].pc = "idle"
           /\ UpdateIsSerial(update[r], hist, legs)
  BY DEF EtaSerialInv

LEMMA SerialDrop ==
    ASSUME EtaInv, EtaSerialInv, NEW r \in Updaters, DropUpdate(r) PROVE EtaSerialInv'
<1>1. UpdateIsSerial(NoUpdate, hist, legs) /\ NoUpdate.pc = "idle"
  BY NoUpdateFacts, IdleIsSerial
<1>2. update' = [update EXCEPT ![r] = NoUpdate] /\ UNCHANGED <<legs, hist>> /\ overlapped' = overlapped
  BY DEF DropUpdate
<1>3. EtaTypeOK
  BY DEF EtaInv
<1> QED BY <1>1, <1>2, <1>3, EtaSerialSession

LEMMA SerialLoad ==
    ASSUME EtaInv, EtaSerialInv, NEW r \in Updaters, NEW x \in Item, NEW firm \in BOOLEAN, LoadLeg(r, x, firm)
    PROVE  EtaSerialInv'
<1> DEFINE s == LoadedSession(x, firm)
<1>1. /\ s \in EtaSession /\ s.pc = "loaded" /\ s.first = x /\ s.rows = <<>> /\ s.holds = {}
      /\ s.copy[x.leg] = legs[x.leg]
  BY LoadedFacts DEF EtaInv
<1>2. /\ update' = [update EXCEPT ![r] = s] /\ UNCHANGED <<legs, hist, notified>>
      /\ overlapped' = (overlapped \/ \E q \in Updaters : update[q].pc # "idle")
  BY DEF LoadLeg, LoadedSession
<1> HIDE DEF s
<1>3. RowsOf(s.rows) = {}
  BY <1>1 DEF RowsOf
<1>4. UpdateIsSerial(s, hist, legs)
  BY <1>1, <1>3 DEF UpdateIsSerial, RowsFollow
<1>5. EtaTypeOK
  BY DEF EtaInv
<1>6. ~overlapped' => ~overlapped /\ \A q \in Updaters : update[q].pc = "idle"
  BY <1>2
<1> QED BY <1>2, <1>4, <1>5, <1>6, EtaSerialSession

LEMMA RankFacts ==
    ASSUME NEW p \in [Legs -> Legs], NEW x, x.leg \in Legs, x.type \in Types
    PROVE  /\ Rank(p, x) \in Nat /\ p[x.leg] \in Nat
           /\ x.type = "ETA" => Rank(p, x) = 2 * p[x.leg] + 1
           /\ x.type = "ETD" => Rank(p, x) = 2 * p[x.leg]
<1>1. p[x.leg] \in Nat
  <2>1. Legs \subseteq Nat
    BY DEF Legs
  <2> QED BY <2>1
<1>2. x.type = "ETA" => Rank(p, x) = 2 * p[x.leg] + 1
  BY DEF Rank
<1>3. x.type = "ETD" => Rank(p, x) = 2 * p[x.leg]
  BY <1>1 DEF Rank
<1> QED BY <1>1, <1>2, <1>3 DEF Types

\* Rows of other columns do not count.
LEMMA LatestWithout ==
    ASSUME NEW h, NEW S, h \subseteq S, NEW l, NEW t, \A x \in S : x.leg = l /\ x.type = t => x \in h
    PROVE  Latest(S, l, t) = Latest(h, l, t)
<1>1. Versions(S, l, t) = Versions(h, l, t)
  BY DEF Versions
<1> DEFINE V == Versions(S, l, t)
           W == Versions(h, l, t)
           Highest(T) == IF T = {} THEN 0 ELSE CHOOSE n \in T : \A m \in T : m <= n
<1>2. Latest(S, l, t) = Highest(V) /\ Latest(h, l, t) = Highest(W) /\ V = W
  BY <1>1 DEF Latest
<1> HIDE DEF V, W, Highest
<1> QED BY <1>2

LEMMA SerialNumber ==
    ASSUME EtaInv, EtaSerialInv, NEW r \in Updaters, NumberFirst(r) PROVE EtaSerialInv'
<1> DEFINE s == update[r]
           y == Numbered(s, s.first)
           n == GoesOn(s, "numbered", s.copy, s.place, <<y>>, s.holds, s.alerts)
<1>1. s \in EtaSession /\ UpdateIsSound(s, hist, notified)
  BY DEF EtaInv, EtaTypeOK
<1>2. s.pc = "loaded" /\ NextEtaVersion(s, s.first) <= MaxVersion
  BY DEF NumberFirst
<1>3. s.rows = <<>> /\ s.holds \in SUBSET Legs
  BY <1>1, <1>2 DEF UpdateIsSound
<1>4. /\ s.first \in Item /\ s.copy \in Estimates /\ s.place \in [Legs -> Legs] /\ s.alerts \in SUBSET Slip /\ s.rows \in Seq(Row)
      /\ s.first.leg \in Legs /\ s.first.type \in Types
  BY <1>1, SessionTypes
<1>5. y \in Row /\ y.leg = s.first.leg /\ y.type = s.first.type /\ y.version = NextEtaVersion(s, s.first)
  <2> HIDE DEF s
  <2> QED BY <1>1, <1>2, <1>4, NumberedFacts
<1>6. update' = [update EXCEPT ![r] = n] /\ UNCHANGED <<legs, hist>> /\ overlapped' = overlapped
  BY <1>1 DEF NumberFirst, EtaInv, EtaTypeOK, GoesOn, EtaSession
<1> HIDE DEF y
<1> DEFINE rows == <<y>>
<1>7. /\ RowsOf(s.rows) = {} /\ RowsOf(rows) = {y} /\ rows \in Seq(Row) /\ rows[Len(rows)] = y
  BY <1>3, <1>4, <1>5, RowFacts
<1>8. n = GoesOn(s, "numbered", s.copy, s.place, rows, s.holds, s.alerts)
  OBVIOUS
<1> HIDE DEF rows, n
<1>9. n \in EtaSession /\ n.pc = "numbered" /\ n.rows = rows /\ n.first = s.first /\ n.copy = s.copy
  <2> HIDE DEF s
  <2> QED BY <1>1, <1>3, <1>4, <1>7, <1>8, GoesOnFacts
<1>10. LastRow(n) = y /\ RowsOf(n.rows) = {y}
  BY <1>7, <1>9 DEF LastRow
<1>11. ASSUME ~overlapped PROVE UpdateIsSerial(n, hist, legs)
  <2>1. s.copy[s.first.leg] = legs[s.first.leg]
    BY <1>2, <1>11 DEF EtaSerialInv, UpdateIsSerial
  <2>2. y.version = Latest(hist, y.leg, y.type) + 1
    <3>1. hist \cup RowsOf(s.rows) = hist
      BY <1>7
    <3> QED BY <1>5, <3>1 DEF NextEtaVersion
  <2>3. Rank(n.place, y) <= Rank(n.place, y)
    <3>1. n.place \in [Legs -> Legs]
      BY <1>9, SessionTypes
    <3> QED BY <1>4, <1>5, <3>1, RankFacts
  <2> HIDE DEF s
  <2>4. RowsFollow(n, hist, legs)
    BY <1>5, <1>9, <1>10, <2>1, <2>2, <2>3 DEF RowsFollow
  <2> QED BY <1>5, <1>9, <1>10, <2>1, <2>4 DEF UpdateIsSerial
<1>12. EtaTypeOK
  BY DEF EtaInv
<1>13. ~overlapped => \A q \in Updaters \ {r} : update[q].pc = "idle"
  BY <1>2, <1>12, EtaGoesOnAlone
<1> QED BY <1>6, <1>11, <1>12, <1>13, EtaSerialSession

\* No two legs have the same place, and none is left out.
LEMMA PlacesDiffer ==
    ASSUME NEW p \in ByCreatedAt
    PROVE  /\ p \in [Legs -> Legs]
           /\ \A k, l \in Legs : p[k] = p[l] => k = l
           /\ \A n \in Legs : \E l \in Legs : p[l] = n
<1>1. p \in Injection(Legs, Legs) /\ p \in Surjection(Legs, Legs)
  BY DEF ByCreatedAt, Bijection
<1>2. p \in [Legs -> Legs] /\ IsInjective(p)
  BY <1>1 DEF Injection
<1>3. \A k, l \in Legs : p[k] = p[l] => k = l
  BY <1>2 DEF IsInjective
<1>4. \A n \in Legs : \E l \in Legs : p[l] = n
  BY <1>1 DEF Surjection
<1> QED BY <1>2, <1>3, <1>4

LEMMA SerialFlush ==
    ASSUME EtaInv, EtaSerialInv, NEW r \in Updaters, FlushFirst(r) PROVE EtaSerialInv'
<1> DEFINE s == update[r]
           loaded == [l \in Legs |-> IF l = s.first.leg THEN s.copy[l] ELSE legs[l]]
           copy == IF s.first.type = "ETA" THEN loaded ELSE s.copy
<1>1. s \in EtaSession /\ UpdateIsSound(s, hist, notified) /\ legs \in Estimates
  BY DEF EtaInv, EtaTypeOK
<1>2. s.pc = "numbered" /\ MayFlush(r)
  BY DEF FlushFirst
<1>p. PICK place \in IF s.first.type = "ETA" THEN ByCreatedAt ELSE {s.place} :
        update' = [update EXCEPT ![r].pc = "cascading", ![r].holds = Held(s), ![r].place = place,
                                 ![r].copy = IF s.first.type = "ETA" THEN loaded ELSE @]
  BY DEF FlushFirst
<1> DEFINE n == GoesOn(s, "cascading", copy, place, s.rows, Held(s), s.alerts)
<1>t. place \in [Legs -> Legs]
  <2>1. s.place \in [Legs -> Legs] /\ \A p \in ByCreatedAt : p \in [Legs -> Legs]
    BY <1>1, SessionTypes DEF ByCreatedAt, Bijection, Injection
  <2> HIDE DEF s
  <2> QED BY <1>p, <2>1
<1>3. s.rows # <<>>
  BY <1>1, <1>2 DEF UpdateIsSound
<1>4. /\ s.copy \in Estimates /\ s.place \in [Legs -> Legs] /\ s.alerts \in SUBSET Slip /\ s.rows \in Seq(Row)
      /\ s.first.leg \in Legs /\ s.first.type \in Types
  BY <1>1, SessionTypes
<1>5. copy \in Estimates
  <2> HIDE DEF s
  <2> QED BY <1>1, <1>4 DEF Estimates
<1>6. Held(s) \in SUBSET Legs
  BY <1>2, <1>3, HeldFacts
<1>7. update' = [update EXCEPT ![r] = n] /\ UNCHANGED <<legs, hist>> /\ overlapped' = overlapped
  <2>1. update' = [update EXCEPT ![r] = n]
    BY <1>1, <1>p DEF EtaInv, EtaTypeOK, GoesOn, EtaSession
  <2>2. UNCHANGED <<legs, hist>> /\ overlapped' = overlapped
    BY DEF FlushFirst
  <2> QED BY <2>1, <2>2
<1>8. s.first.type = "ETA" /\ s.copy[s.first.leg] = legs[s.first.leg] => copy = legs
  <2> HIDE DEF s
  <2> QED BY <1>1 DEF Estimates
<1>9. s.copy[s.first.leg] = legs[s.first.leg] => copy[s.first.leg] = legs[s.first.leg]
  <2> HIDE DEF s
  <2> QED BY <1>4
<1> HIDE DEF copy, loaded
<1>10. n \in EtaSession /\ n.pc = "cascading" /\ n.rows = s.rows /\ n.first = s.first /\ n.copy = copy
       /\ n.place = place
  <2> HIDE DEF s
  <2> QED BY <1>1, <1>4, <1>5, <1>6, <1>t, GoesOnFacts
<1> HIDE DEF n
<1>11. LastRow(n) = LastRow(s)
  BY <1>10 DEF LastRow
<1>12. ASSUME ~overlapped PROVE UpdateIsSerial(n, hist, legs)
  <2>1. UpdateIsSerial(s, hist, legs)
    BY <1>12 DEF EtaSerialInv
  <2> HIDE DEF s
  <2>2. /\ s.copy[s.first.leg] = legs[s.first.leg] /\ RowsFollow(s, hist, legs)
        /\ LastRow(s).leg = s.first.leg /\ LastRow(s).type = s.first.type /\ RowsOf(s.rows) = {LastRow(s)}
    BY <1>2, <2>1 DEF UpdateIsSerial
  <2>r. place[s.first.leg] \in Nat /\ Rank(place, LastRow(s)) \in Nat
    BY <1>4, <1>t, <2>2, RankFacts
  <2>3. RowsFollow(n, hist, legs)
    <3>1. Rank(place, LastRow(s)) <= Rank(place, LastRow(s))
      BY <2>r
    <3> QED BY <1>9, <1>10, <1>11, <2>2, <3>1 DEF RowsFollow
  <2>4. ASSUME s.first.type = "ETA" PROVE RowsChain(n)
    <3>1. place \in ByCreatedAt
      BY <1>p, <2>4
    <3>2. /\ n.first.leg = s.first.leg /\ LastRow(n).leg = s.first.leg /\ LastRow(n).type = "ETA"
          /\ RowsOf(n.rows) = {LastRow(n)} /\ n.place = place
      BY <1>10, <1>11, <2>2, <2>4
    <3>3. ASSUME NEW l \in Legs, place[s.first.leg] <= place[l], place[l] <= place[s.first.leg]
          PROVE  l = s.first.leg
      <4>1. place[l] \in Nat
        BY <1>t DEF Legs
      <4>2. place[l] = place[s.first.leg]
        BY <2>r, <3>3, <4>1
      <4> QED BY <1>4, <3>1, <4>2, PlacesDiffer
    <3>4. place[s.first.leg] <= place[s.first.leg]
      BY <2>r
    <3> QED BY <3>2, <3>3, <3>4 DEF RowsChain
  <2> QED BY <1>8, <1>9, <1>10, <2>2, <2>3, <2>4 DEF UpdateIsSerial
<1>13. EtaTypeOK
  BY DEF EtaInv
<1>14. ~overlapped => \A q \in Updaters \ {r} : update[q].pc = "idle"
  BY <1>2, <1>13, EtaGoesOnAlone
<1> QED BY <1>7, <1>12, <1>13, <1>14, EtaSerialSession

\* The next row of the cascade is further on than all before it, so of a column
\* that has none yet, and it follows from the last one.
LEMMA RowsGoOn ==
    ASSUME NEW s \in EtaSession, s.rows # <<>>, NEW h, NEW current, NEW x \in Following(s),
           RowsFollow(s, h, current), RowsChain(s), s.copy = current,
           NEW y \in Row, y.leg = x.leg, y.type = x.type, y.value = x.value,
           y.version = Latest(h \cup RowsOf(s.rows), x.leg, x.type) + 1,
           NEW n, n.first = s.first, n.copy = s.copy, n.place = s.place, s.place \in ByCreatedAt,
           RowsOf(n.rows) = RowsOf(s.rows) \cup {y}, LastRow(n) = y
    PROVE  RowsFollow(n, h, current) /\ RowsChain(n)
<1> DEFINE R == RowsOf(s.rows)
           z == LastRow(s)
           p == s.place
<1>1. /\ z.type = "ETD" => x.leg = z.leg /\ x.type = "ETA" /\ x.value = z.value + Transit(s.copy[x.leg])
      /\ z.type = "ETA" => p[x.leg] = p[z.leg] + 1 /\ x.type = "ETD" /\ x.value = Departure(s.copy[x.leg], z.value)
      /\ z.type \in Types
  BY FollowingFacts
<1>2. R \subseteq Row /\ z \in R /\ z \in Row /\ s.first.leg \in Legs /\ p \in [Legs -> Legs]
  BY SessionTypes
<1>3. /\ \A v \in Row : v.leg \in Legs /\ v.type \in Types
      /\ \A l \in Legs : p[l] \in Nat
  <2>1. Legs \subseteq Nat
    BY DEF Legs
  <2> HIDE DEF p
  <2> QED BY <1>2, <2>1 DEF Row
<1>a. \A k, l \in Legs : p[k] = p[l] => k = l
  BY PlacesDiffer
<1>4. \A v \in R : Rank(p, v) \in Nat /\ Rank(p, v) <= Rank(p, z)
  BY <1>2, <1>3, RankFacts DEF RowsFollow
<1>9. /\ p[s.first.leg] <= p[z.leg]
      /\ \A l \in Legs :
           /\ p[s.first.leg] <= p[l] /\ p[l] <= p[z.leg]
           /\ p[l] < p[z.leg] \/ z.type = "ETA"
           => \E v \in R : v.leg = l /\ v.type = "ETA"
      /\ \A v \in R :
           /\ v.type = "ETD" => \E w \in R :
                 p[v.leg] = p[w.leg] + 1 /\ w.type = "ETA" /\ v.value = Departure(s.copy[v.leg], w.value)
           /\ v.type = "ETA" /\ v.leg # s.first.leg => \E w \in R :
                 w.leg = v.leg /\ w.type = "ETD" /\ v.value = w.value + Transit(s.copy[v.leg])
  BY DEF RowsChain
<1>b. n.place = p /\ RowsFollow(s, h, current) /\ \A v \in R : /\ v.version = Latest(h, v.leg, v.type) + 1
                              /\ \A w \in R : w.leg = v.leg /\ w.type = v.type => w = v
  BY DEF RowsFollow
<1> HIDE DEF R, z, p
<1>5. Rank(p, y) \in Nat /\ Rank(p, z) \in Nat /\ Rank(p, z) < Rank(p, y)
  <2>1. y.leg \in Legs /\ y.type \in Types /\ z.leg \in Legs /\ z.type \in Types
    BY <1>2, <1>3
  <2>2. /\ Rank(p, y) \in Nat /\ Rank(p, z) \in Nat /\ p[z.leg] \in Nat
        /\ y.type = "ETA" => Rank(p, y) = 2 * p[y.leg] + 1
        /\ y.type = "ETD" => Rank(p, y) = 2 * p[y.leg]
        /\ z.type = "ETA" => Rank(p, z) = 2 * p[z.leg] + 1
        /\ z.type = "ETD" => Rank(p, z) = 2 * p[z.leg]
    BY <1>2, <2>1, RankFacts
  <2>3. CASE z.type = "ETD"
    BY <1>1, <2>2, <2>3
  <2>4. CASE z.type = "ETA"
    <3>1. p[y.leg] = p[z.leg] + 1 /\ y.type = "ETD"
      BY <1>1, <2>4
    <3>2. Rank(p, y) = 2 * (p[z.leg] + 1) /\ Rank(p, z) = 2 * p[z.leg] + 1
      BY <2>2, <2>4, <3>1
    <3> QED BY <2>2, <3>2
  <2> QED BY <1>1, <2>3, <2>4 DEF Types
<1>6. \A v \in R : ~(v.leg = y.leg /\ v.type = y.type)
  <2> SUFFICES ASSUME NEW v \in R, v.leg = y.leg, v.type = y.type PROVE FALSE
    OBVIOUS
  <2>1. Rank(p, v) = Rank(p, y)
    BY DEF Rank
  <2> QED BY <1>4, <1>5, <2>1
<1>7. y.version = Latest(h, y.leg, y.type) + 1
  <2>1. Latest(h \cup R, y.leg, y.type) = Latest(h, y.leg, y.type)
    <3> DEFINE S == h \cup R
    <3>1. h \subseteq S /\ \A v \in S : v.leg = y.leg /\ v.type = y.type => v \in h
      BY <1>6
    <3> HIDE DEF S
    <3>2. Latest(S, y.leg, y.type) = Latest(h, y.leg, y.type)
      BY <3>1, LatestWithout
    <3> QED BY <3>2 DEF S
  <2> QED BY <2>1 DEF R
<1>8. RowsFollow(n, h, current)
  <2> SUFFICES ASSUME NEW v \in R \cup {y}
               PROVE  /\ v.version = Latest(h, v.leg, v.type) + 1
                      /\ Rank(p, v) <= Rank(p, y)
                      /\ \A w \in R \cup {y} : w.leg = v.leg /\ w.type = v.type => w = v
                      /\ n.copy[v.leg] = current[v.leg]
    <3>1. RowsOf(n.rows) = R \cup {y} /\ LastRow(n) = y
      BY DEF R
    <3> QED BY <1>b, <3>1 DEF RowsFollow
  <2>1. CASE v = y
    BY <1>5, <1>6, <1>7, <2>1
  <2>2. CASE v \in R
    <3>1. /\ v.version = Latest(h, v.leg, v.type) + 1
          /\ \A w \in R : w.leg = v.leg /\ w.type = v.type => w = v
      BY <1>b, <2>2
    <3>2. Rank(p, v) <= Rank(p, y)
      BY <1>4, <1>5, <2>2
    <3>3. \A w \in R \cup {y} : w.leg = v.leg /\ w.type = v.type => w = v
      BY <1>6, <2>2, <3>1
    <3> QED BY <3>1, <3>2, <3>3
  <2> QED BY <2>1, <2>2
<1>10. /\ y.leg \in Legs /\ z.leg \in Legs /\ p[z.leg] \in Nat /\ p[y.leg] \in Nat /\ p[s.first.leg] \in Nat
       /\ z.type = "ETD" => y.leg = z.leg
       /\ p[y.leg] = p[z.leg] \/ p[y.leg] = p[z.leg] + 1
  BY <1>1, <1>2, <1>3 DEF Types
<1>11. p[s.first.leg] <= p[y.leg]
  BY <1>9, <1>10
<1>12. ASSUME NEW l \in Legs, p[s.first.leg] <= p[l], p[l] <= p[y.leg], p[l] < p[y.leg] \/ y.type = "ETA"
       PROVE  \E v \in R \cup {y} : v.leg = l /\ v.type = "ETA"
  <2>1. CASE p[l] = p[y.leg]
    <3>1. l = y.leg
      BY <1>10, <1>a, <2>1
    <3>2. y.type = "ETA"
      BY <1>10, <1>12, <2>1
    <3> QED BY <3>1, <3>2
  <2>2. CASE p[l] < p[y.leg]
    <3>1. p[l] \in Nat
      BY <1>3
    <3>2. p[l] <= p[z.leg]
      BY <1>10, <2>2, <3>1
    <3>3. p[l] < p[z.leg] \/ z.type = "ETA"
      BY <1>1, <1>10, <2>2, <3>1 DEF Types
    <3> QED BY <1>9, <1>12, <3>2, <3>3
  <2>3. p[l] < p[y.leg] \/ p[l] = p[y.leg]
    BY <1>3, <1>10, <1>12
  <2> QED BY <2>1, <2>2, <2>3
<1>13. y.type = "ETD" => \E w \in R \cup {y} :
          p[y.leg] = p[w.leg] + 1 /\ w.type = "ETA" /\ y.value = Departure(s.copy[y.leg], w.value)
  <2> SUFFICES ASSUME y.type = "ETD"
               PROVE  p[y.leg] = p[z.leg] + 1 /\ z.type = "ETA" /\ y.value = Departure(s.copy[y.leg], z.value)
    BY <1>2
  <2> QED BY <1>1 DEF Types
<1>14. y.type = "ETA" => \E w \in R \cup {y} :
          w.leg = y.leg /\ w.type = "ETD" /\ y.value = w.value + Transit(s.copy[y.leg])
  <2> SUFFICES ASSUME y.type = "ETA"
               PROVE  z.leg = y.leg /\ z.type = "ETD" /\ y.value = z.value + Transit(s.copy[y.leg])
    BY <1>2
  <2> QED BY <1>1 DEF Types
<1>15. \A v \in R \cup {y} :
         /\ v.type = "ETD" => \E w \in R \cup {y} :
               p[v.leg] = p[w.leg] + 1 /\ w.type = "ETA" /\ v.value = Departure(s.copy[v.leg], w.value)
         /\ v.type = "ETA" /\ v.leg # s.first.leg => \E w \in R \cup {y} :
               w.leg = v.leg /\ w.type = "ETD" /\ v.value = w.value + Transit(s.copy[v.leg])
  BY <1>9, <1>13, <1>14
<1>16. RowsChain(n)
  <2>1. RowsOf(n.rows) = R \cup {y} /\ LastRow(n) = y /\ n.place = p /\ n.first = s.first /\ n.copy = s.copy
    BY <1>b DEF R
  <2> QED BY <1>11, <1>12, <1>15, <2>1 DEF RowsChain
<1> QED BY <1>8, <1>16

LEMMA SerialCascade ==
    ASSUME EtaInv, EtaSerialInv, NEW r \in Updaters, CascadeRow(r) PROVE EtaSerialInv'
<1> DEFINE s == update[r]
<1>1. s \in EtaSession /\ UpdateIsSound(s, hist, notified)
  BY DEF EtaInv, EtaTypeOK
<1>2. s.pc = "cascading" /\ MayFlush(r)
  BY DEF CascadeRow
<1>3. PICK x \in Following(s) :
        /\ NextEtaVersion(s, x) <= MaxVersion
        /\ update' = [update EXCEPT ![r].holds = Held(s), ![r].rows = Append(@, Numbered(s, x))]
  BY DEF CascadeRow
<1> DEFINE y == Numbered(s, x)
           rows == Append(s.rows, y)
           n == GoesOn(s, "cascading", s.copy, s.place, rows, Held(s), s.alerts)
<1>4. s.rows # <<>>
  BY <1>1, <1>2 DEF UpdateIsSound
<1>5. s.copy \in Estimates /\ s.place \in [Legs -> Legs] /\ s.alerts \in SUBSET Slip /\ s.rows \in Seq(Row)
  BY <1>1, SessionTypes
<1>6. x \in Item /\ s.first.type = "ETA"
  <2> HIDE DEF s
  <2> QED BY <1>1, <1>3, <1>4, FollowingFacts
<1>7. Held(s) \in SUBSET Legs
  BY <1>2, <1>4, HeldFacts
<1>8. y \in Row /\ y.leg = x.leg /\ y.type = x.type /\ y.value = x.value /\ y.version = NextEtaVersion(s, x)
  <2> HIDE DEF s
  <2> QED BY <1>1, <1>3, <1>6, NumberedFacts
<1>9. update' = [update EXCEPT ![r] = n]
  BY <1>1, <1>2, <1>3 DEF EtaInv, EtaTypeOK, GoesOn, EtaSession
<1>10. UNCHANGED <<legs, hist>> /\ overlapped' = overlapped
  BY DEF CascadeRow
<1> HIDE DEF y
<1>11. rows \in Seq(Row) /\ rows[Len(rows)] = y /\ RowsOf(rows) = RowsOf(s.rows) \cup {y}
  BY <1>5, <1>8, RowFacts
<1> HIDE DEF rows
<1>12. n.pc = "cascading" /\ n.rows = rows /\ n.first = s.first /\ n.copy = s.copy /\ n.place = s.place
  <2> HIDE DEF s
  <2> QED BY <1>1, <1>5, <1>7, <1>11, GoesOnFacts
<1> HIDE DEF n
<1>13. LastRow(n) = y /\ RowsOf(n.rows) = RowsOf(s.rows) \cup {y}
  BY <1>11, <1>12 DEF LastRow
<1>14. ASSUME ~overlapped PROVE UpdateIsSerial(n, hist, legs)
  <2>1. UpdateIsSerial(s, hist, legs)
    BY <1>14 DEF EtaSerialInv
  <2>2. y.version = Latest(hist \cup RowsOf(s.rows), x.leg, x.type) + 1
    BY <1>8 DEF NextEtaVersion
  <2> HIDE DEF s
  <2>3. RowsFollow(s, hist, legs) /\ RowsChain(s) /\ s.copy = legs /\ s.place \in ByCreatedAt
    BY <1>1, <1>2, <1>6, <2>1 DEF UpdateIsSerial, UpdateIsSound
  <2>4. RowsFollow(n, hist, legs) /\ RowsChain(n)
    BY <1>1, <1>3, <1>4, <1>8, <1>12, <1>13, <2>2, <2>3, RowsGoOn
  <2> QED BY <1>12, <2>3, <2>4 DEF UpdateIsSerial
<1>15. EtaTypeOK
  BY DEF EtaInv
<1>16. ~overlapped => \A q \in Updaters \ {r} : update[q].pc = "idle"
  BY <1>2, <1>15, EtaGoesOnAlone
<1> QED BY <1>9, <1>10, <1>14, <1>15, <1>16, EtaSerialSession

LEMMA SerialEvaluate ==
    ASSUME EtaInv, EtaSerialInv, NEW r \in Updaters, EvaluateDeviations(r) PROVE EtaSerialInv'
<1> DEFINE s == update[r]
<1>1. s \in EtaSession /\ UpdateIsSound(s, hist, notified)
  BY DEF EtaInv, EtaTypeOK
<1>2. s.pc = "cascading" /\ MayFlush(r) /\ Following(s) = {}
  BY DEF EvaluateDeviations
<1>3. PICK alerts \in Deviations(hist \cup RowsOf(s.rows), s.firm) :
        update' = [update EXCEPT ![r].pc = "evaluated", ![r].holds = Held(s), ![r].alerts = alerts]
  BY DEF EvaluateDeviations
<1> DEFINE n == GoesOn(s, "evaluated", s.copy, s.place, s.rows, Held(s), alerts)
<1>4. s.rows # <<>> /\ GoodRows(hist \cup RowsOf(s.rows))
  BY <1>1, <1>2 DEF UpdateIsSound
<1>5. s.copy \in Estimates /\ s.place \in [Legs -> Legs] /\ s.rows \in Seq(Row) /\ s.firm \in BOOLEAN /\ LastRow(s) \in Row
  BY <1>1, <1>4, SessionTypes
<1>6. Held(s) \in SUBSET Legs
  BY <1>2, <1>4, HeldFacts
<1>7. alerts \in SUBSET Slip
  <2> HIDE DEF s
  <2> QED BY <1>3, <1>4, <1>5, DeviationsTell
<1>8. update' = [update EXCEPT ![r] = n]
  BY <1>1, <1>2, <1>3 DEF EtaInv, EtaTypeOK, GoesOn, EtaSession
<1>9. UNCHANGED <<legs, hist>> /\ overlapped' = overlapped
  BY DEF EvaluateDeviations
<1>10. n.pc = "evaluated" /\ n.rows = s.rows /\ n.first = s.first /\ n.copy = s.copy /\ n.place = s.place
  <2> HIDE DEF s
  <2> QED BY <1>1, <1>5, <1>6, <1>7, GoesOnFacts
<1>11. s.first.type = "ETA" =>
         LastRow(s).type = "ETA" /\ \A l \in Legs : s.place[l] <= s.place[LastRow(s).leg]
  <2> SUFFICES ASSUME s.first.type = "ETA"
               PROVE  LastRow(s).type = "ETA" /\ \A l \in Legs : s.place[l] <= s.place[LastRow(s).leg]
    OBVIOUS
  <2> DEFINE z == LastRow(s)
             p == s.place
  <2>1. z.leg \in Legs /\ z.type \in Types
    BY <1>5 DEF Row
  <2>2. z.type = "ETA"
    BY <1>2, <2>1 DEF Following, Types
  <2>3. {NextDeparture(s, z, l) : l \in {m \in Legs : s.place[m] = s.place[z.leg] + 1}} = {}
    BY <1>2, <2>2 DEF Following
  <2>4. \A m \in Legs : p[m] # p[z.leg] + 1
    BY <2>3
  <2>5. p \in ByCreatedAt
    BY <1>1, <1>2 DEF UpdateIsSound
  <2> HIDE DEF z, p
  <2>6. p \in [Legs -> Legs] /\ \A m \in Legs : \E l \in Legs : p[l] = m
    BY <2>5, PlacesDiffer
  <2>7. p[z.leg] \in Legs /\ p[z.leg] + 1 \notin Legs
    BY <2>1, <2>4, <2>6
  <2>8. \A l \in Legs : l <= p[z.leg]
    <3> DEFINE c == p[z.leg]
    <3>1. c \in Legs /\ c + 1 \notin Legs
      BY <2>7
    <3> HIDE DEF c
    <3>2. \A l \in Legs : l <= c
      BY <3>1, EtaAssumption DEF Legs
    <3> QED BY <3>2 DEF c
  <2>9. \A l \in Legs : p[l] <= p[z.leg]
    BY <2>6, <2>8
  <2> QED BY <2>2, <2>9 DEF z, p
<1> HIDE DEF n, s
<1>12. LastRow(n) = LastRow(s)
  BY <1>10 DEF LastRow
<1>13. ASSUME ~overlapped PROVE UpdateIsSerial(n, hist, legs)
  <2>1. UpdateIsSerial(s, hist, legs)
    BY <1>13 DEF EtaSerialInv, s
  <2>2. s.copy[s.first.leg] = legs[s.first.leg] /\ RowsFollow(s, hist, legs)
        /\ (s.first.type = "ETA" => s.copy = legs /\ RowsChain(s))
    BY <1>2, <2>1 DEF UpdateIsSerial
  <2>3. RowsFollow(n, hist, legs)
    BY <1>10, <1>12, <2>2 DEF RowsFollow
  <2>4. s.first.type = "ETA" => RowsChain(n)
    BY <1>10, <1>12, <2>2 DEF RowsChain
  <2> QED BY <1>10, <1>11, <1>12, <2>2, <2>3, <2>4 DEF UpdateIsSerial
<1>14. EtaTypeOK
  BY DEF EtaInv
<1>15. ~overlapped => \A q \in Updaters \ {r} : update[q].pc = "idle"
  BY <1>2, <1>14, EtaGoesOnAlone DEF s
<1> QED BY <1>8, <1>9, <1>13, <1>14, <1>15, EtaSerialSession

\* A session that follows the history leaves the values of its rows.
LEMMA RowsAreWritten ==
    ASSUME NEW s, NEW h, RowsFollow(s, h, legs),
           legs' = [l \in Legs |-> [t \in Types |-> Written(s, l, t, legs[l][t])]],
           NEW l \in Legs, NEW t \in Types
    PROVE  /\ \A x \in RowsOf(s.rows) : x.leg = l /\ x.type = t => legs'[l][t] = x.value
           /\ (\A x \in RowsOf(s.rows) : ~(x.leg = l /\ x.type = t)) => legs'[l][t] = legs[l][t]
<1>1. legs'[l][t] = Written(s, l, t, legs[l][t])
  OBVIOUS
<1>2. ASSUME NEW x \in RowsOf(s.rows), x.leg = l, x.type = t PROVE legs'[l][t] = x.value
  <2>1. \A y \in RowsOf(s.rows) : y.leg = l /\ y.type = t => y = x
    BY <1>2 DEF RowsFollow
  <2>2. s.copy[l] = legs[l]
    BY <1>2 DEF RowsFollow
  <2>3. CASE Changes(s, x)
    <3> DEFINE c == CHOOSE y \in RowsOf(s.rows) : y.leg = l /\ y.type = t
    <3>1. c \in RowsOf(s.rows) /\ c.leg = l /\ c.type = t
      BY <1>2
    <3>2. Written(s, l, t, legs[l][t]) = c.value
      BY <1>2, <2>3 DEF Written
    <3> HIDE DEF c
    <3> QED BY <1>1, <2>1, <3>1, <3>2
  <2>4. CASE ~Changes(s, x)
    <3>1. ~\E y \in RowsOf(s.rows) : y.leg = l /\ y.type = t /\ Changes(s, y)
      BY <2>1, <2>4
    <3>2. Written(s, l, t, legs[l][t]) = legs[l][t]
      BY <3>1 DEF Written
    <3>3. x.value = s.copy[l][t]
      BY <1>2, <2>4 DEF Changes
    <3> QED BY <1>1, <2>2, <3>2, <3>3
  <2> QED BY <2>3, <2>4
<1>3. (\A x \in RowsOf(s.rows) : ~(x.leg = l /\ x.type = t)) => legs'[l][t] = legs[l][t]
  BY <1>1 DEF Written
<1> QED BY <1>2, <1>3

\* After the commit every column with a row shows it, and it is the latest.
LEMMA CommitShowsLatest ==
    ASSUME NEW s \in EtaSession, GoodRows(hist), GoodRows(hist \cup RowsOf(s.rows)),
           RowsFollow(s, hist, legs), LegsShowLatest(legs, hist),
           legs' = [l \in Legs |-> [t \in Types |-> Written(s, l, t, legs[l][t])]]
    PROVE  LegsShowLatest(legs', hist \cup RowsOf(s.rows))
<1> DEFINE R == RowsOf(s.rows)
           S == hist \cup R
<1> SUFFICES ASSUME NEW l \in Legs, NEW t \in Types, NEW x \in S,
                    x.leg = l, x.type = t, x.version = Latest(S, l, t)
             PROVE  x.value = legs'[l][t]
  BY DEF LegsShowLatest
<1>1. /\ \A v \in R : v.leg = l /\ v.type = t => legs'[l][t] = v.value
      /\ (\A v \in R : ~(v.leg = l /\ v.type = t)) => legs'[l][t] = legs[l][t]
  BY RowsAreWritten
<1>2. \A v \in S : v.version \in Nat
  BY DEF GoodRows, Row
<1>3. \A v \in S : v.leg = l /\ v.type = t => v.version <= x.version
  <2>1. GoodRows(S)
    OBVIOUS
  <2> HIDE DEF S
  <2> QED BY <2>1, LatestFacts
<1>4. CASE \E y \in R : y.leg = l /\ y.type = t
  <2>1. PICK y \in R : y.leg = l /\ y.type = t
    BY <1>4
  <2>2. y.version = Latest(hist, l, t) + 1 /\ \A v \in R : v.leg = l /\ v.type = t => v = y
    BY <2>1 DEF RowsFollow
  <2>3. Latest(hist, l, t) \in Nat /\ \A v \in hist : v.leg = l /\ v.type = t => v.version <= Latest(hist, l, t)
    BY LatestFacts
  <2>4. y.version <= x.version
    BY <1>3, <2>1
  <2>5. x \notin hist
    BY <1>2, <2>2, <2>3, <2>4
  <2>6. x = y
    BY <2>2, <2>5
  <2> QED BY <1>1, <2>1, <2>6
<1>5. CASE \A y \in R : ~(y.leg = l /\ y.type = t)
  <2>1. x \in hist /\ legs'[l][t] = legs[l][t]
    BY <1>1, <1>5
  <2>2. hist \subseteq S /\ \A v \in S : v.leg = l /\ v.type = t => v \in hist
    BY <1>5
  <2> HIDE DEF S
  <2>3. Latest(S, l, t) = Latest(hist, l, t)
    BY <2>2, LatestWithout
  <2> QED BY <2>1, <2>3 DEF LegsShowLatest
<1> QED BY <1>4, <1>5

LEMMA SerialCommit ==
    ASSUME EtaInv, EtaSerialInv, NEW r \in Updaters, Commit(r) PROVE EtaSerialInv'
<1> DEFINE s == update[r]
<1>1. /\ s.pc = "evaluated" /\ hist' = hist \cup RowsOf(s.rows)
      /\ legs' = [l \in Legs |-> [t \in Types |-> Written(s, l, t, legs[l][t])]]
      /\ update' = [update EXCEPT ![r] = NoUpdate] /\ overlapped' = overlapped
  BY DEF Commit
<1> SUFFICES ASSUME ~overlapped
             PROVE  /\ \A p, q \in Updaters : update'[p].pc # "idle" /\ update'[q].pc # "idle" => p = q
                    /\ LegsShowLatest(legs', hist')
                    /\ \A q \in Updaters : UpdateIsSerial(update'[q], hist', legs')
  BY <1>1 DEF EtaSerialInv
<1>2. EtaTypeOK /\ s \in EtaSession /\ UpdateIsSound(s, hist, notified) /\ GoodRows(hist)
  BY DEF EtaInv, EtaTypeOK
<1>3. (\A q \in Updaters \ {r} : update[q].pc = "idle") /\ UpdateIsSerial(s, hist, legs)
  BY <1>1, <1>2, EtaGoesOnAlone
<1>4. \A q \in Updaters : update'[q] = IF q = r THEN NoUpdate ELSE update[q]
  BY <1>1, <1>2 DEF EtaTypeOK
<1>5. \A q \in Updaters : update'[q].pc = "idle"
  BY <1>3, <1>4, NoUpdateFacts
<1>6. \A q \in Updaters : UpdateIsSerial(update'[q], hist', legs')
  BY <1>5, IdleIsSerial
<1>7. GoodRows(hist \cup RowsOf(s.rows)) /\ RowsFollow(s, hist, legs) /\ LegsShowLatest(legs, hist)
  BY <1>1, <1>2, <1>3 DEF UpdateIsSound, UpdateIsSerial, EtaSerialInv
<1> HIDE DEF s
<1>8. LegsShowLatest(legs', hist \cup RowsOf(s.rows))
  BY <1>1, <1>2, <1>7, CommitShowsLatest
<1> QED BY <1>1, <1>5, <1>6, <1>8

LEMMA EtaSerialNext == EtaInv /\ EtaSerialInv /\ [EtaNext]_etaVars => EtaSerialInv'
<1> SUFFICES ASSUME EtaInv, EtaSerialInv, [EtaNext]_etaVars PROVE EtaSerialInv'
  OBVIOUS
<1>1. CASE UNCHANGED etaVars
  BY <1>1 DEF etaVars, EtaSerialInv
<1>2. CASE EtaNext
  <2>1. PICK r \in Updaters :
          \/ \E u \in Updates : LoadLeg(r, [leg |-> u.leg, type |-> u.type, value |-> u.value], u.firm)
          \/ NumberFirst(r) \/ FlushFirst(r) \/ CascadeRow(r) \/ EvaluateDeviations(r)
          \/ Commit(r) \/ DropUpdate(r)
    BY <1>2 DEF EtaNext
  <2>2. ASSUME NEW u \in Updates, LoadLeg(r, [leg |-> u.leg, type |-> u.type, value |-> u.value], u.firm)
        PROVE  EtaSerialInv'
    <3> DEFINE x == [leg |-> u.leg, type |-> u.type, value |-> u.value]
    <3>1. x \in Item /\ u.firm \in BOOLEAN /\ LoadLeg(r, x, u.firm)
      BY <2>2, EtaAssumption DEF Item
    <3> HIDE DEF x
    <3> QED BY <3>1, SerialLoad
  <2> QED BY <2>1, <2>2, SerialNumber, SerialFlush, SerialCascade, SerialEvaluate, SerialCommit, SerialDrop
<1> QED BY <1>1, <1>2

LEMMA EtaSerialInvariance == EtaSpec => [](EtaInv /\ EtaSerialInv)
<1>1. EtaInit => EtaInv /\ EtaSerialInv
  BY EtaInitInv, EtaSerialInit
<1>2. (EtaInv /\ EtaSerialInv) /\ [EtaNext]_etaVars => (EtaInv /\ EtaSerialInv)'
  BY EtaNextInv, EtaSerialNext
<1> QED BY <1>1, <1>2, PTL DEF EtaSpec

\* record_version: the versions of a leg are numbered without a gap whatever the
\* interleaving, and a leg shows the latest while requests do not overlap.
THEOREM VersionsStayDense == EtaSpec => []EstimatesAreVersioned
<1>1. EtaInv /\ EtaSerialInv => EstimatesAreVersioned
  <2> SUFFICES ASSUME EtaInv, EtaSerialInv, NEW l \in Legs, NEW t \in Types
               PROVE  /\ \A n \in Versions(hist, l, t) : \A m \in 1 .. n : m \in Versions(hist, l, t)
                      /\ ~overlapped /\ Versions(hist, l, t) # {} => ShowsLatest(l, t)
    BY DEF EstimatesAreVersioned
  <2>1. GoodRows(hist) /\ Dense(hist)
    BY DEF EtaInv
  <2>2. ASSUME NEW n \in Versions(hist, l, t), NEW m \in 1 .. n PROVE m \in Versions(hist, l, t)
    <3>1. PICK h \in hist : h.leg = l /\ h.type = t /\ h.version = n
      BY <2>2 DEF Versions
    <3>2. PICK g \in hist : g.leg = h.leg /\ g.type = h.type /\ g.version = m
      BY <2>1, <2>2, <3>1 DEF Dense
    <3> QED BY <3>1, <3>2 DEF Versions
  <2>3. ASSUME ~overlapped, Versions(hist, l, t) # {} PROVE ShowsLatest(l, t)
    <3>1. PICK h \in hist : h.leg = l /\ h.type = t
      BY <2>3 DEF Versions
    <3>2. h.version \in Nat /\ h.version >= 1
      BY <2>1 DEF GoodRows, Row
    <3>3. /\ Latest(hist, l, t) \in Nat /\ h.version <= Latest(hist, l, t)
          /\ Latest(hist, l, t) > 0 =>
               \E g \in hist : g.leg = l /\ g.type = t /\ g.version = Latest(hist, l, t)
      BY <2>1, <3>1, LatestFacts
    <3>4. PICK g \in hist : g.leg = l /\ g.type = t /\ g.version = Latest(hist, l, t)
      BY <3>2, <3>3
    <3>5. LegsShowLatest(legs, hist)
      BY <2>3 DEF EtaSerialInv
    <3>6. g.value = legs[l][t]
      BY <3>4, <3>5 DEF LegsShowLatest
    <3> QED BY <3>4, <3>6 DEF ShowsLatest
  <2> QED BY <2>2, <2>3
<1> QED BY <1>1, EtaSerialInvariance, PTL

\* What the commit of a new ETA does to a leg that came after another.
LEMMA CascadeMovesLeg ==
    ASSUME NEW s \in EtaSession, legs \in Estimates, s.rows # <<>>,
           RowsFollow(s, hist, legs), RowsChain(s), s.copy = legs, s.place \in ByCreatedAt,
           \A m \in Legs : s.place[m] <= s.place[LastRow(s).leg], LastRow(s).type = "ETA",
           legs' = [l \in Legs |-> [t \in Types |-> Written(s, l, t, legs[l][t])]],
           NEW k \in Legs, NEW l \in Legs,
           s.place[s.first.leg] <= s.place[k], s.place[l] = s.place[k] + 1
    PROVE  /\ legs'[l]["ETD"] >= legs'[k]["ETA"] + Connection
           /\ legs'[l]["ETD"] >= legs[l]["ETD"]
           /\ None # legs[l]["ETD"] /\ legs[l]["ETD"] < legs[l]["ETA"]
              => legs'[l]["ETA"] - legs'[l]["ETD"] = legs[l]["ETA"] - legs[l]["ETD"]
<1> DEFINE R == RowsOf(s.rows)
           p == s.place
<1>1. s.first.leg \in Legs /\ R \subseteq Row
  BY SessionTypes
<1>2. p[s.first.leg] <= p[l] /\ p[l] <= p[LastRow(s).leg] /\ l # s.first.leg
  <2>1. p \in [Legs -> Legs] /\ Legs \subseteq Nat
    <3>1. Legs \subseteq Nat
      BY DEF Legs
    <3> QED BY <3>1, PlacesDiffer
  <2>2. p[s.first.leg] \in Nat /\ p[k] \in Nat
    BY <1>1, <2>1
  <2> QED BY <2>2
<1>3. PICK a \in R : a.leg = l /\ a.type = "ETA"
  BY <1>2 DEF RowsChain
<1>4. PICK d \in R : d.leg = l /\ d.type = "ETD" /\ a.value = d.value + Transit(legs[l])
  BY <1>2, <1>3 DEF RowsChain
<1>5. PICK b \in R : b.leg = k /\ b.type = "ETA" /\ d.value = Departure(legs[l], b.value)
  <2>1. PICK b \in R : p[l] = p[b.leg] + 1 /\ b.type = "ETA" /\ d.value = Departure(legs[l], b.value)
    BY <1>4 DEF RowsChain
  <2>2. b.leg \in Legs
    BY <1>1 DEF Row
  <2>3. p \in [Legs -> Legs] /\ Legs \subseteq Nat /\ \A i, j \in Legs : p[i] = p[j] => i = j
    <3>1. Legs \subseteq Nat
      BY DEF Legs
    <3> QED BY <3>1, PlacesDiffer
  <2>4. p[k] \in Nat /\ p[b.leg] \in Nat /\ p[l] = p[k] + 1
    BY <2>2, <2>3
  <2>5. p[k] = p[b.leg]
    BY <2>1, <2>4
  <2>6. b.leg = k
    BY <2>2, <2>3, <2>5
  <2> QED BY <2>1, <2>6
<1>6. "ETA" \in Types /\ "ETD" \in Types
  BY DEF Types
<1>7. legs'[l]["ETA"] = a.value /\ legs'[l]["ETD"] = d.value /\ legs'[k]["ETA"] = b.value
  <2>1. legs'[l]["ETA"] = a.value
    BY <1>2, <1>3, <1>6, RowsAreWritten
  <2>2. legs'[l]["ETD"] = d.value
    BY <1>2, <1>4, <1>6, RowsAreWritten
  <2>3. legs'[k]["ETA"] = b.value
    BY <1>2, <1>5, <1>6, RowsAreWritten
  <2> QED BY <2>1, <2>2, <2>3
<1>8. a.value \in Nat /\ d.value \in Nat /\ b.value \in Nat
  BY <1>1 DEF Row
<1>9. legs[l]["ETD"] \in Nat \cup {None} /\ legs[l]["ETA"] \in Nat \cup {None}
  BY <1>2, <1>6 DEF Estimates
<1> HIDE DEF R
<1>10. d.value >= b.value + Connection /\ d.value >= legs[l]["ETD"]
  <2> DEFINE v == legs[l]["ETD"]
             e == b.value
  <2>1. v \in Nat \cup {None} /\ e \in Nat
    BY <1>8, <1>9
  <2>2. d.value = IF v = None \/ v < e + Connection THEN e + Connection ELSE v
    BY <1>5 DEF Departure
  <2> HIDE DEF v, e
  <2>3. d.value >= e + Connection /\ d.value >= v
    BY <2>1, <2>2, EtaAssumption DEF None
  <2> QED BY <2>3 DEF v, e
<1>11. ASSUME None # legs[l]["ETD"], legs[l]["ETD"] < legs[l]["ETA"]
       PROVE  a.value - d.value = legs[l]["ETA"] - legs[l]["ETD"]
  <2> DEFINE v == legs[l]["ETD"]
             e == legs[l]["ETA"]
  <2>1. v \in Nat \cup {None} /\ e \in Nat \cup {None} /\ None # v /\ v < e
    BY <1>9, <1>11
  <2>2. Transit(legs[l]) = IF e # None /\ v # None /\ e > v THEN e - v ELSE DefaultTransit
    BY DEF Transit
  <2> HIDE DEF v, e
  <2>3. v \in Nat /\ e \in Nat /\ e > v
    BY <2>1 DEF None
  <2>4. Transit(legs[l]) = e - v
    <3>1. e # None /\ v # None
      BY <2>3 DEF None
    <3> QED BY <2>2, <2>3, <3>1
  <2>5. a.value = d.value + (e - v)
    BY <1>4, <2>4
  <2>6. a.value - d.value = e - v
    BY <1>8, <2>3, <2>5
  <2> QED BY <2>6 DEF v, e
<1> QED BY <1>7, <1>10, <1>11

\* calculate_leg_cascade: while requests come one after the other, a new ETA keeps
\* the connections and the transit times of the legs that come after it.
THEOREM ConnectionsAreKept == EtaSpec => CascadeKeepsConnections
<1> DEFINE Kept ==
        \A r \in Updaters :
            update[r].pc = "evaluated" /\ update'[r].pc = "idle" /\ hist' # hist
               /\ update[r].first.type = "ETA" /\ ~overlapped
            => \A k, l \in Legs :
                 /\ update[r].place[update[r].first.leg] <= update[r].place[k]
                 /\ update[r].place[l] = update[r].place[k] + 1
                 => /\ legs'[l]["ETD"] >= legs'[k]["ETA"] + Connection
                    /\ legs'[l]["ETD"] >= legs[l]["ETD"]
                    /\ None # legs[l]["ETD"] /\ legs[l]["ETD"] < legs[l]["ETA"]
                       => legs'[l]["ETA"] - legs'[l]["ETD"] = legs[l]["ETA"] - legs[l]["ETD"]
<1>1. EtaInv /\ EtaSerialInv /\ [EtaNext]_etaVars => [Kept]_etaVars
  <2> SUFFICES ASSUME EtaInv, EtaSerialInv, EtaNext, NEW r \in Updaters,
                      update[r].pc = "evaluated", update'[r].pc = "idle", hist' # hist,
                      update[r].first.type = "ETA", ~overlapped,
                      NEW k \in Legs, NEW l \in Legs,
                      update[r].place[update[r].first.leg] <= update[r].place[k],
                      update[r].place[l] = update[r].place[k] + 1
               PROVE  /\ legs'[l]["ETD"] >= legs'[k]["ETA"] + Connection
                      /\ legs'[l]["ETD"] >= legs[l]["ETD"]
                      /\ None # legs[l]["ETD"] /\ legs[l]["ETD"] < legs[l]["ETA"]
                         => legs'[l]["ETA"] - legs'[l]["ETD"] = legs[l]["ETA"] - legs[l]["ETD"]
    OBVIOUS
  <2>1. PICK q \in Updaters : Commit(q)
    <3>1. PICK q \in Updaters :
            \/ \E u \in Updates : LoadLeg(q, [leg |-> u.leg, type |-> u.type, value |-> u.value], u.firm)
            \/ NumberFirst(q) \/ FlushFirst(q) \/ CascadeRow(q) \/ EvaluateDeviations(q)
            \/ Commit(q) \/ DropUpdate(q)
      BY DEF EtaNext
    <3>2. ~\E u \in Updates : LoadLeg(q, [leg |-> u.leg, type |-> u.type, value |-> u.value], u.firm)
      BY DEF LoadLeg
    <3>3. ~NumberFirst(q) /\ ~FlushFirst(q) /\ ~CascadeRow(q) /\ ~EvaluateDeviations(q) /\ ~DropUpdate(q)
      BY DEF NumberFirst, FlushFirst, CascadeRow, EvaluateDeviations, DropUpdate
    <3> QED BY <3>1, <3>2, <3>3
  <2> DEFINE s == update[r]
  <2>2. EtaTypeOK /\ s \in EtaSession /\ legs \in Estimates /\ UpdateIsSound(s, hist, notified)
    BY DEF EtaInv, EtaTypeOK
  <2>3. q = r
    <3>1. update' = [update EXCEPT ![q] = NoUpdate]
      BY <2>1 DEF Commit
    <3> QED BY <2>2, <3>1 DEF EtaTypeOK
  <2>4. legs' = [m \in Legs |-> [t \in Types |-> Written(s, m, t, legs[m][t])]]
    BY <2>1, <2>3 DEF Commit
  <2>5. UpdateIsSerial(s, hist, legs)
    BY DEF EtaSerialInv
  <2>6. /\ s.pc = "evaluated" /\ s.first.type = "ETA"
        /\ s.place[s.first.leg] <= s.place[k] /\ s.place[l] = s.place[k] + 1
    OBVIOUS
  <2> HIDE DEF s
  <2>7. /\ RowsFollow(s, hist, legs) /\ RowsChain(s) /\ s.copy = legs
        /\ LastRow(s).type = "ETA" /\ \A m \in Legs : s.place[m] <= s.place[LastRow(s).leg]
    BY <2>5, <2>6 DEF UpdateIsSerial
  <2>8. s.rows # <<>> /\ s.place \in ByCreatedAt
    BY <2>2, <2>6 DEF UpdateIsSound
  <2> QED BY <2>2, <2>4, <2>6, <2>7, <2>8, CascadeMovesLeg
<1> QED BY <1>1, EtaSerialInvariance, PTL DEF EtaSpec, CascadeKeepsConnections
=============================================================================
