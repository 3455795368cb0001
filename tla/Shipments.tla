----------------------------- MODULE Shipments ------------------------------
(***************************************************************************)
(* Shipments and the workflow engine that moves them                       *)
(* (app/modules/shipments/service.py, app/modules/workflow/service.py and   *)
(* their endpoints).  A shipment comes into being by POST /shipments or by  *)
(* the acceptance of a quotation, and is moved by                          *)
(*   POST /shipments/{id}/transition            the shipment and its        *)
(*                                             workflow instance, or       *)
(*   POST /workflow-instances/{id}/transitions  the instance alone.         *)
(*                                                                         *)
(* A request loads its rows without a lock and writes them back, with the   *)
(* history row, in the endpoint's commit.                                  *)
(***************************************************************************)
EXTENDS Integers, Sequences, FiniteSets

CONSTANTS
    ShipmentIds,
    Requests,       \* HTTP requests that may be in flight together
    Users,          \* permission sets users may hold
    MaxHistory      \* bound on the transitions of one shipment

States == {"DRAFT", "SUBMITTED", "APPROVED", "BOOKED", "DEPARTED", "ARRIVED", "DELIVERED", "CLOSED"}

\* _ensure_demo_workflow: the one path through the states and the permission
\* each transition asks for.
Transitions ==
    {<<"DRAFT", "SUBMITTED">>, <<"SUBMITTED", "APPROVED">>, <<"APPROVED", "BOOKED">>,
     <<"BOOKED", "DEPARTED">>, <<"DEPARTED", "ARRIVED">>, <<"ARRIVED", "DELIVERED">>,
     <<"DELIVERED", "CLOSED">>}
RequiredPermission(from) == IF from = "DRAFT" THEN "shipment:create" ELSE "shipment:transition"

ASSUME ShipmentsAssumption ==
    /\ Users \subseteq SUBSET {"shipment:create", "shipment:transition"}
    /\ MaxHistory \in Nat
    /\ "none" \notin ShipmentIds

VARIABLES
    status,         \* shipments.status, "NONE" for no row
    instance,       \* workflow_instances: state and version, "NONE" for no row
    history,        \* workflow_transition_history, in commit order
    machine,        \* the tenant's state machine has been set up
    req,            \* the requests' sessions
    crossed         \* history: shipments two requests have worked on at once

vars == <<status, instance, history, machine, req, crossed>>

InstanceRow == [state : States \cup {"NONE"}, version : Nat]
NoInstance == [state |-> "NONE", version |-> 0]
Session == [op : {"idle", "create", "loaded", "shipment", "workflow"}, s : ShipmentIds \cup {"none"},
            seen : States \cup {"NONE"}, row : InstanceRow, to : States \cup {"NONE"}, sawMachine : BOOLEAN]
Idle == [op |-> "idle", s |-> "none", seen |-> "NONE", row |-> NoInstance, to |-> "NONE", sawMachine |-> FALSE]

Init ==
    /\ status = [s \in ShipmentIds |-> "NONE"]
    /\ instance = [s \in ShipmentIds |-> NoInstance]
    /\ history = [s \in ShipmentIds |-> <<>>]
    /\ machine = FALSE
    /\ req = [r \in Requests |-> Idle]
    /\ crossed = {}

db == <<status, instance, history, machine>>

\* A request that begins on shipment s while another is in flight on it.
Meets(s) == crossed' = IF \E q \in Requests : req[q].s = s THEN crossed \cup {s} ELSE crossed

-----------------------------------------------------------------------------
(* create_shipment                                                          *)

StartCreate(r, s, user) ==
    /\ req[r].op = "idle"
    /\ "shipment:create" \in user
    /\ status[s] = "NONE" /\ \A q \in Requests : req[q].s # s
    /\ req' = [req EXCEPT ![r] = [Idle EXCEPT !.op = "create", !.s = s, !.sawMachine = machine]]
    /\ UNCHANGED <<db, crossed>>

\* The unique (tenant, code) fails the second of two requests that both set up
\* the machine.
CommitCreate(r) ==
    LET s == req[r].s
    IN  /\ req[r].op = "create"
        /\ req[r].sawMachine = machine
        /\ machine' = TRUE
        /\ status' = [status EXCEPT ![s] = "DRAFT"]
        /\ instance' = [instance EXCEPT ![s] = [state |-> "DRAFT", version |-> 1]]
        /\ req' = [req EXCEPT ![r] = Idle]
        /\ UNCHANGED <<history, crossed>>

\* accept_quotation inserts its shipment as BOOKED, and no workflow instance.
BookFromQuotation(r, s) ==
    /\ req[r].op = "idle"
    /\ status[s] = "NONE" /\ \A q \in Requests : req[q].s # s
    /\ status' = [status EXCEPT ![s] = "BOOKED"]
    /\ UNCHANGED <<instance, history, machine, req, crossed>>

-----------------------------------------------------------------------------
(* ShipmentService.transition and WorkflowService.transition                *)

AllowsUnlessClosed(from, to) == from # "CLOSED" /\ to # from /\ to # "DRAFT"

Allows(from, to) == <<from, to>> \in Transitions

Permits(from, user) == RequiredPermission(from) \in user

\* ShipmentService reads the shipment first.
LoadShipment(r, s) ==
    /\ req[r].op = "idle"
    /\ status[s] # "NONE"
    /\ req' = [req EXCEPT ![r] = [Idle EXCEPT !.op = "loaded", !.s = s, !.seen = status[s]]]
    /\ Meets(s)
    /\ UNCHANGED db

\* The instance is read and every check is made on that copy.
Checked(r, s, to, user, channel, seen) ==
    /\ "shipment:transition" \in user
    /\ instance[s] # NoInstance
    /\ Allows(instance[s].state, to)
    /\ Permits(instance[s].state, user)
    /\ req' = [req EXCEPT ![r] = [Idle EXCEPT !.op = channel, !.s = s, !.seen = seen,
                                              !.row = instance[s], !.to = to]]
    /\ UNCHANGED db

LoadInstance(r, to, user) ==
    /\ req[r].op = "loaded"
    /\ Checked(r, req[r].s, to, user, "shipment", req[r].seen)
    /\ UNCHANGED crossed

LoadInstanceAlone(r, s, to, user) ==
    /\ req[r].op = "idle"
    /\ Checked(r, s, to, user, "workflow", "NONE")
    /\ Meets(s)

NextVersionUnchanged(row) == row.version

\* instance.version += 1 on the copy that was loaded.
NextVersion(row) == row.version + 1

StatusKept(session) == status[session.s]

\* Only the shipment endpoint writes shipments.status, and its UPDATE leaves the
\* column out when the status it read was already the target.
StatusAfter(session) ==
    IF session.op = "shipment" /\ session.to # session.seen THEN session.to ELSE status[session.s]

CommitTransition(r) ==
    LET s == req[r].s
    IN  /\ req[r].op \in {"shipment", "workflow"}
        /\ Len(history[s]) < MaxHistory
        /\ instance' = [instance EXCEPT ![s] = [state |-> req[r].to, version |-> NextVersion(req[r].row)]]
        /\ status' = [status EXCEPT ![s] = StatusAfter(req[r])]
        /\ history' = [history EXCEPT ![s] = Append(@, <<req[r].row.state, req[r].to>>)]
        /\ req' = [req EXCEPT ![r] = Idle]
        /\ UNCHANGED <<machine, crossed>>

Rollback(r) ==
    /\ req[r].op # "idle"
    /\ req' = [req EXCEPT ![r] = Idle]
    /\ UNCHANGED <<db, crossed>>

Next ==
    \E r \in Requests :
        \/ \E s \in ShipmentIds :
             \/ \E user \in Users : StartCreate(r, s, user)
             \/ BookFromQuotation(r, s)
             \/ LoadShipment(r, s)
             \/ \E to \in States, user \in Users : LoadInstanceAlone(r, s, to, user)
        \/ \E to \in States, user \in Users : LoadInstance(r, to, user)
        \/ CommitCreate(r) \/ CommitTransition(r) \/ Rollback(r)

Spec == Init /\ [][Next]_vars

-----------------------------------------------------------------------------
(* Properties                                                              *)

\* Rows and sessions have their types.
TypeOK ==
    /\ status \in [ShipmentIds -> States \cup {"NONE"}]
    /\ instance \in [ShipmentIds -> InstanceRow]
    /\ history \in [ShipmentIds -> Seq(States \X States)]
    /\ machine \in BOOLEAN
    /\ req \in [Requests -> Session]
    /\ crossed \subseteq ShipmentIds

Last(h) == h[Len(h)]

\* However transitions interleave: each history row is a transition of the
\* machine, and the instance is where the last committed one put it.
HistoryExplainsState ==
    \A s \in ShipmentIds :
        /\ \A k \in DOMAIN history[s] : history[s][k] \in Transitions
        /\ history[s] # <<>> => instance[s].state = Last(history[s])[2]

\* A shipment whose requests come one at a time: its history is a path from
\* DRAFT to the instance's state, and version counts the steps.
HistoryIsPath ==
    \A s \in ShipmentIds \ crossed : instance[s] # NoInstance =>
        /\ instance[s].version = 1 + Len(history[s])
        /\ \A k \in DOMAIN history[s] :
              history[s][k][1] = IF k = 1 THEN "DRAFT" ELSE history[s][k - 1][2]

\* A transition through the shipment endpoint leaves shipments.status in the
\* instance's state, also after the workflow endpoint has moved the instance
\* alone, provided the requests on that shipment come one at a time.
TransitionSyncsStatus ==
    [][\A r \in Requests : \A s \in ShipmentIds \ crossed :
          req[r].op = "shipment" /\ req[r].s = s /\ history'[s] # history[s] =>
              status'[s] = instance'[s].state]_vars
=============================================================================
