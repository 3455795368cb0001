-------------------------------- MODULE Eta ---------------------------------
(***************************************************************************)
(* The estimates of the legs of one shipment: EtaService.record_version     *)
(* (app/modules/eta/service.py), the cascade over the later legs and the    *)
(* deviation alerts.  A leg keeps its current ETD and ETA, eta_history      *)
(* every version of them.  No SELECT takes a lock and eta_history has no    *)
(* unique key; the UPDATE of a leg keeps its row until the commit.          *)
(*                                                                         *)
(* A request writes a row at a time: before each row the SELECT for its     *)
(* version number flushes the row before it.                               *)
(***************************************************************************)
EXTENDS Integers, Sequences, Functions

CONSTANTS
    Updaters,       \* HTTP requests that may be in flight together
    LastLeg,        \* the legs are 1 .. LastLeg
    CreatedAt,      \* the rank of a leg's created_at; legs of one transaction share it
    Plans,          \* estimates the legs may have before the first request
    Updates,        \* estimates users record, with has_firm_delivery_commitment
    Connection,     \* min_connection_hours
    DefaultTransit, \* transit time of a leg without usable estimates
    SlipLimit,      \* a longer slip is told to the customer
    MaxVersion      \* bound on version numbers

VARIABLES
    legs,           \* shipment_legs: the current estimates
    hist,           \* eta_history; rows alike are one
    notified,       \* customer.notification events in the outbox
    update,         \* the requests' sessions
    overlapped      \* history: whether two requests have been in flight together

etaVars == <<legs, hist, notified, update, overlapped>>

Legs == 1 .. LastLeg
Types == {"ETD", "ETA"}
None == -1                      \* NULL
Estimates == [Legs -> [Types -> Nat \cup {None}]]
Row == [leg : Legs, type : Types, version : Nat, value : Nat]
Item == [leg : Legs, type : Types, value : Nat]
Slip == [leg : Legs, plan : Nat, eta : Nat]

ASSUME EtaAssumption ==
    /\ LastLeg \in Nat \ {0}
    /\ CreatedAt \in [Legs -> Legs]
    /\ Plans \subseteq Estimates
    /\ Updates \subseteq [leg : Legs, type : Types, value : Nat, firm : BOOLEAN]
    /\ Connection \in Nat /\ DefaultTransit \in Nat /\ SlipLimit \in Nat /\ MaxVersion \in Nat

\* A session: the legs as it loaded them and the place each had among them, the
\* rows it has added, the leg rows it holds and the alerts it raises.
EtaSession == [pc : {"idle", "loaded", "numbered", "cascading", "evaluated"},
               first : Item, firm : BOOLEAN, copy : Estimates, place : [Legs -> Legs],
               rows : Seq(Row), holds : SUBSET Legs, alerts : SUBSET Slip]
NoItem == [leg |-> 1, type |-> "ETA", value |-> 0]
NoUpdate == [pc |-> "idle", first |-> NoItem, firm |-> FALSE,
             copy |-> [l \in Legs |-> [t \in Types |-> None]], place |-> [l \in Legs |-> l],
             rows |-> <<>>, holds |-> {}, alerts |-> {}]

EtaInit ==
    /\ legs \in Plans
    /\ hist = {}
    /\ notified = {}
    /\ update = [r \in Updaters |-> NoUpdate]
    /\ overlapped = FALSE

-----------------------------------------------------------------------------
(* calculate_leg_cascade                                                    *)

Transit(l) ==
    IF l["ETA"] # None /\ l["ETD"] # None /\ l["ETA"] > l["ETD"] THEN l["ETA"] - l["ETD"] ELSE DefaultTransit

DepartureAsPlanned(l, arrival) == IF l["ETD"] = None THEN arrival + Connection ELSE l["ETD"]

\* A leg leaves as planned unless its cargo arrives too late for that.
Departure(l, arrival) ==
    IF l["ETD"] = None \/ l["ETD"] < arrival + Connection THEN arrival + Connection ELSE l["ETD"]

\* calculate_leg_cascade, a row at a time: the arrival of a leg gives the
\* departure of the next one, and that its arrival.  Two rows for every later
\* leg, also where nothing changes; a new departure moves nothing else.
NextArrival(s, x) == [leg |-> x.leg, type |-> "ETA", value |-> x.value + Transit(s.copy[x.leg])]
NextDeparture(s, x, l) == [leg |-> l, type |-> "ETD", value |-> Departure(s.copy[l], x.value)]

LastRow(s) == s.rows[Len(s.rows)]

\* What the cascade adds after the last row, if anything: it goes on to the leg
\* in the next place.
Following(s) ==
    LET x == LastRow(s)
    IN  IF s.first.type = "ETD" THEN {}
        ELSE IF x.type = "ETD" THEN {NextArrival(s, x)}
        ELSE {NextDeparture(s, x, l) : l \in {m \in Legs : s.place[m] = s.place[x.leg] + 1}}

-----------------------------------------------------------------------------
(* evaluate_eta_deviations                                                  *)

Etas(rows, l) == {h \in rows : h.leg = l /\ h.type = "ETA"}

\* The first and the last version of a leg's ETA.  Rows with one number come
\* in any order, so either may be taken.
Ends(rows, l) ==
    {<<a, b>> : a \in {h \in Etas(rows, l) : \A g \in Etas(rows, l) : h.version <= g.version},
                b \in {h \in Etas(rows, l) : \A g \in Etas(rows, l) : g.version <= h.version}}

PublishOnFirm(slip, firm) == firm /\ slip > 0

\* publish_customer_notification
Publish(slip, firm) == slip > 0 /\ (firm \/ slip > SlipLimit)

Alert(e, firm) ==
    IF Publish(e[2].value - e[1].value, firm)
    THEN {[leg |-> e[1].leg, plan |-> e[1].value, eta |-> e[2].value]} ELSE {}

\* The alerts that may come of the rows: one choice of ends for each leg.
Deviations(rows, firm) ==
    LET ends == [l \in Legs |-> Ends(rows, l)]
    IN  {a \in SUBSET UNION {Alert(e, firm) : e \in UNION {ends[l] : l \in Legs}} :
           \A l \in Legs : ends[l] # {} => \E e \in ends[l] : {x \in a : x.leg = l} = Alert(e, firm)}

-----------------------------------------------------------------------------
(* record_version                                                           *)

RowsOf(rows) == {rows[i] : i \in DOMAIN rows}
Versions(rows, l, t) == {h.version : h \in {g \in rows : g.leg = l /\ g.type = t}}
Latest(rows, l, t) ==
    IF Versions(rows, l, t) = {} THEN 0
    ELSE CHOOSE n \in Versions(rows, l, t) : \A m \in Versions(rows, l, t) : m <= n

NextVersionOfLeg(s, x) ==
    LET rows == hist \cup RowsOf(s.rows)
    IN  1 + (IF Latest(rows, x.leg, "ETA") > Latest(rows, x.leg, "ETD")
             THEN Latest(rows, x.leg, "ETA") ELSE Latest(rows, x.leg, "ETD"))

\* The highest version the session sees: committed rows and its own.
NextEtaVersion(s, x) == Latest(hist \cup RowsOf(s.rows), x.leg, x.type) + 1
Numbered(s, x) == [leg |-> x.leg, type |-> x.type, version |-> NextEtaVersion(s, x), value |-> x.value]

\* Only a value other than the loaded one makes an UPDATE.
Changes(s, x) == x.value # s.copy[x.leg][x.type]
IsFree(r, l) == \A q \in Updaters \ {r} : l \notin update[q].holds

\* The flush of the row added last waits for the leg row it updates.
MayFlush(r) == Changes(update[r], LastRow(update[r])) => IsFree(r, LastRow(update[r]).leg)
Held(s) == s.holds \cup (IF Changes(s, LastRow(s)) THEN {LastRow(s).leg} ELSE {})

\* The leg is loaded.
LoadLeg(r, x, firm) ==
    /\ update[r].pc = "idle"
    /\ update' = [update EXCEPT ![r] = [NoUpdate EXCEPT !.pc = "loaded", !.first = x, !.firm = firm,
                                              !.copy[x.leg] = legs[x.leg]]]
    /\ overlapped' = (overlapped \/ \E q \in Updaters : update[q].pc # "idle")
    /\ UNCHANGED <<legs, hist, notified>>

\* Its next version is read and the row added.
NumberFirst(r) ==
    LET s == update[r]
    IN  /\ s.pc = "loaded"
        /\ NextEtaVersion(s, s.first) <= MaxVersion
        /\ update' = [update EXCEPT ![r].pc = "numbered", ![r].rows = <<Numbered(s, s.first)>>]
        /\ UNCHANGED <<legs, hist, notified, overlapped>>

InAnyOrder == Bijection(Legs, Legs)

\* The places ORDER BY created_at may give the legs: it has no second column, so
\* legs created together come in any order, not always in the same.
ByCreatedAt ==
    {p \in Bijection(Legs, Legs) : \A l, m \in Legs : CreatedAt[l] < CreatedAt[m] => p[l] < p[m]}

\* The flush.  A new ETA loads the other legs for the cascade.
FlushFirst(r) ==
    LET s == update[r]
        copy == [l \in Legs |-> IF l = s.first.leg THEN s.copy[l] ELSE legs[l]]
    IN  /\ s.pc = "numbered"
        /\ MayFlush(r)
        /\ \E p \in IF s.first.type = "ETA" THEN ByCreatedAt ELSE {s.place} :
             update' = [update EXCEPT ![r].pc = "cascading", ![r].holds = Held(s), ![r].place = p,
                                      ![r].copy = IF s.first.type = "ETA" THEN copy ELSE @]
        /\ UNCHANGED <<legs, hist, notified, overlapped>>

\* The next row of the cascade is numbered, after the one before is flushed.
CascadeRow(r) ==
    LET s == update[r]
    IN  /\ s.pc = "cascading"
        /\ MayFlush(r)
        /\ \E x \in Following(s) :
             /\ NextEtaVersion(s, x) <= MaxVersion
             /\ update' = [update EXCEPT ![r].holds = Held(s), ![r].rows = Append(@, Numbered(s, x))]
        /\ UNCHANGED <<legs, hist, notified, overlapped>>

\* The alerts compare the first with the latest version of every leg.
EvaluateDeviations(r) ==
    LET s == update[r]
    IN  /\ s.pc = "cascading"
        /\ Following(s) = {}
        /\ MayFlush(r)
        /\ \E alerts \in Deviations(hist \cup RowsOf(s.rows), s.firm) :
             update' = [update EXCEPT ![r].pc = "evaluated", ![r].holds = Held(s), ![r].alerts = alerts]
        /\ UNCHANGED <<legs, hist, notified, overlapped>>

\* What the session leaves of a column of a leg.
Written(s, l, t, current) ==
    IF \E x \in RowsOf(s.rows) : x.leg = l /\ x.type = t /\ Changes(s, x)
    THEN (CHOOSE x \in RowsOf(s.rows) : x.leg = l /\ x.type = t).value
    ELSE current

Commit(r) ==
    LET s == update[r]
    IN  /\ s.pc = "evaluated"
        /\ legs' = [l \in Legs |-> [t \in Types |-> Written(s, l, t, legs[l][t])]]
        /\ hist' = hist \cup RowsOf(s.rows)
        /\ notified' = notified \cup s.alerts
        /\ update' = [update EXCEPT ![r] = NoUpdate]
        /\ UNCHANGED overlapped

\* A validation error, a lost connection, a deadlock PostgreSQL broke up.
DropUpdate(r) ==
    /\ update[r].pc # "idle"
    /\ update' = [update EXCEPT ![r] = NoUpdate]
    /\ UNCHANGED <<legs, hist, notified, overlapped>>

EtaNext ==
    \E r \in Updaters :
        \/ \E u \in Updates : LoadLeg(r, [leg |-> u.leg, type |-> u.type, value |-> u.value], u.firm)
        \/ NumberFirst(r) \/ FlushFirst(r) \/ CascadeRow(r) \/ EvaluateDeviations(r)
        \/ Commit(r) \/ DropUpdate(r)

EtaSpec == EtaInit /\ [][EtaNext]_etaVars

-----------------------------------------------------------------------------
(* Properties                                                              *)

\* Rows and sessions have their types.
EtaTypeOK ==
    /\ legs \in Estimates
    /\ hist \subseteq Row
    /\ notified \subseteq Slip
    /\ update \in [Updaters -> EtaSession]
    /\ overlapped \in BOOLEAN

ShowsLatest(l, t) ==
    \E h \in hist : h.leg = l /\ h.type = t /\ h.version = Latest(hist, l, t) /\ h.value = legs[l][t]

\* The version numbers of a leg have no gap, however requests interleave; and as
\* long as they come one after the other, a leg with versions shows the latest.
EstimatesAreVersioned ==
    \A l \in Legs, t \in Types :
        /\ \A n \in Versions(hist, l, t) : \A m \in 1 .. n : m \in Versions(hist, l, t)
        /\ ~overlapped /\ Versions(hist, l, t) # {} => ShowsLatest(l, t)

Only(rows, n) == \A g, h \in rows : g.version = n /\ h.version = n => g = h

\* The customer has been told when the latest ETA of a leg is later than the
\* first by more than the limit, also where the cascade moved it and however
\* requests interleave, unless two rows share the first or the latest number.
SlipIsNotified ==
    \A l \in Legs : \A a, b \in Etas(hist, l) :
        /\ a.version = 1 /\ Only(Etas(hist, l), 1)
        /\ b.version = Latest(hist, l, "ETA") /\ Only(Etas(hist, l), b.version)
        /\ b.value - a.value > SlipLimit
        => [leg |-> l, plan |-> a.value, eta |-> b.value] \in notified

\* Request p has to update a leg row that q has updated and not committed.
WaitsFor(p, q) ==
    /\ p # q /\ update[p].pc \in {"numbered", "cascading"}
    /\ Changes(update[p], LastRow(update[p])) /\ LastRow(update[p]).leg \in update[q].holds

\* Requests wait for each other in a circle only where the legs two of them wait
\* for were created together: the cascade takes the rows in the order of
\* created_at, and only ties may come in different orders.
DeadlockNeedsTie ==
    \A W \in (SUBSET Updaters) \ {{}} :
        (\A p \in W : \E q \in W : WaitsFor(p, q)) =>
            \E p, q \in W : /\ WaitsFor(p, q)
                           /\ CreatedAt[LastRow(update[p]).leg] = CreatedAt[LastRow(update[q]).leg]

\* While requests come one after the other, a new ETA leaves every leg that came
\* after the changed one departing after the cargo has arrived on the leg before
\* and been moved, no earlier than it was to depart, and with the transit time it
\* had.
CascadeKeepsConnections ==
    [][\A r \in Updaters :
         update[r].pc = "evaluated" /\ update'[r].pc = "idle" /\ hist' # hist
            /\ update[r].first.type = "ETA" /\ ~overlapped
         => \A k, l \in Legs :
              /\ update[r].place[update[r].first.leg] <= update[r].place[k]
              /\ update[r].place[l] = update[r].place[k] + 1
              => /\ legs'[l]["ETD"] >= legs'[k]["ETA"] + Connection
                 /\ legs'[l]["ETD"] >= legs[l]["ETD"]
                 /\ None # legs[l]["ETD"] /\ legs[l]["ETD"] < legs[l]["ETA"]
                    => legs'[l]["ETA"] - legs'[l]["ETD"] = legs[l]["ETA"] - legs[l]["ETD"]]_etaVars
=============================================================================
