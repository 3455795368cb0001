-------------------------------- MODULE Rates -------------------------------
(***************************************************************************)
(* Freight rates: creation, the approval life cycle, versions               *)
(* (app/modules/commercial/repository.py behind                            *)
(* app/api/v1/endpoints/commercial_rates.py) and the nightly Celery task    *)
(* expire_commercial_rates (app/workers/celery_app.py).                    *)
(*                                                                         *)
(* transition_rate and create_rate_version read the rate with SELECT ... FOR *)
(* UPDATE and hold its row until they end.  The task selects the overdue     *)
(* rates without a lock; its UPDATE waits for the rows and then overwrites   *)
(* whatever status they have by then.                                      *)
(***************************************************************************)
EXTENDS Integers, FiniteSets

CONSTANTS
    RateIds,
    ExpiryDate,     \* expiry_date of each rate, as a day number
    LastDay,        \* bound on the calendar
    MaxVersions,    \* bound on the versions of one rate
    MaxCrashes,     \* bound on runs of the task that die
    Requests        \* HTTP requests that may be in flight together

ASSUME RatesAssumption ==
    /\ ExpiryDate \in [RateIds -> Nat]
    /\ LastDay \in Nat /\ MaxVersions \in Nat /\ MaxCrashes \in Nat
    /\ "none" \notin RateIds

VARIABLES
    today,
    rate,           \* rates.status, "NONE" for no row
    versions,       \* highest version_number of the rate
    batch,          \* rates the running task has loaded
    taken,          \* those of them whose row its UPDATE holds
    crashes,
    req             \* the requests' sessions

vars == <<today, rate, versions, batch, taken, crashes, req>>

RateStatus == {"DRAFT", "PENDING_APPROVAL", "APPROVED", "ACTIVE", "EXPIRED", "SUPERSEDED", "CANCELLED"}

Session == [op : {"idle", "transition", "version", "insert"}, rt : RateIds \cup {"none"},
            to : RateStatus \cup {"NONE"}, number : Nat]
Idle == [op |-> "idle", rt |-> "none", to |-> "NONE", number |-> 0]

Init ==
    /\ today = 0
    /\ rate = [rt \in RateIds |-> "NONE"]
    /\ versions = [rt \in RateIds |-> 0]
    /\ batch = {} /\ taken = {} /\ crashes = 0
    /\ req = [r \in Requests |-> Idle]

task == <<batch, taken, crashes>>
table == <<today, rate, versions, task>>

-----------------------------------------------------------------------------
(* create_rate, transition_rate, create_rate_version                        *)

CreateRate(r, rt) ==
    /\ req[r].op = "idle"
    /\ rate[rt] = "NONE"
    /\ rate' = [rate EXCEPT ![rt] = "DRAFT"]
    /\ UNCHANGED <<today, versions, task, req>>

\* The map of transition_rate.
Allowed ==
    {<<"DRAFT", "PENDING_APPROVAL">>, <<"DRAFT", "CANCELLED">>,
     <<"PENDING_APPROVAL", "APPROVED">>, <<"PENDING_APPROVAL", "DRAFT">>, <<"PENDING_APPROVAL", "CANCELLED">>,
     <<"APPROVED", "ACTIVE">>, <<"APPROVED", "CANCELLED">>,
     <<"ACTIVE", "EXPIRED">>, <<"ACTIVE", "SUPERSEDED">>, <<"ACTIVE", "CANCELLED">>,
     <<"EXPIRED", "SUPERSEDED">>, <<"EXPIRED", "CANCELLED">>}

RowNeedsNoLock(rt) == TRUE

\* with_for_update waits for the session that holds the row.
RowIsFree(rt) == rt \notin taken /\ \A q \in Requests : req[q].rt # rt

LockForTransition(r, rt, to) ==
    /\ req[r].op = "idle"
    /\ RowIsFree(rt)
    /\ <<rate[rt], to>> \in Allowed
    /\ req' = [req EXCEPT ![r] = [Idle EXCEPT !.op = "transition", !.rt = rt, !.to = to]]
    /\ UNCHANGED table

CommitTransition(r) ==
    /\ req[r].op = "transition"
    /\ rate' = [rate EXCEPT ![req[r].rt] = req[r].to]
    /\ req' = [req EXCEPT ![r] = Idle]
    /\ UNCHANGED <<today, versions, task>>

LockForVersion(r, rt) ==
    /\ req[r].op = "idle"
    /\ rate[rt] # "NONE"
    /\ RowIsFree(rt)
    /\ versions[rt] < MaxVersions
    /\ req' = [req EXCEPT ![r] = [Idle EXCEPT !.op = "version", !.rt = rt]]
    /\ UNCHANGED table

\* coalesce(max(version_number), 0) + 1
NextNumber(rt) == versions[rt] + 1

InsertVersion(r) ==
    /\ req[r].op = "version"
    /\ req' = [req EXCEPT ![r].op = "insert", ![r].number = NextNumber(req[r].rt)]
    /\ UNCHANGED table

CommitVersion(r) ==
    /\ req[r].op = "insert"
    /\ versions' = [versions EXCEPT ![req[r].rt] = req[r].number]
    /\ req' = [req EXCEPT ![r] = Idle]
    /\ UNCHANGED <<today, rate, task>>

Rollback(r) ==
    /\ req[r].op # "idle"
    /\ req' = [req EXCEPT ![r] = Idle]
    /\ UNCHANGED table

-----------------------------------------------------------------------------
(* expire_commercial_rates                                                  *)

OverdueWhenActive == {rt \in RateIds : rate[rt] = "ACTIVE" /\ ExpiryDate[rt] < today}

Overdue == {rt \in RateIds : rate[rt] \in {"ACTIVE", "APPROVED"} /\ ExpiryDate[rt] < today}

LoadOverdue ==
    /\ batch = {} /\ Overdue # {}
    /\ batch' = Overdue
    /\ UNCHANGED <<today, rate, versions, taken, crashes, req>>

\* The UPDATE of one rate waits for its row and keeps it until the task ends.
TakeRow(rt) ==
    /\ rt \in batch /\ RowIsFree(rt)
    /\ taken' = taken \cup {rt}
    /\ UNCHANGED <<today, rate, versions, batch, crashes, req>>

ExpiredStatus == "EXPIRED"

CommitExpiry ==
    /\ batch # {} /\ taken = batch
    /\ rate' = [rt \in RateIds |-> IF rt \in batch THEN ExpiredStatus ELSE rate[rt]]
    /\ batch' = {} /\ taken' = {}
    /\ UNCHANGED <<today, versions, crashes, req>>

TaskDies ==
    /\ batch # {} /\ crashes < MaxCrashes
    /\ batch' = {} /\ taken' = {} /\ crashes' = crashes + 1
    /\ UNCHANGED <<today, rate, versions, req>>

NextDay ==
    /\ today < LastDay
    /\ today' = today + 1
    /\ UNCHANGED <<rate, versions, task, req>>

Finish(r) == InsertVersion(r) \/ CommitVersion(r) \/ CommitTransition(r)

Next ==
    \/ \E r \in Requests :
        \/ \E rt \in RateIds :
            \/ CreateRate(r, rt) \/ LockForVersion(r, rt)
            \/ \E to \in RateStatus : LockForTransition(r, rt, to)
        \/ Finish(r) \/ Rollback(r)
    \/ \E rt \in RateIds : TakeRow(rt)
    \/ LoadOverdue \/ CommitExpiry \/ TaskDies \/ NextDay

Spec == Init /\ [][Next]_vars

\* A request that holds a row ends, and the task, which runs every night, gets
\* the rows it waits for: PostgreSQL grants row locks in the order of arrival.
FairSpec ==
    /\ Spec
    /\ \A r \in Requests : WF_vars(Finish(r) \/ Rollback(r))
    /\ \A rt \in RateIds : SF_vars(TakeRow(rt))
    /\ WF_vars(LoadOverdue) /\ WF_vars(CommitExpiry)

-----------------------------------------------------------------------------
(* Properties                                                              *)

\* The tables, the task's batch and the sessions have their types.
TypeOK ==
    /\ today \in Nat
    /\ rate \in [RateIds -> RateStatus \cup {"NONE"}]
    /\ versions \in [RateIds -> Nat]
    /\ batch \subseteq RateIds /\ taken \subseteq batch
    /\ crashes \in Nat
    /\ req \in [Requests -> Session]

\* "Lock parent rate row to prevent concurrent version collisions": however
\* requests interleave, the number a session is about to insert is the next one
\* of its rate, and no two sessions have the same.
VersionsNeverCollide ==
    \A r \in Requests : req[r].op = "insert" =>
        /\ req[r].number = versions[req[r].rt] + 1
        /\ \A q \in Requests : q # r /\ req[q].op = "insert" => req[q].rt # req[r].rt

\* However requests and the task interleave: a rate changes only along the map
\* of transition_rate, or to EXPIRED when the task had seen it overdue.
ChangesFollowMap ==
    [][\A rt \in RateIds : rate'[rt] # rate[rt] =>
          \/ rate[rt] = "NONE" /\ rate'[rt] = "DRAFT"
          \/ <<rate[rt], rate'[rt]>> \in Allowed
          \/ rt \in batch /\ rate'[rt] = "EXPIRED"]_vars

\* A rate past its expiry date does not stay in use.
OverdueRatesExpire ==
    \A rt \in RateIds :
        (rate[rt] \in {"ACTIVE", "APPROVED"} /\ ExpiryDate[rt] < today) ~> (rate[rt] \notin {"ACTIVE", "APPROVED"})
=============================================================================
