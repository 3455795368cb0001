------------------------------- MODULE Outbox -------------------------------
(***************************************************************************)
(* The transactional outbox: OutboxService.enqueue writes the event in the  *)
(* session of the business operation (app/modules/events/service.py), and   *)
(* the Celery task publish_outbox_events goes over PENDING rows every 30    *)
(* seconds (app/workers/celery_app.py).                                     *)
(*                                                                         *)
(* The task hands nothing to a broker: where an event would be published    *)
(* there is a stub, and all the task does is mark its rows PUBLISHED.  No   *)
(* statement of its try block can fail, so its except branch, which counts  *)
(* attempts, is never taken.                                               *)
(*                                                                         *)
(* The task selects its batch without a lock, so two runs that overlap (a   *)
(* run longer than the 30 seconds, or two workers) can hold the same rows;  *)
(* a run may die at any point, which rolls its session back.               *)
(***************************************************************************)
EXTENDS Integers, FiniteSets

CONSTANTS
    Events,         \* domain events the operations may enqueue
    Operations,     \* business transactions
    EventsOf,       \* the events each of them enqueues
    Workers,        \* runs of publish_outbox_events that may overlap
    BatchLimit,     \* .limit(100)
    MaxCrashes      \* bound on runs that die

ASSUME OutboxAssumption ==
    /\ EventsOf \in [Operations -> SUBSET Events]
    /\ \A o \in Operations : EventsOf[o] # {}
    /\ \A o, p \in Operations : o # p => EventsOf[o] \cap EventsOf[p] = {}
    /\ BatchLimit \in Nat \ {0} /\ MaxCrashes \in Nat

VARIABLES
    row,            \* outbox_events: publication_status, "NONE" for no row
    tx,             \* how each business transaction stands
    queued,         \* events in its session, flushed and not visible to others
    worker,         \* batch loaded by each run of the task
    crashes

outboxVars == <<row, tx, queued, worker, crashes>>

IdleWorker == [pc |-> "idle", batch |-> {}]

OutboxInit ==
    /\ row = [e \in Events |-> "NONE"]
    /\ tx = [o \in Operations |-> "open"]
    /\ queued = [o \in Operations |-> {}]
    /\ worker = [w \in Workers |-> IdleWorker]
    /\ crashes = 0

-----------------------------------------------------------------------------
EnqueueApart(o, e) ==
    /\ tx[o] = "open"
    /\ e \in EventsOf[o] \ queued[o]
    /\ queued' = [queued EXCEPT ![o] = @ \cup {e}]
    /\ row' = [row EXCEPT ![e] = "PENDING"]
    /\ UNCHANGED <<tx, worker, crashes>>

\* The event is added to the operation's session and flushed; an operation may
\* enqueue several, one after the other.
Enqueue(o, e) ==
    /\ tx[o] = "open"
    /\ e \in EventsOf[o] \ queued[o]
    /\ queued' = [queued EXCEPT ![o] = @ \cup {e}]
    /\ UNCHANGED <<row, tx, worker, crashes>>

\* The endpoint commits when its service has returned.
CommitOperation(o) ==
    /\ tx[o] = "open" /\ queued[o] = EventsOf[o]
    /\ tx' = [tx EXCEPT ![o] = "committed"]
    /\ row' = [e \in Events |-> IF e \in queued[o] THEN "PENDING" ELSE row[e]]
    /\ UNCHANGED <<queued, worker, crashes>>

RollbackOperation(o) ==
    /\ tx[o] = "open"
    /\ tx' = [tx EXCEPT ![o] = "rolledback"]
    /\ UNCHANGED <<row, queued, worker, crashes>>

-----------------------------------------------------------------------------
Pending == {e \in Events : row[e] = "PENDING"}

\* SELECT ... WHERE PENDING LIMIT: no ORDER BY, so any rows up to the limit.
IsBatch(batch) ==
    Cardinality(batch) = IF Cardinality(Pending) < BatchLimit THEN Cardinality(Pending) ELSE BatchLimit

PollAndClaim(w) ==
    /\ worker[w].pc = "idle"
    /\ Pending # {}
    /\ \E batch \in SUBSET Pending :
        /\ IsBatch(batch)
        /\ worker' = [worker EXCEPT ![w] = [pc |-> "polled", batch |-> batch]]
        /\ row' = [e \in Events |-> IF e \in batch THEN "CLAIMED" ELSE row[e]]
    /\ UNCHANGED <<tx, queued, crashes>>

\* A run that finds nothing changes nothing.
Poll(w) ==
    /\ worker[w].pc = "idle"
    /\ Pending # {}
    /\ \E batch \in SUBSET Pending :
        /\ IsBatch(batch)
        /\ worker' = [worker EXCEPT ![w] = [pc |-> "polled", batch |-> batch]]
    /\ UNCHANGED <<row, tx, queued, crashes>>

\* Every event of the batch is marked, and the marks are committed together.
CommitBatch(w) ==
    /\ worker[w].pc = "polled"
    /\ row' = [e \in Events |-> IF e \in worker[w].batch THEN "PUBLISHED" ELSE row[e]]
    /\ worker' = [worker EXCEPT ![w] = IdleWorker]
    /\ UNCHANGED <<tx, queued, crashes>>

Crash(w) ==
    /\ worker[w].pc = "polled"
    /\ crashes < MaxCrashes
    /\ worker' = [worker EXCEPT ![w] = IdleWorker]
    /\ crashes' = crashes + 1
    /\ UNCHANGED <<row, tx, queued>>

RunTask(w) == Poll(w) \/ CommitBatch(w)

OutboxNext ==
    \/ \E o \in Operations : (\E e \in Events : Enqueue(o, e)) \/ CommitOperation(o) \/ RollbackOperation(o)
    \/ \E w \in Workers : RunTask(w) \/ Crash(w)

\* Celery beat starts the task every 30 seconds and a run that is alive goes on.
OutboxSpec == OutboxInit /\ [][OutboxNext]_outboxVars /\ \A w \in Workers : WF_outboxVars(RunTask(w))

-----------------------------------------------------------------------------
(* Properties                                                              *)

\* "if DB transaction rolls back, no event is published": the events of an
\* operation have rows, all of them, exactly when its transaction committed, at
\* whichever of its events it failed; and no run holds any other event.
EventsFollowCommits ==
    /\ \A o \in Operations : \A e \in EventsOf[o] : row[e] # "NONE" <=> tx[o] = "committed"
    /\ \A w \in Workers : \A e \in worker[w].batch :
          \E o \in Operations : tx[o] = "committed" /\ e \in EventsOf[o]

\* The outbox implements EventLog: whichever runs overlap, leave rows out of
\* their batch or die, every event on record is marked in the end, once and for
\* all.
Abstract == INSTANCE EventLog WITH
    recorded <- {e \in Events : row[e] # "NONE"}, published <- {e \in Events : row[e] = "PUBLISHED"}
Implements == Abstract!Spec
=============================================================================
