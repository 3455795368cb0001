---------------------------- MODULE Idempotency -----------------------------
(***************************************************************************)
(* POST requests carrying one Idempotency-Key: IdempotencyMiddleware         *)
(* (app/middleware/http.py) over RedisService.store_idempotency             *)
(* (app/modules/redis/service.py).                                         *)
(*                                                                         *)
(* Every Redis command is a step of its own, so the GET and the SET of      *)
(* store_idempotency can be separated by other requests, by the key's TTL   *)
(* and by an outage.  One scope (tenant, path, key) is modelled: scopes     *)
(* share nothing.  The endpoint behind the middleware is one step: its      *)
(* transaction commits or it does not.                                     *)
(***************************************************************************)
EXTENDS Integers, FiniteSets

CONSTANTS
    Posts,          \* HTTP requests, retries included
    Bodies,         \* request bodies, known to the store by fingerprint
    Body,           \* the body of each request
    MaxInFlight,    \* bound on requests in progress together
    MaxExpiries,    \* bound on expiries of the key (idempotency_ttl_seconds)
    MaxOutages      \* bound on Redis outages

VARIABLES
    store,          \* value of the key in Redis: fingerprint and response
    up,             \* Redis answers
    expiries, outages,
    post,           \* how far each request is, and its answer
    done,           \* requests whose operation was committed
    slips           \* history: requests that passed the key unseen (Slips, FailOpen)

keyVars == <<store, up, expiries, outages, post, done, slips>>

\* "placeholder" is {} with status 200, "result" the answer of an operation
\* that was committed, "refusal" a 4xx, "error" a 5xx.
Response == {"none", "placeholder", "result", "refusal", "error", "conflict"}
NoKey == [fingerprint |-> "none", response |-> "none"]
Entry == [fingerprint : Bodies \cup {"none"}, response : Response]
PostState == [pc : {"idle", "arrived", "missed", "reserved", "executed", "storing", "answered"},
            answer : Response]

ASSUME IdempotencyAssumption ==
    /\ Body \in [Posts -> Bodies] /\ "none" \notin Bodies
    /\ MaxInFlight \in Nat /\ MaxExpiries \in Nat /\ MaxOutages \in Nat

KeyInit ==
    /\ store = NoKey
    /\ up = TRUE /\ expiries = 0 /\ outages = 0
    /\ post = [r \in Posts |-> [pc |-> "idle", answer |-> "none"]]
    /\ done = {}
    /\ slips = 0

Go(r, pc, answer) == post' = [post EXCEPT ![r] = [pc |-> pc, answer |-> answer]]
redis == <<store, up, expiries, outages>>

InFlight == {r \in Posts : post[r].pc \notin {"idle", "answered"}}

Arrive(r) ==
    /\ post[r].pc = "idle"
    /\ Cardinality(InFlight) < MaxInFlight
    /\ Go(r, "arrived", "none")
    /\ UNCHANGED <<redis, done, slips>>

-----------------------------------------------------------------------------
(* store_idempotency before the endpoint, with an empty response            *)

Matches(r) == store.fingerprint = Body[r]

\* A GET that finds no key while another request is between its GET and its SET.
Slips == IF store = NoKey /\ \E x \in Posts : post[x].pc = "missed" THEN slips + 1 ELSE slips

GetFirstIfStored(r) ==
    /\ post[r].pc = "arrived" /\ up
    /\ IF store.response \in {"none", "placeholder"} THEN Go(r, "missed", "none")
       ELSE IF Matches(r) THEN Go(r, "answered", store.response)
       ELSE Go(r, "answered", "conflict")
    /\ slips' = Slips
    /\ UNCHANGED <<redis, done>>

GetFirst(r) ==
    /\ post[r].pc = "arrived" /\ up
    /\ IF store = NoKey THEN Go(r, "missed", "none")
       ELSE IF Matches(r) THEN Go(r, "answered", store.response)
       ELSE Go(r, "answered", "conflict")
    /\ slips' = Slips
    /\ UNCHANGED <<redis, done>>

ReservationAsResult == "result"

Reservation == "placeholder"

SetFirst(r) ==
    /\ post[r].pc = "missed" /\ up
    /\ store' = [fingerprint |-> Body[r], response |-> Reservation]
    /\ Go(r, "reserved", "none")
    /\ UNCHANGED <<up, expiries, outages, done, slips>>

FailsOpenAtGet(pc) == pc = "arrived"

FailsOpenAt(pc) == pc \in {"arrived", "missed"}

\* "Redis outages fail open"
FailOpen(r) ==
    /\ FailsOpenAt(post[r].pc) /\ ~up
    /\ Go(r, "reserved", "none")
    /\ slips' = slips + 1
    /\ UNCHANGED <<redis, done>>

-----------------------------------------------------------------------------
(* call_next                                                                *)

Succeed(r) ==
    /\ post[r].pc = "reserved"
    /\ done' = done \cup {r}
    /\ Go(r, "executed", "result")
    /\ UNCHANGED <<redis, slips>>

Refuse(r) ==
    /\ post[r].pc = "reserved"
    /\ Go(r, "executed", "refusal")
    /\ UNCHANGED <<redis, done, slips>>

\* A 5xx is answered at once; the placeholder stays.
Fail(r) ==
    /\ post[r].pc = "reserved"
    /\ Go(r, "answered", "error")
    /\ UNCHANGED <<redis, done, slips>>

-----------------------------------------------------------------------------
(* store_idempotency after the endpoint, with its response                  *)

\* A key that is still there is left as it is.
GetLast(r) ==
    /\ post[r].pc = "executed" /\ up
    /\ IF store = NoKey THEN Go(r, "storing", post[r].answer)
       ELSE IF Matches(r) THEN Go(r, "answered", post[r].answer)
       ELSE Go(r, "answered", "conflict")
    /\ UNCHANGED <<redis, done, slips>>

SetLast(r) ==
    /\ post[r].pc = "storing" /\ up
    /\ store' = [fingerprint |-> Body[r], response |-> post[r].answer]
    /\ Go(r, "answered", post[r].answer)
    /\ UNCHANGED <<up, expiries, outages, done, slips>>

AnswerUnstored(r) ==
    /\ post[r].pc \in {"executed", "storing"} /\ ~up
    /\ Go(r, "answered", post[r].answer)
    /\ UNCHANGED <<redis, done, slips>>

-----------------------------------------------------------------------------
(* Redis                                                                    *)

ExpireKey ==
    /\ store # NoKey /\ expiries < MaxExpiries
    /\ store' = NoKey /\ expiries' = expiries + 1
    /\ UNCHANGED <<up, outages, post, done, slips>>

GoDown ==
    /\ up /\ outages < MaxOutages
    /\ up' = FALSE /\ outages' = outages + 1
    /\ UNCHANGED <<store, expiries, post, done, slips>>

ComeBack ==
    /\ ~up /\ up' = TRUE
    /\ UNCHANGED <<store, expiries, outages, post, done, slips>>

Handle(r) ==
    \/ GetFirst(r) \/ SetFirst(r) \/ FailOpen(r)
    \/ Succeed(r) \/ Refuse(r) \/ Fail(r)
    \/ GetLast(r) \/ SetLast(r) \/ AnswerUnstored(r)

KeyNext == (\E r \in Posts : Arrive(r) \/ Handle(r)) \/ ExpireKey \/ GoDown \/ ComeBack

KeySpec == KeyInit /\ [][KeyNext]_keyVars

\* The event loop runs every request that can run.
FairKeySpec == KeySpec /\ \A r \in Posts : WF_keyVars(Handle(r))

-----------------------------------------------------------------------------
(* Properties                                                              *)

\* However requests, expiries and outages interleave: a request is given the
\* result of an operation only when one was committed for its own body.
ResultMeansDone ==
    \A r \in Posts : post[r].pc = "answered" /\ post[r].answer = "result" =>
        \E x \in done : Body[x] = Body[r]

\* "prevent duplicates on retry": between them the requests with one key commit
\* one operation, and one more at most for each expiry of the key and for each
\* request that passed it unseen, racing another's GET and SET or with Redis down.
OncePerKey == Cardinality(done) <= 1 + expiries + slips

\* Every request that arrives is answered, whatever Redis does.
EveryRequestAnswered ==
    \A r \in Posts : (post[r].pc = "arrived") ~> (post[r].pc = "answered")
=============================================================================
