# FreightCore backend: a TLA+ development

FreightCore (`src/app`) is the backend of a freight forwarder: FastAPI endpoints
over async SQLAlchemy and PostgreSQL, Redis, and Celery workers. This directory
models the parts of it that keep money, commitments and records straight, checks
them with TLC on small instances, and proves the main safety results with TLAPS for
every size of instance.

`PROJECT.json` lists components, runs, mutants, the map from definitions to source
lines, findings, hazards and theorems. Run a check with
`tlc -config X.cfg MCx`, a proof with `tlapm XProof.tla`.

## 1. The system

### How a request runs

Every component but the workers shares one discipline, which all modules model:

* `get_db` (`app/db/session.py:59-66`) opens one session per request, and rolls it
  back on an exception; the endpoint commits at its end. Between, the request is a
  PostgreSQL READ COMMITTED transaction: each SELECT sees what is committed by then.
* SELECTs take no lock, except in `commercial/repository.py` (lines 398, 459, 892
  and 939: `transition_rate`, `create_rate_version`, `send_quotation` and
  `accept_quotation`), which use `SELECT ... FOR UPDATE`.
* A loaded row is a copy. SQLAlchemy's UPDATE names only the columns the session
  changed, so a column it left alone keeps what another request wrote meanwhile
  (`Written` in Invoicing, `StatusAfter` in Shipments).
* The first UPDATE of a row, at flush or autoflush, waits for the transaction that
  holds it. An INSERT under a unique key waits for an uncommitted insert of the same
  key and fails if that commits. Document, bill, invoice, job and quotation numbers are unique per
  tenant; payments, document versions and ETA versions have no unique key.

A request in a model is therefore a session record with a program counter. Its steps
are the points other requests can get between: a SELECT whose result is used later, a
flush that takes a row, the commit. What a request does between two such points is one
action. `Rollback` is possible at every point: a failed check, a lost connection, or
a duplicate key.

### Components, their state and operations

| Component | State | Operations | Hard about it | Module |
|---|---|---|---|---|
| Vendor payables (`modules/payables`) | bills with status, approval and paid amount; payments; cost lines; the ledger postings of each bill; variance exceptions | record, verify, approve, pay | decisions on unlocked sums; bills that share a cost line | `Payables` |
| Customer invoicing (`modules/invoicing`) | invoices, the status of revenue lines, credit and debit notes | generate, approve, send, credit note, debit note | numbering by `count() + 1`, unlocked sums, conversion and rounding | `Invoicing`, `InvoiceAmounts` |
| Ledger corrections (`modules/financial`) | immutable entries linked by `reversal_of_id` | reverse and correct | corrections of corrections, two at once | `Ledger`, `CorrectedLedger` |
| Profitability watch (`modules/financial`) | revenue and cost totals, exceptions | add revenue or cost line, with the check that follows; charges from payables; users updating exceptions | two sums in two statements; rows others write | `Margin` |
| Idempotency middleware (`middleware/http.py`, `modules/redis`) | one Redis key per tenant, path and key | GET, SET, call, GET, SET | races, expiry, outages, retries | `Idempotency` |
| Outbox and relay (`modules/events`, `workers/celery_app.py`) | outbox rows | enqueue in the business transaction; the relay task | several events in one transaction, overlapping runs, runs that die | `Outbox`, `EventLog` |
| Shipments and workflow engine (`modules/shipments`, `modules/workflow`) | shipment status; workflow instance and version; transition history | create, transition through two endpoints | two rows that mean the same; stale copies | `Shipments` |
| Rates and nightly expiry (`modules/commercial`, `workers/celery_app.py`) | rates, their versions | create, transition, new version; the expiry task | row locks, a task that works on old reads | `Rates` |
| Quotations and acceptance (`modules/commercial`) | quotations, jobs | price, send, accept | checks on unlocked rows, job numbers | `Quotations` |
| Documents and checklists (`modules/documents`) | documents, their versions, checklist items, stored files | upload, approve, reject, request a revision, generate the checklist | numbers from unlocked reads, files stored before the transaction, item and document moved by different steps | `Documents` |
| ETA versions, cascade and alerts (`modules/eta`) | legs, ETA history, notifications | record a version, with the cascade and the deviation alerts | row locks taken one by one until the commit, in an order that may tie; numbers from unlocked reads | `Eta` |
| Exceptions and escalations (`modules/exceptions`) | exception rows, shared with the profitability watch | create, update; the escalation rules inside create | two writers of one row | `Margin` |
| Authentication (`modules/auth`) | refresh tokens, the user's status | login, refresh, logout; expiry | a token checked and revoked without a lock | `Sessions` |
| LCL cost allocation (`services/lcl_service.py`) | none | allocate the cost of a consolidation | two roundings, a remainder | `CostAllocation` |

How they meet: accepting a quotation makes the job, the booking and the shipment, with
revenue and cost lines (`BookFromQuotation` in Shipments is that step). Invoicing takes revenue lines and
closes them; payables match cost lines and advance them, and add cost lines of their
own, which the profitability watch sums (`BillCharge` in Margin); an agent's settlement
does the same (`SettleAgent`). The watch opens and resolves rows of the exceptions
module, so users' updates and the watch are one module. Invoices count towards the exposure that the
next acceptance checks (`InvoiceJob` in Quotations); rates that end invalidate it
(`EndRate`). Every transition and document enqueues outbox rows in its own transaction.
Each module carries the steps of its neighbours that touch its rows.

The parts that are not modelled are listed in section 7.

## 2. History variables

Most reads take no lock, so some promises hold only of data on which no two requests
met. Rather than check such a promise in a smaller, sequential instance, a module
records the meeting, and the property says exactly when it holds; everything runs in
one concurrent instance.

| Variable | Module | Meaning |
|---|---|---|
| `crossed` | Payables | the pairs `{b, c}` of bills whose requests were in flight together; `{b}` for two requests on the same bill |
| `crossed` | Shipments | shipments two requests have worked on at once |
| `overlapped` | Invoicing, Margin, Documents, Eta | whether two requests have been in flight together |
| `forked` | Sessions | logins whose token two refreshes have held together |
| `approved` | Documents | the version of each document approved last |
| `disturbed` | Quotations | acceptances during which a rate ended or an invoice was issued |
| `slips` | Idempotency | requests that passed the key unseen: a GET that found nothing between another's GET and SET, or Redis down |
| `contested` | Ledger (a state function), CorrectedLedger | postings with an entry two requests reversed at once |

No guard reads a history variable, so they restrict nothing.

## 3. Runs

Twelve runs, one for each group of components that share rows; all pass.

| Run | Question | Instance | States |
|---|---|---|---|
| `payables` | What survives any interleaving of payments, approvals and verifications, what holds of a bill whose own requests never met, of a cost line whose bills' requests never met? | 2 bills sharing a cost line, 2 requests | 1.8 M |
| `invoicing` | Numbers, credits, billing and sign-off under interleaving | 2 revenue lines, 2 invoices, 2 notes of each kind, 2 requests | 0.8 M |
| `ledger` | Is the table an abstract ledger whose corrections replace a value? | 2 postings, 8 rows, 2 requests | 24 k |
| `margin` | Does a ledger line always leave the right flag, a closed exception its date? Do allocated costs add up? | 3 exceptions written by the watch and by users, 2 requests; consolidations of up to 4 house bills | 1.9 M |
| `idempotency` | Is a result a real one, is everybody answered, what causes duplicates? | 3 requests, 2 bodies, an expiry, an outage | 64 k |
| `outbox` | Are the events on record those of the committed operations, and are all of them marked in the end? | 3 operations with 4 events, 3 runs of the task, a crash, LIMIT 2 | 32 k |
| `shipments` | Do history, instance and status agree? | 2 shipments, 2 requests, 4 transitions | 0.2 M |
| `rates` | Version numbers, the transition map and the nightly expiry | 2 rates, 2 requests, a run that dies | 152 k |
| `quotations` | Acceptance once, dense job numbers, checks that hold at the commit | 2 quotations, 2 rates, 2 requests | 0.4 M |
| `documents` | Is the trail whole, and does the checklist mean what it says? | 2 documents of one type, an item, 2 files, 3 versions, 2 requests | 2.7 M |
| `eta` | Numbers, locks, notifications and connections of cascades | 3 legs, two created together, one without estimates, 4 updates, 2 requests | 1.1 M |
| `sessions` | Does a login keep one usable token? | 4 tokens, 2 requests | 53 k |

### What the passing runs show

*Payables.* However requests interleave, a PAID bill is covered by payments
(`PaidIsCovered`), `paid_amount` never claims more than was paid (`PaidAmountIsSound`),
nothing is paid before its liability is posted (`RecognisedBeforePaid`), and a cost line
is APPROVED or PAID only through an approved or paid bill (`CostLineIsBacked`). Unless
two requests on that same bill met, a bill agrees with its payments and the ledger,
overpayment included; requests on other bills may overlap with it freely
(`LedgerAgrees`). An approved or paid bill has no cost line behind it, unless requests on
two bills of that very line met (`CostLedgerFollows`): that race the code loses, since
both advance the line from the copies they loaded.

*Invoicing.* However requests interleave, an invoice over the threshold is sent only
after an explicit approval (`SentWasSignedOff`), CREDITED means covered by notes
(`CreditedIsCovered`), and numbers have no gap and billed lines are INVOICED
(`NumbersAndLinesAgree`). Until requests overlap, credits stay within the invoice
(`CreditsWithinInvoice`) and a line is billed once (`BilledOnce`). Revenue amounts have
four decimals, and what an invoice prints has two. `RoundingIsBounded` in `MCInvoicing`,
evaluated at the start of the run over invoices of one and two lines, says how far the
figures then agree: the grand total is the sum of the line totals when every line comes
to whole cents, otherwise they differ by at most half a cent a line and half a cent; the
subtotal is within half a cent a line of the exact conversion (`TotalsAgree`, proved for
any lines as `InvoiceTotalsAgree`).

*Ledger.* The trail is complete under any interleaving (`TrailIsComplete`,
`ReversedIsCancelled`), the entries of a posting add up to its value in force unless it
is contested (`BalanceIsInForce`), and the table implements `CorrectedLedger`
(`Implements`).

*Margin.* Until requests overlap, a ledger line leaves one open exception when the
shipment loses more than half a cent and none when it loses less, whatever payables,
settlements and users did since the last one (`SyncRestoresFlag`); the profit is rounded
to cents before it is judged, and at exactly half a cent a float may fall either way. However users and the watch write one row, a closed exception
has its date (`ClosedIsDated`): every write that closes a row dates it, and none takes a
date away. `AllocationAddsUp` in `MCMargin`, an
assumption TLC evaluates at the start of the run, says of a table of consolidations that
the shares of `calculate_cost_allocation` add up to the cost, each within half a cent of
its exact share and the last within half a cent for each of the others; the same is
proved for all consolidations (`AllocationsAddUp`).

*Idempotency.* A result is that of an operation committed for the same body
(`ResultMeansDone`); the operations committed under a key are at most one, plus one for
each expiry and each slip (`OncePerKey`); every request is answered whatever Redis does
(`EveryRequestAnswered`).

*Outbox.* The events of an operation are on record, all of them, exactly when its
transaction committed, and the relay takes no other (`EventsFollowCommits`). However its
runs overlap or die, every event on record is marked PUBLISHED in the end and stays so:
the outbox implements `EventLog` with its liveness (`Implements`). Nothing is said of
delivery, because the relay delivers nothing (section 6).

*Shipments.* Each history row is a transition of the machine and the last one explains
the state, however transitions interleave (`HistoryExplainsState`). A shipment whose
requests never met has a history that is a path and a version that counts it
(`HistoryIsPath`), and the shipment endpoint brings the status back in step after the
workflow endpoint moved the instance alone (`TransitionSyncsStatus`).

*Rates.* Row locks keep version numbers apart (`VersionsNeverCollide`); every change is in
the map of `transition_rate` or the task's expiry of a rate it saw overdue
(`ChangesFollowMap`); no overdue rate stays in use (`OverdueRatesExpire`).

*Quotations.* ACCEPTED and having a job are the same (`AcceptedIffJob`), job numbers are
dense (`JobNumbersAreDense`), and an acceptance nothing disturbed meets at its commit
what it checked (`AcceptedAsChecked`).

*Documents.* However uploads and reviews interleave, the version trail has no gap, the
document shows a number and a file of it, and the storage backend has taken every file it names
(`TrailIsSound`). One after the other, the checklist opens the gate only for the version
approved (`GateMeansApproved`).

*Eta.* Version numbers have no gap, and a leg shows its latest version unless requests
overlapped (`EstimatesAreVersioned`). Cascades take the rows of the legs in the order of
`created_at`, so they wait for each other in a circle only over legs created at the same
time (`DeadlockNeedsTie`); with two such legs the run does reach the circle, which
PostgreSQL breaks by aborting a request (`DropUpdate`). A customer is told of every slip past the
limit, also of legs the cascade moved, unless two rows share a number
(`SlipIsNotified`). A cascade alone keeps every connection and transit time, in the
order in which it was given the legs (`CascadeKeepsConnections`).

*Sessions.* A login has at most one usable token, and an exchanged token is revoked and
names its successor; only two refreshes that hold one token together break that
(`TokensFormALine`). A logout revokes one token, and with that ends the login for good,
unless a refresh is exchanging the token at that moment (`LogoutEndsLogin`).

Each property has a mutant: a definition changed the way a plausible bug would change
the code, under which TLC finds the property violated.

### Bounds, and why they are enough

Two requests suffice for every race here: each is between one request that read and
another that wrote since. Two bills, invoices, rates, quotations or shipments
let two documents share a line, a counter or a table; the requests of the two are
interchangeable (`MCSymmetry`). Amounts are small integers chosen for the cases of the
code: in Payables one bill has a material variance and the other variances that cancel;
in Invoicing one line carries a fraction of a cent and comes with its tax to the
approval threshold exactly, which a note of 5 covers, the other is below it and both are
above; in Margin losses
fall below, on and above half a cent; in Quotations one quotation fits the credit
limit and two fit only when both are at cost. The ledger table of 8 rows holds two postings and three
corrections, so that a correction of a correction meets a concurrent one. Three legs give
a cascade a leg with slack, one without and one without estimates, and two of them share
`created_at`, so that requests may be given them in either order; four tokens give a login
and its refreshes next to a second login. Counters
(exceptions, notes, sends, history, crashes, outages, days) are capped by the constants
named for them, in the guards. Deadlock is checked where some
operation is always possible (`documents`, `eta`, `sessions`); elsewhere a system whose rows
are all closed, or whose bounds are used up, stops.

### Fairness

* Idempotency: weak fairness of each request's next step. The event loop runs every
  coroutine that can run, and a Redis command returns or raises.
* Outbox: weak fairness of each worker's task. Celery beat starts it every 30 seconds,
  and a run that has not died goes on to its commit.
* Rates: a request that holds a row ends; the nightly task is started every day and runs;
  strong fairness for a row the task waits for, since PostgreSQL grants a row's lock in
  the order of arrival.

No other module assumes fairness, and none states liveness.

## 4. Refinement

`CorrectedLedger` is what a user of the ledger relies on: each posting has one value in
force, replaced by a correction in one step. `Ledger!Implements` maps a posting to the
net of all entries that descend from it, and `contested` to the postings with an entry
reversed twice. A contested posting may take any value; all other postings must be left
alone. The refinement is proved (`LedgerImplementsCorrected`): neither specification states
fairness, so the step simulation is all of it.

`EventLog` is what a reader of the outbox table may rely on: the events of a transaction
appear together and for good, and each is marked in the end and never unmarked.
`Outbox!Implements` maps `recorded` to the rows there are and `published` to those marked
PUBLISHED, and includes the abstract specification's fairness. Its safety half is proved
(`OutboxImplementsLog`); that a recorded event is eventually marked is checked by TLC.

## 5. Proofs

Every safety property of every run, and the two arithmetic ones, is a theorem; three
liveness results stay with TLC (see the end of this section). The theorems hold for every
number of requests and rows that the named assumptions of the modules admit
(`PayablesAssumption`, `InvoicingAssumption`, `LedgerAssumption`, `MarginAssumption`,
`IdempotencyAssumption`, `OutboxAssumption`, `ShipmentsAssumption`, `EtaAssumption`,
`RatesAssumption`, `QuotationsAssumption`, `DocumentsAssumption`, `SessionsAssumption`,
`ScaleAssumption`). They give the types of the constants, keep model values apart from row
ids and make tables finite where the code counts or adds rows.

A property is seldom inductive here, and for one reason: a request acts on rows it read
some statements ago. Each proof therefore adds what a session in flight still knows. Where
a property speaks of requests that never met, a second, stronger invariant says that such
a session's copies are current.

| Module | Theorems | Argument |
|---|---|---|
| `PayablesProof` | `PayablesTypeCorrect`, `PaidBillsAreCovered`, `PaidAmountNeverOverstated`, `PaymentsFollowRecognition`, `CostLinesAreBacked` | `IInv`: the payments a session summed are at most the payments there are, the total and lines of a bill never change, an approval it saw stays, and the cost lines it is about to advance are backed by the bill it holds. |
| | `LedgerAgreesWithBills`, `CostLedgerKeepsUp` | `SerialInv`: requests in flight have met (`Met`); a request that met no other on its bill holds the bill and the postings as they are (`AllCurrent`); a bill's cost lines are BILLED at least (`Billing`), and one that is not `Contended` is as far as the bill's state demands, also after whatever a session that met none of the bill's commits (`NotBehind`, `Followed`). |
| `InvoicingProof` | `InvoicingTypeCorrect`, `DispatchesSignedOff`, `CreditedInvoicesCovered`, `NumbersStayDense` | `Knows`: invoices stay and keep their totals, credits and approvals only grow. `Reserved`: the unique document number keeps two inserts apart. `GivenOut`: numbers leave no gap. |
| | `CreditNotesWithinInvoice`, `LinesBilledOnce` | `SerialInv`: a session that has been alone finds the row and the revenue lines as it read them (`Fits`). |
| | `InvoiceTotalsAgree` | For any finite set of lines and amounts to four decimals. A rounding moves an amount by at most half a cent, and not at all from whole cents. The totals are sums over sets: `SubsetSums` is the recursive function behind them and `OverSubsets` the induction that gives its equations. |
| `FinancialProof`, Ledger | `LedgerTypeCorrect`, `CorrectionTrailComplete`, `ReversedEntriesCancelled`, `EntriesAreImmutable` | `SessionInv`: a session's entry is POSTED or, meanwhile, REVERSED, with the amounts it read. This is what makes two concurrent corrections both leave a complete trail. |
| | `BalancesStayInForce`, `LedgerImplementsCorrected` | `BalanceInv` adds that every entry descends from a posting (`RootsArePostings`), that a session corrects to an amount it was given (`AmountsAreGiven`), and that an uncontested trail nets to its entry in force (`BalancesHold`). `Corrects` says what a commit does to the table; the lemmas on it give the roots, the trails, the nets and the contested postings after the commit. |
| `FinancialProof`, Margin | `MarginTypeCorrect`, `ClosedExceptionsDated` | Inductive with the types; the step is `AfterIsDated`, about the columns a session writes over a row that changed since it was read. |
| | `FlagRestored` | `WatchInv`: until requests overlap, the sums a session read are current (`Sees`) and what it decided about the exception is right for the open rows and one of the verdicts the sums allow (`Decided`). |
| `FinancialProof`, CostAllocation | `AllocationsAddUp` | For any number of house bills, weights and volumes, while the cost in cents times the total weight stays below the precision of a Decimal quotient (`Scale`). Beyond that the rounded quotient may move a share by more than half a cent. |
| `PlatformProof`, Sessions | `SessionsTypeCorrect`, `TokensStayALine`, `LogoutsEndLogins` | `OneEnd`: the tokens of a login that has not forked have one end. `HoldersAreAlone`: a refresh in flight holds that end, alone. `ExchangedOnce` and `RowsAreSound` tie tokens to their login. A usable token is therefore the end, and revoking it leaves none (`LogoutEnds`, `OverStays`). |
| `PlatformProof`, Idempotency | `ResultsAreOfCommitted`, `DuplicatesHaveACause` | `KeyInv`: a stored or returned result is of an operation committed for that body (`ResultInv`), and the requests that committed or are past the key are at most one more than the expiries and slips, and no more than those while the key is free and nobody is about to set it (`HolderInv`). |
| `PlatformProof`, Outbox | `OutboxTypeCorrect`, `OutboxFollowsCommits`, `OutboxImplementsLog` | `OutboxInv`: with the types, an operation has queued only events of its own, rows are those of committed operations, and a run holds rows only. |
| `OperationsProof`, Shipments | `ShipmentsTypeCorrect`, `HistoryStaysExplained`, `HistoryStaysAPath`, `TransitionsSyncStatus` | `CopiesAreFresh`: on a shipment that is not `crossed` there is one request, and what it read of the shipment and of the instance is what is there. `CreatorsAreAlone`: nobody works on a shipment before its creation commits. `PathEndsHere` adds to the path that it ends in the instance's state. |
| `OperationsProof`, Eta | `EtaTypeCorrect`, `VersionsStayDense`, `SlipsAreNotified`, `DeadlocksNeedTies`, `ConnectionsAreKept` | `EtaInv`: the rows of a session are numbered without a gap, also together with the committed ones; once it has evaluated, its alerts tell every slip among them (`AllTold`); it holds no leg created after that of its last row, so along a circle of waiting requests the legs waited for cannot be created ever later, and two of them tie. `EtaSerialInv`: a cascade that was alone holds current copies, and its rows follow one from the other. |
| `RatesProof` | `RatesTypeCorrect`, `VersionNumbersUnique`, `RatesFollowMap` | `LocksExclude`: one session or the task holds a row. `ReadsStayTrue`: what was read under the lock still holds at the commit. |
| `QuotationsProof` | `QuotationsTypeCorrect`, `AcceptanceIsFinal` | `LocksExclude` as above. `HeldIsOpen`: a held quotation is not accepted, so a dispatch in flight cannot undo an acceptance. |
| | `JobNumbersStayDense`, `AcceptanceMeetsChecks` | `Numbered`: a number counted is at most the next one, and a job inserted but not committed has a number no other has. `Checked`: what an undisturbed acceptance has checked so far still holds, and only quotations with a job are invoiced. |
| `DocumentsProof` | `DocumentsTypeCorrect`, `TrailStaysSound` | `CopiesAreSound`: the version a session loaded stays in the trail for good, so the next number leaves no gap even if the document has moved on. `SessionsAreSound`: the storage backend has taken the file a session brings. |
| | `GateStaysApproved` | `GateInv`: until requests overlap, the copies of the one session are current (`Fresh`) and the gate is right for the rows (`GateHolds`). |

The last steps of each temporal theorem are `Init => Inv` and `Inv /\ [Next]_vars => Inv'`,
the latter split by action and by conjunct.

Sums, roots of trails and shares are recursive functions, and what they compute is proved
by induction. The library's induction rules take an operator as a parameter, so the
inductions here are over a set instead: the numbers, or subsets, that satisfy the claim
form a set, and a least counterexample (`WFMin` with `NatLessThanWellFounded`) is refuted.

Only model-checked: liveness, which this prover cannot show under fairness. That is
`EveryRequestAnswered`, `OverdueRatesExpire` and the fairness half of the outbox's
`Implements`.

## 6. Where the code and its documents disagree

The models made the following plain; where a property holds only with a condition, it is
in brackets.

* `payables/service.py:405`: `verify_payable` accepts a PARTIALLY_PAID bill and leaves it
  VERIFIED or in variance, from where neither payment nor approval is accepted.
* `invoicing/service.py:149`: an amount is multiplied by the target currency's rate to
  base, whatever its own currency; the conversion service
  (`commercial/master_data/services.py:78`) divides by it.
* `middleware/http.py:99`: the placeholder stored before the operation is never replaced
  when the operation fails, so a retry after a failure is answered `200 {}`, against
  "Idempotency: all POST operations accept `Idempotency-Key` header (prevent duplicates
  on retry)" (`src/team_1_backend_architect.md:163`).
* `payables/service.py:587`: two payments that sum before either commits overpay a bill,
  against the comment "prevent overpayment" [`crossed` in `LedgerAgrees`].
* `payables/service.py:452`, `:515` and `:646`: requests on two bills of one cost line advance it from the
  copies each loaded, and the later commit may set the line back behind the other bill
  [`Contended` in `CostLedgerFollows`].
* `payables/service.py:435`: VARIANCE_DETECTED and the variances are rolled back with the
  error that reports them.
* `invoicing/service.py:577`: two credit notes at once exceed the invoice;
  `:103`: two generations bill a line twice; `:502`: a dispatch writes SENT over CREDITED
  [`overlapped`]; `:110`: a PAID line named in a body is billed again.
* `invoicing/service.py:154` and `:174`: line totals and grand total are each rounded from
  amounts of four decimals, so the lines of an invoice need not add up to its total
  [`TotalsAgree` gives the margin].
* `financial/service.py:432`: the profit is rounded to cents before it is compared with 0,
  so a loss under half a cent opens no exception and resolves an open one
  [`HalfCent` in `SyncRestoresFlag`].
* `financial/service.py:548`: two corrections of one entry both reverse it [`contested`];
  `:467`: two ledger lines both open an exception, after which every look-up raises
  [`overlapped`]; `:463`: the watch shares the type CARGO_LOSS with reported losses and
  may resolve one.
* `payables/service.py:175`: an additional charge changes the cost without the margin
  check [`SyncRestoresFlag` speaks of the next ledger line].
* `redis/service.py:57`: GET and SET are two commands, so two requests that arrive
  together both run [`slips`].
* `workers/celery_app.py:43`: the relay publishes nothing. Where an event would be handed
  to RabbitMQ there is a comment, "RabbitMQ publish stub", and the row is marked
  PUBLISHED, against "Publish pending outbox rows to RabbitMQ." (`:26`) and "Guarantees
  at-least-once delivery" (`src/team_1_backend_architect.md:219`). As no statement of the
  try block can fail, the branch that counts attempts is never taken.
  No property here speaks of delivery.
* `workflow/service.py:92`: the version is incremented on an unlocked copy and never
  compared, against "row locks or optimistic version checks for transitions"
  (`src/README.md:82`) [`crossed` in `HistoryIsPath`].
* `commercial/repository.py:1013`: an accepted quotation's shipment has no workflow
  instance, so no transition of it is ever accepted.
* `workers/celery_app.py:79`: the expiry task writes EXPIRED over a rate cancelled since
  it was read [the last case of `ChangesFollowMap`].
* `commercial/repository.py:974`: rates and invoices are read without a lock at acceptance
  [`disturbed`]; `:966`: only invoices count towards the exposure, where
  `src/team_2_commercial_backend.md:286` adds shipments in progress and pending bookings;
  `:945`: nothing ever sets a quotation EXPIRED, against
  `src/team_2_commercial_backend.md:270`.
* `documents/service.py:116`: two uploads take the same version number, and a late one
  sets the document back or carries an approval over to its file [`overlapped` in
  `GateMeansApproved`]; `request_revision` leaves the checklist item APPROVED, so the gate
  stays open for a document under revision [the second status in `GateMeansApproved`];
  `validate_transition_documents` has no caller among the transitions.
* `documents/storage.py:86-93`: a file that S3 refuses is kept in a dictionary of the
  process and the upload succeeds; after a restart the document names a file that is gone.
  `stored` in Documents is what the backend has taken, not what survives.
* `eta/service.py:121`: the legs are ordered by `created_at` alone, against the comment
  "created_at / id" (`:117`). Legs of one transaction share `created_at`, so two cascades
  may be given them in opposite orders: connections are then worked out along either
  order, and the cascades may deadlock [`DeadlockNeedsTie`].
* `eta/service.py:90`: two updates of a leg take the same number [the last condition of
  `SlipIsNotified`].
* `auth/service.py:88`: two refreshes of one token are both served, and the login has two
  usable tokens, against "refresh tokens (7-day expiry, rotating)"
  (`src/team_1_backend_architect.md:119`) [`forked`]. A failed login is answered by an
  exception, and the count of failures it made is rolled back with its transaction, so the
  lockout of `:122` of that document never happens.
* `workers/celery_app.py:56-58`: the periodic `check_sla_breaches` returns 0; the
  time-based escalation rules run only once, when an exception is created.
* `services/lcl_service.py:94`: the last house bill takes the remainder, which may be
  negative: of one cent over weights 1, 1, 0 it is charged -1 [`AllocationAddsUp` gives
  the last share half a cent for each of the others].
* `commercial/financial/service.py:347`: a settlement is posted again by a retry without an
  idempotency key, and does not run the margin check.

## 7. What is not modelled

Within the modelled parts: figures that are only read (profitability breakdowns, PDF and
e-mail), audit rows, notification texts, tenant isolation (every query carries the
tenant; one tenant is modelled), and the in-memory branches of repositories that unit
tests use. `revise_quotation` (`commercial_quotations.py:181-214`) reads a column the
model does not have and always raises. The embargo check and the RFQ's status are left
out of Quotations: nothing modelled changes them. Approval of rate versions happens
outside the repository's code. Delivery of outbox events is not modelled: the relay makes
no hand-over.

Whole parts, with the reason (`PROJECT.json` lists each with its files):

* *No interaction:* master data, routes, schedules, identity and permissions are single
  rows, created, read and updated one at a time. A model would restate each assignment.
* *Append-only:* tracking events, audit rows and the search index. `record_event` inserts a
  row and an outbox event in one transaction, which is `Outbox`'s `Enqueue`.
* *Read-only:* analytics, profitability breakdowns, the quarterly review, vendor bill
  matching, route comparison, PDF and e-mail.
* *Stateless arithmetic over user-written or decimal data:* the rules engine, freight
  calculations, container utilisation and rate selection. Nothing deployed acts on the rules
  engine's answers; Quotations keeps what a quotation takes from the calculations, the rate
  and the price.
* *Library code:* hashing, JWT, TOTP and MFA enrolment, the storage client.
* *Nothing to check:* acquire_lock and release_lock of the Redis service have no caller;
  the rate limiter counts and fails open.
* *Not stored:* claims, customs, air consolidation and reconciliation work on demonstration
  data in memory.
* *Not deployed:* `src/backend/app` repeats `src/app` (its `app/modules` is identical, so
  what is said of the one holds of the other; the map names `src/app`). What it adds
  changes no stored row: `phase6` flushes a proof of delivery that nothing commits,
  `phase7` only queries, the air waybill, flight, dangerous goods and receivables services
  hold data in memory and are mounted by no router. `src/domain` is an earlier design that
  the application does not import.
* *Declarations:* the Alembic migrations, ORM models and HTTP schemas, which make up most
  of the lines. Their unique keys and missing keys are in the models' guards.

This leaves the map at under a tenth of all lines in the repository: half of them are the
second copy, and of `src/app` itself most lines are declarations and queries. The share is
larger where the state changes are: payables, invoicing, ledger, ETA, workflow, shipments
and exceptions are covered nearly in full but for listings and audit rows.

## 8. Plan

The order follows what an error costs: money owed and paid (Payables), billed
(Invoicing), booked (Ledger, Margin), done twice or not at all (Idempotency, Outbox),
moved (Shipments, Eta), promised (Rates, Quotations), shown and signed off (Documents),
and who may ask (Sessions). All of these are in place, and so are the proofs of their
safety properties. Next:

1. The type invariant of Idempotency as a theorem of its own (it is a conjunct of
   `KeyInv`), and the shared lemmas on sums stated once.
2. For the three liveness results, the safety facts their arguments rest on: a request
   that is not answered has a step it can take, and so has a worker with a committed row.
