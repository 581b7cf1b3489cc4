# TLA+ models of the isA_user platform

isA_user is a Python platform of some forty FastAPI services over a shared
`core/` package. The services share nothing but PostgreSQL (a schema each),
Redis, and NATS JetStream events; a request or an event handler is a coroutine
that runs one SQL statement, Redis command, HTTP call or publish after the
other, with an `await` at each. Almost no operation is a database transaction.
What is hard to get right, and what a unit test with mocked repositories does not
reach, is what happens *between* those awaits: other coroutines, other replicas,
late answers, redelivered events, crashes.

The project models the core that moves money and goods: the circuit breaker of
every service-to-service call, the exactly-once machinery of the event handlers,
the wallet's ledger, the inventory's reservations, the order saga that ties
order, inventory, payment, tax and fulfilment together, the credits of
subscriptions, the billing of usage, the credit accounts and campaigns, the
delivery of notifications, and the shutdown of every process.

## Inventory of the system

| Component | State | Operations | Hard behaviour | What makes it correct |
|---|---|---|---|---|
| `core/circuit_breaker.py`, `core/service_client_base.py` | state, failure count, opened_at, probe slots | `check`, `record_success`, `record_failure`, `state` | results of requests admitted in an earlier state; requests that end unrecorded | an open circuit fails fast; counters agree with the state; it recovers |
| `core/distributed_lock.py` | Redis key with token and TTL, result cache | `guard`, `acquire`, `release` | lock expiring under its holder, late release, cache races | only the owner releases; waiting ends; the lock gets free |
| `wallet_service` event handlers | `_processed_event_ids`, claim row | claim, deposit, mark completed / failed | replicas, replays, crashes between statements | one worker at a time; a credit per event; completed is final |
| `wallet_service` ledger | wallets, transactions | create, deposit, withdraw, consume, transfer, refund | read-compute-write without a transaction, half-done transfers | no negative balance; rows account for balances |
| `inventory_service` | reservations | reserve, commit, release (HTTP and events) | look up, then update | settled rows are final; events tell the truth; holds end |
| `order_service` | orders, `processed_event_ids` | create, cancel, handlers of payment and user events | event order, duplicates, timeouts, restarts, forgotten event ids | nothing leaves unpaid; what is paid is shipped; status rules |
| `payment_service` | payment intents | intent from `order.created`, webhook, confirm, fail | one payment announced twice, once with the order id and once without | one effect per payment |
| `fulfillment_service` | shipments | create, prepare, buy a label | its own `payment.completed` handler against order_service's | one shipment and one label per payment |
| `tax_service` | calculations | `inventory.reserved` → `tax.calculated` | – | – |
| `core/nats_client.py` | streams, consumers, tasks | publish, pull loop, close | consumer names, acknowledgement, cancellation | each handler gets its own events, at least once |
| `subscription_service` | subscriptions, reservations, history | create, cancel, consume, reserve, reconcile, release, adjust | retries of a reserve, late reconcile or release, stale adjustments | credits add up; a request holds once; a settled hold is final |
| `billing_service` | claims, billing records, processed ids | usage handlers: claim, look up balances, charge, record | replicas, republished events, lost answers, claims taken over | one charge per key; records tell what was paid |
| `credit_service` | accounts, allocations, campaigns, transactions | allocate, consume, expire, transfer, delete | two records of the same credits, no transactions, plans that go stale | balance, allocations and transactions agree; nothing is used twice; soonest expiry first |
| `notification_service` | notifications, batches | send, poll, claim, deliver, delete | request against loops, crash after the claim, several devices | nobody is notified twice; the status is true; everything settles |
| `core/graceful_shutdown.py` | in-flight count, timers | signal, deregister, drain, cleanup, forced exit, reload | timers racing the drain, blocking cleanups | the count is exact; cleanup after the drain; a signal ends the process, once Consul has answered |
| `core/rate_limiter.py`, `redis_cache.py`, `service_discovery.py`, `consul_registry.py` | counters, latches, cached endpoints | – | fallbacks and stale caches | – |
| the remaining services | their own tables | record keeping, external I/O | few multi-step protocols | – |

Components interact in three ways: HTTP calls through the service clients
(order → inventory, fulfilment;
billing → subscription, wallet), NATS events (order → inventory, payment; payment →
order, inventory, fulfilment, wallet; inventory → tax → fulfilment; account → order), and, among the replicas of one service, shared rows and Redis keys.
`PROJECT.json` lists every component with what is and is not modelled, and every
hazard at its line.

## Modules

| Module | Models | Proofs |
|---|---|---|
| `CircuitBreaker` | the breaker and `_request` of its clients | `ComponentProofs` |
| `EventIdempotency` | `handle_payment_completed` of wallet_service with lock, cache and claim | `ComponentProofs` |
| `EventClaim` | abstract: an exclusive claim that is granted, completed, failed or lost | – |
| `MCEventIdempotency` | the pod of each worker, for TLC | – |
| `WalletLedger` | WalletRepository's balance and transaction statements | `WalletLedgerProofs` |
| `Inventory` | the reservation table and its requests | `ComponentProofs` |
| `OrderSaga` | one order through five services; composes `Inventory` (INSTANCE) | `OrderSagaProofs` |
| `MCOrderSaga` | the scenarios of its runs | – |
| `SubscriptionCredits` | subscriptions and credit reservations of subscription_service | `SubscriptionCreditsProofs` |
| `CreditEscrow` | abstract: credits that are free, held for a request, or gone | – |
| `UsageBilling` | the usage handlers of billing_service with claims, charges and records | `UsageBillingProofs` |
| `MCUsageBilling` | the events, prices and purses of its run | – |
| `CreditLedger` | accounts, allocations and campaigns of credit_service | `CreditLedgerProofs` |
| `MCCreditLedger` | types, campaign and budget of its run | – |
| `GracefulShutdown` | one process from start to exit | `ComponentProofs` |
| `NotificationDelivery` | send, polling loops and batch of notification_service | `NotificationDeliveryProofs` |
| `MCNotificationDelivery` | the kinds of notifications of its run | – |
| `SumTheorems` | nothing of the code: lemmas about sums over finite sets, for the proofs about ledgers | itself |

Definitions whose comment calls them a plausible bug (`UpdatableAlways`,
`ReleaseAny`, ...) are used by no specification. Substituting each for the
definition after it makes the property it is paired with in `PROJECT.json` fail,
which shows that the property depends on that piece of code.

### CircuitBreaker

`cb` is the `CircuitBreaker` object, `attempt[c]` the request of caller c. Python
runs the methods without an await, so each is one step; `Refresh` is the lazy
OPEN → HALF_OPEN transition in the `state` property, which `check`, the
`record_*` methods and `metrics` all go through. `StartRequest` is `check` plus
sending, the `Finish*` actions the three ways `_request` ends: a result, an
`httpx.ConnectError`/`TimeoutException` or a server error that is recorded, or any other
exception or a cancellation, which is not. Time is `elapsed` since the circuit
opened, capped at the recovery timeout, beyond which the code cannot tell times
apart.

### EventIdempotency

One event, delivered any number of times to any pod (keys contain the event id,
so events do not interact). Each Redis or SQL call is an action; `pc[w]` is the
call worker w is about to make. `AgeTick` ages the lock, the cache entry and the claim row.
The wait for a contended lock (0.5 s) is short against every TTL (120 s and
more), so it is counted in polls. Faults are a crash of a pod, a cancelled
coroutine, a Redis error and a database error. `deposits`, `credited` and `unacked` are history
variables. `MaxProcessing` bounds how long a handler keeps its claim: nothing in
the code enforces it, so the theorems take `MaxProcessing < StaleAfter` as an
assumption. It is the condition under which reclaiming a stale claim is safe.

`EventClaim` says what the machinery promises: at most one holder, a grant only of
a row that is not completed, and only the holder settles the row. The refinement
mapping reads status from the claim row and the holder from the program counters.

### WalletLedger

`balance` and `ledger` are the two tables; every call is a sequence of the
statements the repository sends: `update_balance` is a SELECT (`ReadBalance`) and an
UPDATE with an absolute value (`WriteBalance`), the transaction row is an INSERT after
it (`Book`). A statement may fail (`StatementFails`, `BookFails`), may be carried
out although it raised (`AnswerLost`), and a coroutine may vanish. The balance checks
that `wallet_service.py` makes before it calls the repository only refuse earlier, and are
left out. Amounts are whole credits, all wallets FIAT; `net` and `disturbed` are history
variables.

### Inventory

`reservations` is the table, oldest first; `call[c]` a request, by HTTP or by
event, both of which run the same statements. `LookUp` and `Settle` are two steps, as
in the code. A request may carry a reservation id, which finds the row whatever
its status. An answer may be an error after the row was written. `stock` records
the published events.

### OrderSaga

One order (rows of different orders do not meet), a single order_service
process; a scenario fixes what the order is for, what else may happen to it and
how many faults. All interleavings of: `create_order`, `cancel_order`, and the handlers of
payment.initiated, payment.completed, payment.failed and user.deleted in order_service; of
order.created in payment_service, which makes the payment intent; of order.created and
payment.completed in inventory_service; of tax.calculated and payment.completed in
fulfillment_service; Stripe's webhook and the deletion of the account. `pc[t]` is
where a task stands, `inbox[m]` the waiting copies of an event. A message is named after
the handler that consumes it, so an event with three subscribers is three messages.

The way of the money: `create_order` publishes order.created, payment_service makes an intent
and publishes payment.initiated, whose handler writes the intent on the order
(`AttachIntent`). A payment that succeeds is announced by two events: `completed_a` of
`confirm_payment` and `completed_b` of the webhook. order_service handles both, finding the
order by its intent. Only the second carries Stripe's metadata with the order id, so it is the
one on which inventory_service commits the stock (`StartInventoryHandler`) and
fulfillment_service buys a label (`BuyLabel`), each besides what order_service asks of them.

A fault is a lost or duplicated event, a failing statement (whose UPDATE may have been
made or not), a service call that fails or times out (inventory_service may carry it
out later), or a restart of order_service, which empties `processed_event_ids`
and drops what was running; unfinished events may be redelivered. `Evict` is the loss of an
arbitrary half of that set above 10000 ids, which other orders cause.

What the model leaves out, and why:

- `create_payment_intent_v2` of order_service posts to `/api/v1/payments/payments/intent` without
  credentials, payment_service serves `/api/v1/payment/payments/intent` with them: the
  answer is always None, which changes nothing. An intent id in the request of the
  client, which create_order would store, is taken to be absent;
- refunds, credits and payment calls of order_service that need
  `self._get_service_url`: the method does not exist, the `AttributeError` is caught and
  nothing leaves the service;
- `order.canceled` and its handlers in inventory_service and fulfillment_service:
  `cancel_order` passes `reason` to a function whose parameter is `cancellation_reason`
  (`events/publishers.py:107-116`), the `TypeError` is caught, nothing is ever published;
- a crash of payment_service between Stripe and the row, or a claim of order.created that could
  not be marked completed, after which a second intent may be made; the first read of a handler
  is one step with taking its message;
- several replicas of order_service, whose sets of processed ids differ;
- the handlers of refunded, credits-added and subscription events,
  which no modelled service triggers for such an order; the generic update and
  complete endpoints;
- tax_service is a pipe from inventory.reserved to tax.calculated;
- each subscription is taken to have a consumer of its own. `nats_client.py`
  names consumers by service and source only, see the hazard at line 401.

### SubscriptionCredits

`subs` and `holds` are the tables, `logged` the sum of the history per
subscription, `events` what was published about a reservation. create, cancel,
consume and the administrator's adjustment are statements with awaits between
them. `reserve_credits` looks the request id up before it locks the
subscription, so two retries can both pass the look-up; the UNIQUE column decides.
reconcile and release lock the reservation first and are one step each
(`Finalize`). `adjusted` names the subscriptions whose columns an adjustment put
out of step: the sum of the columns is only claimed for the others. An adjustment that wrote
back a stale balance (`main.py:723`) is excused in this way too, and for good, as is a lost
row of the history.

The history is about allocations and direct consumption only. reserve and reconcile
change `credits_used` without a row, although `docs/domain/subscription_service.md:399`
says that every consumption creates one (and line 483 that reservations are tracked);
`HistoryAccounts` therefore takes the credits spent through holds out of what it adds up, and
`EveryUseLogged` in `SubscriptionCredits_active.cfg` shows the disagreement.

`CreditEscrow` is the promise to the services that spend credits: a hold
takes free credits, is settled once, and nothing is spent that is not there. The
mapping reads `free` from `credits_remaining` and `hold` from the reservations.

### UsageBilling

A worker per replica takes a delivery through the lock, the set of processed
ids in memory, the durable claim, the look-up of the balances at three sources, the
charge, and the record. Events published again share a key; older events
(`Legacy`) have no claim. Prices and funds are in half credits, because the
balance check truncates with `int()` while the charge takes at least one credit.
A fault is a lost answer, a failing statement, a failing balance look-up (which
counts as an empty purse), a crash, or a stall in which a claim goes stale under its
owner. `charges`, `blame` and `paid` are history. The lock is taken and left in
one step here; `EventIdempotency` has it in detail.

### CreditLedger

`accounts`, `allocs` and `allocated` (of campaigns) are tables, `ledger` the sum of the
transactions per account. A call reads, makes a plan (`todo`, the statements it will
run), and runs it one statement at a time; `Applies` is the WHERE clause of the
statement, `PressesOn` whether the code goes on after one that changed no row.
`excuse[a]` records why the two records of an account's credits may differ: a
transfer ("moved"), an expiration the balance could not pay ("lapsed"), a refused
update whose transaction stays ("refused"), a lost call ("lost"). `shared` are
allocations that two plans had at the same time.

`_build_consumption_plan` sorts the available allocations and lets each give what it
has until nothing remains to be paid. `ConsumptionPlan` says the same without a loop: what
remains to be paid at an allocation is the amount less what those that sort before it
have (`Owed`), it is used if that is positive (`Used`), and gives the lesser of the two
(`Part`); the plan is the used ones in their order (`Sorted`). `PlanStatements` lays three
statements per item in a row.

There is a plan only if the allocations are `Sortable`: the repository turns timestamps into ISO
strings, the sort key puts `datetime.max` for an allocation that never expires, and
Python does not compare the two. For a user with both kinds the sort raises and
`consume_credits` answers an error (`CoveredIsConsumed` in `CreditLedger_expired.cfg`). `Grants`
says which kinds of allocation a run makes.

Left out: `PUT /campaigns/{id}` (`main.py:529-545`, `credit_service.py:1317-1356`), which
may lower `total_budget` below what was allocated, after which `CampaignPays` would not hold of
the new budget; and a failure of the count of a user's allocations from a campaign, which
`credit_repository.py:744-746` turns into 0, so that the limit per user is not checked. That
limit is in none of the properties of the runs.

### GracefulShutdown

One process: the manager's fields, its requests, the lifespan's phase, and the
timers, counted in ticks of the drain's poll. Both ways the services use it are
covered (`bounded`: `shutdown_with_timeout`, or the steps one by one). A cleanup
that blocks takes the loop; only the timer thread of a signal still runs. When
the server leaves the lifespan, and whether it starts again, is external.

The deregistration is a synchronous call to Consul, on the event loop, that need not
return: `calling` says who waits in it (the signal handler or the lifespan), and while
somebody does no coroutine, request or signal handler runs. In the signal handler it precedes
the start of the timer, so a signal ends the process only if Consul answers: `SignalEnds`
starts where it has, `NeverHangs` shows the rest.

`registry` is what the manager knows of the registration: only `project_service`,
`memory_service`, `developer_service` and `artifact_service`, of the 41 that use the manager, call
`set_consul_registry` (and `artifact_service` may raise before it does,
`main.py:219-227`). The others deregister in a cleanup, after the drain
(`notification_service/main.py:149-160` and `182-185`); `RejectsUnrouted` is about the
four, `UnroutedFirst` about all.

A request is `running` until `call_next` returns its response, `sending` while its body
and its background tasks go on, which nobody counts: streamed downloads
(`compliance_service/main.py:895`, `telemetry_service/main.py:1282`) and the background
tasks of event_service may be cut (`BodiesDrained`). A reload sets the counter to 0 under
requests that go on (`outlived`); when one of them ends it takes a request of the new
run from the count (`strays`). `CountIsExact` and `CleanAfterDrain` allow as many
uncounted requests as there are strays, and none when there is none.

### NotificationDelivery

`row[n]` is the status column, `job[w][n]` what the coroutine of worker w does with
notification n: the request that created it, the loop of a replica, or the batch
task. A step ends at an await of the database or a provider. A time to send at may be
absent, later, or later with a time zone; the last makes the comparison raise
after the INSERT, so the caller gets an error and the loop sends it. Faults are
failing statements, a lost answer, and a crash, which takes all coroutines of the
replica. A loop that claimed rows may fail to parse some of them
(`notification_repository.py:581-587`): no coroutine gets them and they stay SENDING, without a
fault; `Settles` excuses them by name ("unread"). A push to an iOS device is only logged and
recorded as delivered: `StatusIsTrue` excuses it by name ("assumed"). `calls`, `accepted`, `announced` and `blame` are history.

## Runs

`tlc -config X.cfg M`; the module and the configuration of each run are in `PROJECT.json`.

### What holds

| Run | Question | Bounds |
|---|---|---|
| `circuit_breaker` | Is the breaker sound under concurrent requests, and does an open circuit get probed? | 3 callers, threshold 2, timeout 2, 1 probe: one request more than the threshold, so that a trip happens with a request still in flight |
| `event_idempotency` | Is the work exclusive, the credit explained, the claim implemented, and does every delivery return, under all faults? | 2 pods with a worker each, TTLs 2 < 3 < 4 in the order of 120 < 300 < 900 s, work up to 2 ticks (so the lock can expire under its holder), 1 fault |
| `inventory` | Are settled reservations final and announcements true? | 2 requests, 2 orders, 2 rows: a race on one row and the choice between two |
| `order_saga` | Does a paid order get shipped, whatever the order of the events, whether the customer cancels or ids of handled events are forgotten? | goods, cancellation or eviction, no faults, 2 reservation and 3 shipment rows: as many as the events can ask for |
| `order_saga_faults` | Do goods go out unpaid or not from stock, is an order charged without its stock reserved, does an event ship twice, with a fault? | goods with 1 fault, or with a declined payment; credits with 1 fault, with the customer cancelling and the bank declining, or the account deleted and event ids forgotten; 3 reservation and 4 shipment rows: one of each more than the events can ask for without the fault |
| `wallet_ledger` | Do balances stay non-negative and do rows account for them? | 2 concurrent calls, 2 users, 2 wallets, all operations, 4 operations, 1 fault |
| `subscription_credits` | Are credits neither made nor lost, held once per request and settled once, and is the escrow implemented? | 2 concurrent calls of 5, 1 payer with up to 2 subscriptions, 1 request id and calls without one, 2 holds, usage below, at and above the estimate, 1 fault |
| `usage_billing` | Is a key charged again only for a fault that explains it, and do records and funds agree? | 2 replicas, an event published twice, one charged upstream, one without a claim for half a credit; 3 deliveries, 2 faults (a charge that is lost, and one more while it is repeated) |
| `credit_ledger` | When may balance, allocations and transactions disagree, and is an allocation used once, soonest expiry first? | 2 concurrent calls of 3, 2 users, 2 types, 2 accounts, 2 allocations, expiring and never expiring ones, a campaign for two grants, 1 fault |
| `graceful_shutdown` | Is the count exact, is nothing cleaned up under an unanswered request, is a process rejecting only once Consul was asked to unlist it, and does a shutdown, or a signal, end the process? | 2 requests, 2 cleanups, 2 starts; force exit 2 < grace 6, like 10 s < 30 s |
| `notification_delivery` | Is nobody notified twice, is the status true, does everything settle? | a notification by request (for later, or with a time zone) and one of the batch to two devices, 2 polling replicas, 1 fault |

Distinct states: `circuit_breaker` 154, `event_idempotency` 130,402, `inventory`
1,180,892, `order_saga` 425,224, `order_saga_faults` 2,577,700, `wallet_ledger`
2,545,878, `subscription_credits` 1,769,250, `usage_billing` 2,898,454, `credit_ledger`
2,052,021, `graceful_shutdown` 574,034, `notification_delivery` 371,137.

The runs leave out what is proved for every value of the constants and follows there from
the same inductive invariant: the type invariants of the modules that have proofs,
`OpenFailsFast`, `CompletedIsFinal` of `EventIdempotency`, `FinalIsFinal`,
`ReceiptsMatchCharges`, `CleanupsTried`, `NotBeforeTime` and
`FinalStays`.

Deadlock is checked where the system runs on (breaker, idempotency, inventory). The other
models end: the saga with its one order, the ledgers and the billing with their
bounded operations, a process with its exit, the notifications when all are settled.
Symmetry is used for the interchangeable replicas, calls and users of the
billing and the credit run, neither of which checks liveness.

### Where the code and its documentation disagree

`event_idempotency_crash` checks one property taken from a comment and finds a
behaviour of the code that breaks it: a crash between deposit and completion
credits twice after the claim went stale. The finding in `PROJECT.json` quotes the
lines.

The configurations below show further disagreements in the same way. They are
kept to reproduce what the notes of the hazards in `PROJECT.json` say, and are
not among the regular runs: they vary what the runs above show. Where one configuration names
several properties, TLC stops at the first it refutes; each is refuted by itself as well.

| Configuration | Module | What happens |
|---|---|---|
| `CircuitBreaker_halfopen.cfg` | `CircuitBreaker` | an unrecorded probe leaves the circuit HALF_OPEN, refusing everything |
| `CircuitBreaker_transitions.cfg` | `CircuitBreaker` | a late success closes an OPEN circuit without a probe |
| `EventIdempotency_wedge.cfg` | `MCEventIdempotency` | a cached skip keeps the replays from reclaiming a crashed claim |
| `EventIdempotency_cached.cfg` | `MCEventIdempotency` | a failed deposit is completed and cached as done |
| `Inventory_events.cfg` | `Inventory` | a commit and a release are both announced for one reservation |
| `OrderSaga_statuses.cfg` | `MCOrderSaga` | a payment that arrives late completes and ships a cancelled order (`CancellationIsPermanent`); a completed order becomes cancelled or failed (`CompletedOnlyRefunded`) |
| `OrderSaga_overtaken.cfg` | `MCOrderSaga` | payment.completed overtakes payment.initiated, and the paid order stays pending |
| `OrderSaga_twice.cfg` | `MCOrderSaga` | one payment ships twice, by two events with different ids |
| `OrderSaga_holds.cfg` | `MCOrderSaga` | order.canceled is never published: the stock of a cancelled order stays reserved |
| `WalletLedger_overdraft.cfg` | `WalletLedger` | two withdrawals spend the same balance |
| `WalletLedger_transfer.cfg` | `WalletLedger` | a transfer loses the money when its rollback fails too |
| `WalletLedger_refund.cfg` | `WalletLedger` | a transaction is refunded beyond its amount |
| `SubscriptionCredits_active.cfg` | `SubscriptionCredits` | two creates give one payer two active subscriptions (`OneActivePerPayer`); credits used through a reservation leave no history (`EveryUseLogged`) |
| `SubscriptionCredits_adjust.cfg` | `SubscriptionCredits` | an adjustment hands out again what was consumed meanwhile |
| `UsageBilling_twice.cfg` | `MCUsageBilling` | a key is charged twice after a fault |
| `UsageBilling_skip.cfg` | `MCUsageBilling` | an event is remembered as processed and never billed |
| `CreditLedger_drift.cfg` | `MCCreditLedger` | balance and allocations differ without any fault |
| `CreditLedger_expired.cfg` | `MCCreditLedger` | an expired allocation is consumed (`ExpiredNotConsumed`); an expiring and a never-expiring allocation together make every consumption fail (`CoveredIsConsumed`) |
| `GracefulShutdown_promises.cfg` | `GracefulShutdown` | the forced exit cuts the grace period short (`GraceGranted`); a Consul that does not answer hangs the process (`NeverHangs`); most services reject requests that Consul still routes to them (`UnroutedFirst`); streamed bodies are not waited for (`BodiesDrained`) |
| `GracefulShutdown_reload.cfg` | `GracefulShutdown` | the timer of an earlier signal ends a reloaded server |
| `NotificationDelivery_stuck.cfg` | `MCNotificationDelivery` | an interrupted notification stays SENDING for ever |

## Fairness

- Event loops keep running: weak fairness of the steps of an accepted request, of
  a running handler and of a waiting event.
- Time passes: weak fairness of `Tick`. Redis expires keys by itself.
- HTTP calls of the clients are answered or time out: httpx has a timeout on every one of them.
  Consul is called by another library, and nothing is assumed of it.
- The breaker's callers keep sending requests where the property is about a
  probe, since only a read of the state makes an open circuit half open.
- The timer thread of a signal, once started, runs even when the event loop is blocked
  (`ForcedExit`); the drain and the cleanups run while the loop does (`Handler`). Nothing makes
  Consul answer a deregistration, a request end or a server stop.
- Every polling loop of notification_service wakes up after its sleep, and every
  coroutine of a claimed notification runs on.
- Nothing is assumed of users, of Stripe, or of faults.

## Theorems

All are for every value of the constants that satisfies the modules' assumptions:
any number of callers, pods, calls, orders, wallets and faults. The assumptions
are those of a running system: the sets of concurrent calls, replicas and requests are
finite (the sums and counts need it, the code serves finitely many at a time), "none"
values (`NoUser`, `Nobody`, ...) are no users or replicas, amounts are positive, and in
`UsageBilling` two events have the same key only when both are usage events. Only
the theorems about `EventIdempotency` take a condition the code does not establish,
`MaxProcessing < StaleAfter`, explained above.

`ComponentProofs` holds the proofs of four modules that share no name, so that
each of its theorems is about exactly one of them; for that, `GracefulShutdown`,
`CircuitBreaker` and `EventIdempotency` name their `Spec`, `Init` and `TypeOK` after
themselves.

| Theorem | Statement | Inductive invariant |
|---|---|---|
| `BreakerSafe` | `BreakerTypeOK` and `TripAndRecoverySound` | their conjunction; a lemma says what `Refresh` preserves |
| `BreakerFailsFast` | `OpenFailsFast` | as above, per step |
| `ClaimSafe` | `WorkExclusive`, `DuplicatesExplained` | `ClaimInv`: the worker that holds the claim has a row in processing whose age is at most its own running time (`HolderOwnsRow`), so with `MaxProcessing < StaleAfter` the row cannot be stale while it is held; the workers in `credited` are at "mark"; credits and unrecorded credits add up (`CreditCount`) |
| `CompletedClaimIsFinal` | `CompletedIsFinal` | from `ClaimInv`: a completed row has no holder left that could settle it |
| `TokenProtectsLock` | `OnlyOwnerReleases` | typing only; needs no bound on the processing time |
| `HandlersImplementClaim` | `ImplementsClaim`, the refinement of `EventClaim` | from `ClaimInv`: the holder the mapping CHOOSEs is unique |
| `InventorySafe` | `TypeOK`, `AnnouncedIsSettled` | their conjunction: a row in an event is in the table and not active, and no statement makes a row active again |
| `SettledStaysSettled` | `SettledIsFinal` | per step |
| `LedgerAccounted` | `LedgerAccounts` of `WalletLedger` | `AccountInv`: as long as no statement was disturbed, the balance of every wallet is what its rows say plus `Pending`, the sum of what the operations in progress have written and not yet booked (`Balanced`); an operation works on wallets that exist (`Orderly`), a transfer that goes on to its target has taken the amount (`Taken`), and unused wallets have neither money nor rows (`Unused`) |
| `LedgerSafe` | `TypeOK`, `NonNegative` | `NonNegative` includes the values that pending UPDATEs will write; without them a write could not be shown to keep the balance non-negative |
| `CreditsTyped`, `HeldOnce`, `AnnouncedAsIs`, `AnswersAreCharges` | `TypeOK`, `OneHoldPerRequest`, `EventsAgree`, `ReceiptsMatchCharges` of `SubscriptionCredits` | `CreditsInv`: typing of the tables (`SubsInv`), of the holds status by status, with the columns and the last answer each status goes with (`RowsInv`), and of the calls, whose row numbers exist (`CallsInv`) |
| `CreditsAreKept` | `CreditsAddUp` of `SubscriptionCredits` | itself, given `CreditsInv`: every statement moves credits between columns of one row or between a row and its holds; the sum over the holds changes by one summand |
| `DirectUseIsLogged` | `HistoryAccounts`, for allocations and direct consumption | `LogInv`: the history plus `ToLog`, the sum of what operations have changed and not yet logged, is what was allocated less what was consumed directly, unless a statement failed or an adjustment put the columns out of step |
| `FinishedIsFinal` | `FinalIsFinal` | from `CreditsInv`, per step |
| `ServiceImplementsEscrow` | `ImplementsEscrow`, the refinement of `CreditEscrow` | from `CreditsInv`: a reconcile finds the extra credits among the free ones because it checks the locked row |
| `TypeCorrect`, `CountCorrect`, `DrainCorrect`, `RoutingCorrect`, `CleanupCorrect` | the invariants of `GracefulShutdown` | their conjunction with three facts: a lifespan that is leaving rejects requests (`Leaving`), so the counter cannot rise under the cleanups; a stray lived through a reload and has ended (`StraysEnded`); a run starts without a registry of its own (`StartsBare`) |
| `DeliveryTyped`, `NobodyNotifiedTwice`, `StatusesTrue`, `NothingEarly` | `TypeOK`, `OfferedOnce`, `StatusIsTrue`, `NotBeforeTime` of `NotificationDelivery` | `DeliveryInv`: at most one worker is past the claim of a notification, its row says how far it is, and that worker knows which targets are still to be tried |
| `FinalStatusStays` | `FinalStays` | from `DeliveryInv`, per step |
| `BillingTyped`, `RecordsTrue` | `TypeOK`, `RecordsTellTheTruth` of `UsageBilling` | `BillingInv`: a handler between the INSERT and the UPDATE of its billing record owns that row (`OwnRows`), the row is still "processing", and its `paid` fits the step the handler is at (`Knows`) |
| `ChargesExplained` | `ChargesAreExplained` of `UsageBilling` | `ChargeInv`: per key, the charges made, the handlers that can still charge (`Chargers`) and the claim that can still be granted (`Open`) are together at most one more than the blame (`ChargeBound`); without a fault the claim keeps all but one handler away (`FaultFree`); only usage events are claimed |
| `FundsAccounted` | `FundsAccountedFor` of `UsageBilling` | `Accounted`: what a source of funds has lost is the sum over the rows paid from it; only the step that charges changes either side, by the same amount |
| `CompletedClaimStays` | `CompletedIsFinal` of `UsageBilling` | typing, and `ClaimWrites`: what each statement on `event_processing_claims` may do to a row |
| `ClaimExplained` | `DuplicatesExplained` by itself | `ClaimInv` |
| `TypesKept`, `DriftIsExplained`, `LedgerAgreement`, `UsedOnce`, `CampaignsPay` | `TypeOK`, `DriftExplained`, `LedgerAgrees`, `UsedOnceUnlessShared`, `CampaignPays` of `CreditLedger` | `LedgerInv`, explained below |
| `SpendsSoonestFirst` | `SoonestFirst` | from `LedgerInv`, per step: an allocation that sorts before a used one is owed at least what it has, because a sum over part of the available allocations is at most the whole; a plan exists only for sortable allocations |
| `SagaTyped`, `NothingUnpaid`, `ReservedBeforeCharge`, `ShippedPerEvent` | `TypeOK`, `FulfilledOnlyIfPaid`, `ChargedOnlyIfReserved`, `OneShipmentPerEvent` of `OrderSaga` | `SagaInv`: every event delivered, handled or marked was published (`Announced`); a completion was published only after Stripe succeeded, orders are completed, shipments tracked and labels bought only after one, the intent follows order.created, and that is published for goods only when a reservation row exists (`Paying`); a commit in progress has seen a completion, a release a failed payment (`CallsSound`), so the rows have too (`RowsSettled`); tracked shipments are at most the completions that are marked or about to be (`Counted`). On top of it `LabelInv`: fulfilment's handler works on a shipment without a label, and one with a label says so |

`SagaInv` and `LabelInv` were checked with TLC as invariants of `order_saga_faults`. The
invariants of the parts of the saga need each other only one way: what was published never
becomes unpublished, so a call of `Inventory` keeps what it was begun for however long it
waits.

`LedgerInv` of `CreditLedger` has to say what a call that is half way through its statements
still owes, since nothing else explains why its account is out of step at that moment:

- `CallsSound`: what is left of a call's statements has the shape of an allocation, a
  transfer, a deletion or a plan, so that from the first of them one can tell what has
  been done; every item of a plan is a transaction, a balance and a use of the same
  amount on the same account, and no allocation comes twice.
- `BalanceInv`: of an account without an excuse, the drift is the sum over the calls of what
  each has put on the balance and not yet on an allocation (`Drifting`), and ledger less
  balance is the sum of what each has booked and not yet paid (`Booked`). Every
  statement moves both sides by the same amount; when nobody is at the account both sums
  are zero, which is `DriftExplained` and `LedgerAgrees`.
- `AllocsInv`: an allocation disappears only with its account, or a deletion was lost, so a use
  that finds no row is excused.
- `UseInv`: an allocation that is not shared is planned by at most one call, for no more than it
  has left; its `Left` is never negative.
- `CampaignInv`: a campaign's charge plus the budget updates still to come (`ToCharge`) is
  what it granted, unless a refused or lost update explains the rest.

`LedgerInv` was checked with TLC as an invariant of `credit_ledger` before it was proved. It
holds for plans that cover less than the amount asked for, and for a deletion running beside
any other call.

Sums are over finite sets (`SumFunctionOnSet`), about which `SumTheorems` proves what the
ledgers need: a sum is an integer, does not change when no summand does, and changes by
the difference when one does. The prover cannot use an induction rule that takes a
predicate, so each of these facts is proved by a least counterexample: were it false, it
would fail for a set of smallest cardinality, and removing one element of that set
gives a smaller one.

Only model-checked: the liveness properties `OpenEventuallyProbes`, `HandlerReturns`,
`PaidGetsShipped`, `SignalEnds`, `ShutdownEnds` and `Settles`, since the prover handles
neither fairness nor ENABLED, and `ShippedFromStock`, whose proof would have to follow the
reservation rows that each commit finds. Every other property of the passing runs is a theorem. The
disagreements above are counterexamples and stay with TLC, which finds them.

## Other weak spots of the code

Met while modelling; `PROJECT.json` lists the hazards the properties are for.

- `wallet_service/events/handlers.py:593`: The claim statement fails: the event is
  neither claimed nor processed, yet the skip is cached like a result.
- `wallet_service/wallet_service.py:222`: deposit turns exceptions into a return value
  that the event handler does not look at.
- `inventory_service/inventory_repository.py:168`: The UPDATE of an already settled row
  changes nothing and is not told apart from one that did; the event goes out all the
  same.
- `fulfillment_service/events/handlers.py:223` and `inventory_service/events/handlers.py`: the
  handlers of order.canceled never run, since the event is never published.
- `order_service/clients/payment_client.py:130`: the path of the payment intent does not exist
  in payment_service, and the request has no credentials.
- `distributed_lock.py:641`: the second look at the cached result saves work; the claim
  row decides without it.
- `core/graceful_shutdown.py:256`: a response counts as finished before its body is sent.
- `credit_service/credit_repository.py:744`: a failing count of allocations reads as 0, and
  the limit per user is not checked.
- `credit_service/credit_service.py:1317`: a campaign's budget may be set below what it has
  allocated.
- `wallet_service/wallet_repository.py:641`: A sequence of refunds of one transaction,
  or of a refund or a deposit.
- `wallet_service/wallet_service.py:125`: The check for an existing wallet and the
  INSERT are two statements.
- `wallet_service/wallet_repository.py:530`: A transfer from a wallet to itself is not
  refused: its two updates work on one row, with balances read before either of them.
- `wallet_service/wallet_repository.py:395`: Decimal amounts are converted to float on
  their way to the database.
- `order_service/order_service.py:604`: OrderService calls self._get_service_url, which
  is not defined: crediting, refunding and charging the wallet end in an AttributeError
  that is caught and logged.
- `subscription_service/subscription_service.py:786`: Reconciling with zero actual
  credits: zero and missing are not told apart in the answer.
- `subscription_service/subscription_repository.py:416`: A consumption that is retried
  is charged again: usage_record_id is recorded and never looked up, while
  docs/domain/subscription_service.md:413-415 says duplicates are rejected.
- `subscription_service/subscription_repository.py:770`: A pending reservation whose
  client disappears is never released: no job looks for old holds.
- `billing_service/events/handlers.py:284`: A replica that found the claim taken
  remembers the event as processed, and the winner fails afterwards.
- `billing_service/billing_service.py:1061`: The quota that is checked is never counted
  up: no code writes quota_used.
- `billing_service/billing_service.py:1657`: WalletClient has no method consume and
  wallet_service no route for the credit deductions billing falls back to; the error is
  caught and the record fails.
- `billing_service/events/handlers.py:828`: handle_user_deleted calls methods
  BillingService does not define; the errors are caught one by one.
- `credit_service/credit_service.py:504`: The count of a user's allocations from a
  campaign is read before the allocation is made.
- `credit_service/credit_service.py:273`: An allocation that is retried is made again:
  nothing identifies it, while docs/domain/credit_service.md:545 says "Duplicate
  allocations prevented by idempotency".
- `credit_service/events/handlers.py:100`: The handlers of user.created,
  subscription.created and order.completed call methods or pass arguments CreditService
  does not have; the TypeError or AttributeError is caught and logged.
- `notification_service/notification_service.py:383`: The batch counts by the status of
  an object that is never refreshed after the send.
- `notification_service/notification_service.py:332`: A batch with a schedule in the
  future is stored and no loop ever starts it.
- `notification_service/events/handlers.py:28`: The event handlers remember processed
  events in memory only: a restart or the eviction at 10000 forgets them, and the
  eviction keeps an arbitrary half of a set.
- `compliance_service/compliance_service.py:269`: run_data_request reads the status and
  writes it after calls to every service, without a condition: two runs of one erasure
  request interleave, and the user.deleted event is published twice or not at all.

## Not modelled

Services that keep records over one table or call external APIs; cryptography
and token checks; configuration, logging, metrics; database migrations; queries,
statistics and administration endpoints of the modelled services; text,
formats and amounts with fractions (the wallet converts `Decimal` to `float`; see
`wallet_repository.py:395` above), except for the half credits of
`UsageBilling`. The platform has some 228 000 lines in 42 services; most are
request models, queries and adapters that hold no state a protocol depends on, so the map
covers a small share of the lines and most of the multi-step operations on
money, goods and messages.

## Plan

1. Done: circuit breaker, event idempotency with its abstract claim, inventory,
   order saga, wallet ledger, subscription credits with their abstract escrow,
   usage billing, credit ledger, graceful shutdown, notification delivery; theorems about
   all of them, for every safety property of the runs.
2. Proofs still worth having: a bound on how far concurrent calls can use an allocation beyond
   what it has, by the number of plans it is shared by; that the service implements
   an abstract ledger of credits, as `SubscriptionCredits` implements `CreditEscrow`.
3. `UserErasure`: `run_data_request` of compliance_service and the user.deleted handlers
   of the services it reaches.
4. `EventBus`: consumer naming, pull loop, acknowledgement, several subscriptions
   of one service (`nats_client.py`); then composed under the saga in place of
   one consumer per subscription. event_service's storage and replay after it.
5. The health latch of the distributed lock and of the Redis cache; the rate limiter with its
   fallback; membership, task, session, campaign and invitation life cycles; the
   payment service's refunds and invoices.
