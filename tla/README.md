# A TLA+ verification of the e-commerce microservices

The repository is a TypeScript shop: an API gateway, an identity service, a catalog
service with a stock ledger, an order service, and packages for messaging, gRPC, caching
and errors. This directory holds TLA+ models of its core, the TLC runs that check them
on small instances, and TLAPS proofs for every instance. `PROJECT.json` ties each
definition to the source lines it models and lists runs, hazards and theorems.

Paths below are relative to `src/`: `order-service` and `catalog-service` are under
`services/`, `messaging-kit` and `grpc-kit` under `packages/`.

## 1. Inventory

| Component | State | Operations | Talks to | Correct when |
|---|---|---|---|---|
| Catalog stock ledger (`catalog-service/src/services/stockService.ts`, `productService.ts`) | `Product.stock`, `StockReservation`, catalog outbox | reserve, release, create/update/delete product | order service (gRPC), Kafka | units are conserved, stock is never negative, a reservation settles once |
| Reservation worker (`catalog-service/src/events/reservationWorker.ts`) | one batch in memory | scan, ask the order service, release or commit | order service (gRPC) | abandoned stock returns, old PENDING orders that hold stock expire, live orders keep their stock |
| Catalog consumer (`catalog-service/src/events/kafka.ts`) | `ProcessedEvent` | handle OrderCreated, StockReleaseRequested | Kafka | a stock failure is raised only if the stock is gone |
| Order service (`order-service/src/services/orderService.ts`, `orderStateMachine.ts`) | `Order`, `IdempotencyRecord`, order outbox | createOrder, updateOrderStatus, reconcileReservation, cancelOrderForStockFailure | catalog (gRPC), Kafka | replies match orders, statuses follow the state machine, a cancellation requests a release |
| Order listing (`orderService.ts`, `grpc/handlers/orders.ts`) | a client's cursor | getOrders by key, a page at a time | order database | each order is listed once, none is missed |
| Outbox relay (`messaging-kit/src/outboxWorker.ts`) | row status, retry count | batch, publish, retry, give up, clean | database, Kafka | at least once or FAILED |
| Consumer harness (`messaging-kit/src/consumer.ts`, `tools/replay-dlq.mjs`) | offsets, dead-letter topics | decode, retry, dead-letter, replay | Kafka | no event is dropped silently |
| Resilient gRPC client (`grpc-kit/src/grpc/resilientClient.ts`) | one circuit breaker per method | call with deadline, retries, breaker | catalog | every call ends once for its caller, no breaker is stuck |
| Identity (`identity-service/src/services/authService.ts`) | users, refresh tokens, Redis cutoff and user cache | register, log in, refresh, log out, validate, change role | Redis | a refresh token works once, a revoked session stays revoked |
| Product and list caches (`productService.ts`) | Redis keys, list version | fill, invalidate | Redis | staleness is bounded |
| Gateway (`edge/api-gateway/src`) | requests in flight, rate limits in Redis | limit, verify, route, translate errors | all services | errors keep their meaning, every request is answered |
| Error model (`errors/src`) | none | to and from gRPC, to HTTP | – | an error means the same after two hops |
| Lifecycle (`grpc-kit/src/shutdown`, `server.ts`) | – | start, drain, stop | – | no work is cut in half unnoticed |
| Foundation services (cart, inventory, payment, search, notification, media) | none | start an empty server | – | – |

Hard behaviour: reservation and order live in two databases without a common
transaction; calls are retried, time out and may still execute; several attempts share
an idempotency key and with it order id and reservation; events are repeated, late or
lost; a worker acts on answers that age; transactions run at READ COMMITTED with
advisory locks that one writer does not take; relays and their transactions die between
a send and its commit; Redis fails open; timers of different lengths watch one request
and stop whoever waits but not what runs. The `hazards` of `PROJECT.json` list
where each of these bites.

## 2. Modules

```
OrderContract            order ids, products, item lists
  StockReservation       the stock ledger, one step per transaction
    StockTx              the same transactions, one step per statement (implements it)
  OrderService           createOrder, status updates, expiry, the catalog left open
StockReservation + OrderService
  OrderSaga              both composed: calls, events, worker, time

IdentityTokens           sessions, rotation, revocation; the gateway's token check

EventTopic               one partition of a topic, and the budget of incidents
  OutboxRelay            the replicas that publish the outbox
  EventConsumer          the consumer harness, dead letters, the replay tool
OutboxRelay + EventConsumer
  EventDelivery          both composed (implements AtLeastOnce and EventTransport)
AtLeastOnce              what outbox, relay and consumer promise together
EventTransport           what OrderSaga takes for granted of them (OrderSaga implements it, too)

ErrorModel               errors and their conversions, as operators
  RequestPath            gateway, order service, resilient client and breakers

Listing                  pages of orders while new ones are inserted
```

Each component has an `MC...` module that gives the constants of its runs, and a
`...Proofs` module with its theorems. Operators named `Mutant...` are deliberately wrong
variants of the definition they precede; they record which bug each property notices and
are used by no specification.

### StockReservation
`product`, `stock`, `reservation` and `items` are the columns of the tables `Product`
and `StockReservation` (prisma/schema.prisma); `stockReleased` is the set of orders with
a StockReleased row in the outbox (nothing in the repository consumes that event).
`supplied` is a history variable: the units administrators put on sale.
`ReserveStock`, `ReleaseStock`, `CommitReservation`, `CreateProduct`, `UpdateProduct` and
`DeleteProduct` are the transactions of the same names; `ReserveOutcome` is what
reserveStock answers (create, return the existing row, refuse other items, refuse a
released reservation, not enough stock). An item list is a function from products to
quantities, which is what the merge and sort in `canonical()` make of it. The inputs
allowed by the validators (`orderValidators.ts`, `canonical()`) are the assumption
`BasketsAssumption`.

### StockTx
A session in `tx` goes through the statements of reserveStock or releaseStock: advisory
lock, read of the reservation, its update, the products one after another, commit. A
statement that needs a lock another session holds waits; after the wait it acts on the
newest committed row, as PostgreSQL does at READ COMMITTED; any transaction may be
aborted. `tx[t].updated` is the set of products whose rows it has locked. The worker's
`updateMany` (`CommitRow`) and product writes are single statements that wait only for
a row lock.

The refinement into StockReservation needs one twist. releaseStock reads RESERVED and
then sets RELEASED by order id alone (stockService.ts:55-57), and the worker's update
does not take the advisory lock, so a row may become COMMITTED between the two
statements and is then overwritten with RELEASED. The order of the effects is as if the
commit had never found its row. `SettledReservation` therefore shows RESERVED while a
release of the order is between its read and its end; with that mapping every behaviour
is one of `StockSpec` (`ImplementsLedger`). If the release aborts instead, the commit
takes effect at that moment.

### OrderService
`order`, `orderItems` and `requestHash` are the tables `Order`, `OrderItem` and
`IdempotencyRecord`; `orderOutbox` holds every outbox row ever written. `pc[a]` is where
the execution `a` of createOrder is: first lookup, pricing, reserveStock, the order
transaction, the catch block's check, its release. `OrderOf[a]` is the order id it
computes: a hash of user and key, so attempts with the same key compute the same id
(`KeysAssumption`), or a fresh uuid. A request hash is modelled by the items it is
computed from. `CreateOrder` is the whole transaction (second lookup, order, outbox row,
record); its commit may reach the caller or not, and a transaction may fail. The
advisory lock makes it one step. `update[u]` is the order an updateOrderStatus has
read; `ApplyUpdate` is its compare-and-set. `call[w]` is a ReconcileReservation in
progress: the read and the compare-and-set are two steps, because only createOrder and
other reconciliations respect the advisory lock, while status updates come in between.
The two steps of one call are not kept apart from createOrder's transaction by a lock in
the model; that allows more interleavings than the code, never fewer.

### OrderSaga
`reserveCalls[a]` and `releaseCalls[a]` are executions the retry loop of
`invokeResilientGrpc` may still cause, at most `MaxCalls`. An execution may happen while
the attempt waits, and its reply may be lost, or when the attempt is long over: the
breaker's timeout rejects the caller, but the loop inside goes on.
`published` are the outbox rows on Kafka; a row that is never published is one that
became FAILED. A published event can be consumed any number of times, in any order, or never;
`processed` is the table ProcessedEvent. `todo[w]` is the worker's batch, a snapshot.
Handlers that outlive their caller's deadline are the calls of further workers in
`Workers`.

Time is two flags: `oldReservation` and `oldOrder` are rows older than 15 minutes. Two
assumptions are made of it. An order is younger than its reservation (it is created
after). And a reservation becomes old only when the attempt that created it has ended
(`AgeReservation`): the timeouts between reservation and end of createOrder (breaker
11 s, transaction 10 s plus 10 s of waiting, release 11 s) add up to less than a minute.
Attempts that merely found the reservation are not restricted.

OrderSaga uses relay and consumer only through their contract, EventTransport: rows are
written by transactions, only written rows reach the topic, only what is on the topic is
consumed, and nothing of it need happen. `SagaUsesTransport` proves that the saga does
nothing else with its events, and EventDelivery, the detail behind the contract, is
checked and proved to implement the same module.

### IdentityTokens
`registered` and `refresh` are the tables `User` and `RefreshToken`; `pair[t]` says to
whom a pair of tokens belongs, when its access token was signed and which login its
session began with. `cutoff` is the Redis key `auth:revoked-before:<user>` with its
expiry, `lock` the advisory lock that rotation and logout take per user. `req[r]` is a
request between two of its statements: registration's lookup and insert, the read of a
login before its token row, the lookup of a refresh before the lock, the rotation inside
its transaction, the transaction of a reuse or a logout before its cutoff. Times that
were read earlier are chosen between the read and the write (`GenerateTokens`,
`RevokeUserAccess`), because `Date.now()` is evaluated before the statement that uses it
takes effect. `GatewayAccepts` is `localTokenVerifier` and `ValidateToken` the RPC: they
differ when Redis does not answer. A crash drops a request and rolls its transaction
back. The user cache is left out: rows never change after their insert, so a cached copy
is never stale. Should changeUserRole get a caller, this must be revisited.

### EventTopic, OutboxRelay, EventConsumer, EventDelivery, AtLeastOnce, EventTransport
`log` is the partition; its messages are the events they carry. `row`, `retries` and
`due` are the columns of OutboxEvent, for rows in the order of (createdAt, id). A
replica's tick is a transaction `tx[w]` over its batch `todo`, `sent`, `failed`:
`Claim` is the SELECT ... FOR UPDATE SKIP LOCKED, `Publish` and `PublishFails` one turn
of the loop, `Commit` makes the rows' new status visible. What the callback writes
before the commit is invisible to others, so it is kept in the batch. `PublishUnacked`
is a send the broker stored and the producer saw fail. `TxTimeout` is Prisma's rollback
after 30 s while the callback runs on (`LateStep`): its next statement fails, one
publication may still complete. `Stop` and `Exit` are the graceful shutdown, which awaits
the tick; `Crash` is any other end of the process, the forced exit included.

The consumer works on one partition: `pos` is what it has finished, `committed` the
group's offset. A handler that throws is tried again up to `MaxAttempts` times unless
`isRetryable` refuses; then the message is dead-lettered, and if that fails eachMessage
rejects and the consumer starts again at the committed offset. When kafkajs commits an
offset is its own affair: at any time, up to `pos`. The replay tool copies the dead
letters from the first one, every time, as many as it found at its start and at most
`LateLetters` more, which the consumer may hand it before the tool ends. A message without
a value, which eachMessage ignores (consumer.ts:64), is sent by neither relay nor tool.

`AtLeastOnce` says what this is for: an event is owed from the commit that wrote it
until it is settled, never twice, and never owed again. `owedBar` maps a row to `owed`
until its message was handled or dead-lettered or the row is FAILED. The composition
implements it, liveness included (`ImplementsAtLeastOnce`).

`EventTransport` is the safety contract seen from the services: `written` are the events
whose row was committed, `published` those in the partition and `consumed` those a handler
has completed (`ImplementsTransport`). It and AtLeastOnce are abstract specifications and
stand for no code of their own.

### ErrorModel
A failure is a record of kind, code, HTTP and gRPC status. `HttpToGrpc`, `NormalizeError`,
`ToGrpcError`, `FromGrpcError` and `Respond` are the functions of those names and the
gateway's errorHandler; messages, details and stacks are left out.

### RequestPath
`route`, `answer` and `handler` follow one request per element of `Calls`; `handler` is
the stage of createOrder (pricing each product, reserving, the transaction, the recovery
with its release) or the single step of every other route. `loop[c]` is the retry loop
of its call to the catalog and whether the handler still awaits it, `breaker[m]` the
opossum breaker that all calls of a method share. Three timers are ordered, not counted:
an attempt can reach its deadline only when the gateway's 3 s are over
(`AttemptDeadline`), and the breaker gives up after the deadline of a first attempt
(`BreakerTimeout`). Opossum is external: closed, open after more than half of the
window's calls failed, half open after `resetTimeout` with one trial. The rolling window
empties at once (`WindowPasses`). `cause` is a history variable, the error that decided
the request and where it arose. `GetOrderById` answers with the order, or that it is not
there, or that it is somebody else's. The other routes are one step with an open outcome:
what they do is in the modules above. The gateway's second check of an order's owner
(app.ts:189) is left out, the order service has refused by then.

### Listing
`rows` is the table `Order` with the two columns the listing sorts by; `pages` and
`cursor` are what one client has received. `GetOrders` is getOrders behind its handler:
the limit is defaulted and clamped (`PageLimit`), the rows behind the cursor are selected
(`Resumes`), sorted and cut (`FirstRows`), and nextCursor is the last of them if more
matched. A cursor is the row it was made from, which is all encodeCursor keeps of it.
`InsertRow` may give an order a time before that of orders already there: createdAt is
the time its transaction began. Orders are never deleted and never change these columns.
The filter by user selects a fixed part of the table; no handler passes getOrders a status
or asks it for a total, both are left out. `there` is a history variable.

## 3. Runs

| Run | Instance | What it shows |
|---|---|---|
| `stock` | 3 orders, 2 products, 2 baskets that compete, stock 0 or 3 | conservation, final settlement, one reservation per move, exact announcements |
| `stock_tx` | 2 sessions, 2 orders, 2 products, overlapping baskets | no lock cycle, refinement of the ledger, conservation in the raw tables |
| `order_service` | 1 keyed order, 2 attempts with different items, 3 updaters (2 administrators, a customer), 2 workers | replies, legal transitions, protection of PAID, release requests |
| `saga_unkeyed` | 1 order, 1 attempt, 2 executions per call, 2 workers, 2 updaters, stock 0 or 2 | types, and the cross-database invariants of stock held, committed and failed, with losses and repetitions |
| `saga_keyed` | 1 key, 3 attempts, one for other items, 1 execution per call, 1 worker, 1 updater | who owns the key's reservation, and that only paid stock is committed, whoever created the order |
| `saga_live` | 1 key, 2 attempts for the same items, 1 execution per call, 1 worker, 1 updater, fairness | unused stock returns, and an order that keeps its stock does not stay PENDING |
| `identity` | a customer's account, 3 token pairs, 2 requests, access tokens of 2 ticks and refresh tokens of 3, a clock of 4 | single use, final revocation, bounded fail-open, cutoffs that last |
| `delivery` | 2 relays, 2 events, batches of 2, 2 tries, 2 attempts, 1 incident | at-least-once and the contract of OrderSaga as refinements, no skipped message, no repetition without faults |
| `request_path` | 2 requests (a customer's who orders 2 products or looks at an order, an administrator's order or product), 2 attempts per call | answers say what happened, no stuck breaker, everything ends |
| `listing` | 4 orders, 2 timestamps, limits -1, 0, 1, 2, 7 with default 2 and maximum 3 | no order twice, none missed |
| `breaker_refusal` | requests as in `request_path`, 4 attempts | `UnavailableIs503` fails, see section 5 |
| `saga_release_race` | 1 key, 2 attempts for the same items | `LiveOrderHoldsStock` fails, see section 5 |

Bounds. Orders interact only through stock, so the ledger runs have several orders and
the saga runs one; a key's races need two attempts, a third lets two agree against one.
Three orders let one reservation fail after two others changed the shelf; baskets of
different size make one decrement succeed and another fail. Two executions per call are
a call and a repetition; in `saga_keyed` and `saga_live` the other attempts with the key repeat each
other's calls instead. Two sessions suffice for a deadlock over two products; a longer
cycle is excluded by the same order. A session needs a login and a rotation, a reuse one
more pair, and races two requests; the clock runs long enough for a cutoff and the tokens
it covers to expire (`MaxTime`). Two events in one batch or in two let a relay die with
one row sent and one not; one incident is any crash, timeout, lost acknowledgement,
shutdown or replay at any point, and failed publications, which are no incident, come in
any number. One request opens a breaker and another meets it; two attempts are a failure
and its retry. Four orders with two times fill several pages whose borders lie between
orders of one time and of different times, and leave some to be inserted on either side
of a cursor. `MaxIncidents`, `LateLetters`, `MaxTime` and the number of token pairs bound state
that would grow for ever; nothing else is bounded: event and outbox sets are finite by
construction, and no state constraint is used. Deadlock is checked in every run but
`delivery`, `request_path`, `breaker_refusal` and `listing`, which come to rest when
their events, requests or pages are done.

Fairness (`SagaFairness`), used only by `saga_live`: attempts end (all their calls have
deadlines), clocks advance, and each worker keeps scanning and asking (its timer rearms
after every tick, `reservationWorker.ts:46-59`). Strong fairness of the expiry and of
applying an answer says that the order service answers and the catalog's database works
infinitely often, though any single call may fail. Nothing is assumed of relays, Kafka
or consumers, so the properties hold with every event lost. `UnusedStockReturns` excepts
reservations that name a deleted product: releasing them throws each time (`Stuck`).
`PendingExpires` allows a second outcome, a RELEASED reservation: the worker scans RESERVED
rows only (`reservationWorker.ts:16`), so a PENDING order that lost its stock in the release
race of section 5 is never asked about. Only a shared key makes that possible: the two
attempts of the run share one, and in the behaviours in which one of them fails at once the
other is alone. For orders whose key is not shared `UnsharedOrdersExpire` (section 4)
removes the second outcome.

`DeliveryFairness`: replicas and the consumer are scheduled and come back after a crash
or a stop (the orchestrator restarts them, the tick rearms itself, `connectKafka...`
retries every 5 s), and a backoff ends. The broker need never answer: then rows become
FAILED. Nobody needs to run the replay tool. `PathFairness`: while an attempt, a handler
or the gateway's deadline is due, something of it happens; no attempt need succeed, no
service need reply, no breaker need close.

## 4. Proofs

`StockReservationProofs`: `StockTypeOK` is inductive, `CanDecrement` being what keeps
stock natural; `ReleaseAnnouncedExactly` is inductive with it; the two action properties
follow step by step. `UnitsAreConserved` says that the shelf and the reservations of a
product add up to its supply. A step that moves units changes one reservation
(`UnitsMoveWithOneReservation`) and an administrator's write changes shelf and supply
alike; `UnbornUnsold` adds that nothing is held of a product that was not yet created.

The sum over the reservations is `SumFunction` of the community modules, a fold over a set
in an order nobody knows. The lemmas about it need induction over the natural numbers,
and the library's induction theorems have operator parameters, which the provers cannot
instantiate. The section on sums takes the other road: a set of naturals that has no least
element is empty, by the well-foundedness of < on Nat, and the counterexamples of a lemma
are such a set. In that way the fold's recursion is solved (`PartialSumsExist`), and the
sum is shown to be an integer (`SumIsInteger`), to be monotone (`SumGrows`), to change by
what one place changes (`SumChanges`), whatever order the fold takes.

`OrderServiceProofs`: the inductive invariant `OrderInv` adds to the types that record
and order of a key are written together (`RecordMatchesOrder`), that an id without a key
is inserted once (`UnkeyedCreatedOnce`, from `KeysAssumption`), that an update in flight
was allowed in the status it read (`UpdateWasAllowed`), and that outbox and statuses
agree. From them: a transaction that inserts finds no order (`CreateFindsNoOrder`), so no
order is overwritten, and every change of status is legal although it was decided on an
old read, since the compare-and-set ties it to that read.

`StockTxProofs`: `TxInv` says that what a transaction has read and updated is still so when
it commits, because its locks keep it: the products updated so far come before all that
remain, exist and suffice, an open reserve's order has no reservation, an open release's
reservation has its items and is RESERVED or was COMMITTED meanwhile, and no two sessions
hold one lock. `NoDeadlocks` follows from the order: among sessions that all wait, the one
that waits for the last product would wait for a session that waits for a later one
(`SomebodyRuns`; that finite sets of naturals have a greatest element is derived from the
library's well-foundedness of <). `StatementsImplementLedger` proves `ImplementsLedger`
whole: a COMMIT is the ledger's step, and a worker's commit that a release overwrites is
no step of the ledger, or is one when that release rolls back. `CommittedUnitsAreConserved`
comes from it: the ledger's theorems hold of the mapped rows, and `SettledReservation`
differs from the committed row only between RESERVED and COMMITTED, which hold the same
units.

`OrderSagaProofs`: every step of the saga is a step of its parts or leaves them alone
(`SagaImplementsOrder`, `SagaImplementsStock`), so the parts' theorems carry over. `SagaInv` relates
the two databases: an attempt in its transaction has a reservation for its items, a
commit answer in flight stays justified because PAID orders only move on or are
cancelled, published events were written. `UnsharedOrdersHoldStock` says
`LiveOrderHoldsStock` of every order that only one attempt can create, with nothing
assumed of the others, which may share keys. Its invariant is `AloneInv`: such an order
appears only from its one attempt, an attempt that is about to release will never create,
and a reservation is old only when its attempt is over, so that the worker's "unknown
order" is final. That the key is not shared is needed: `saga_release_race` violates the
property with two attempts and one key. `LiveOrdersHoldStock` is the case in which no
attempts share (`NoSharedKeys`).

`OrdersNeverOversell` joins the two databases: what the living orders of that kind were
sold of a product and what is on its shelf never exceed its supply. Sold units are held
(`SoldIsHeld`, by the monotony of sums) and what is held and the shelf are the supply
(`UnitsAreConserved`, which the saga inherits by `SagaImplementsStock`). No run checks
this formula; its parts are `LiveOrderHoldsStock`, `OrderHasReservation` and
`UnitsConserved`, which runs check. `SagaUsesTransport` shows each step of the saga to be
a transaction or a publication of EventTransport; of the three kinds of events only
OrderCreated leaves a record when it is consumed (`processed`), the other two consumers are
idempotent and keep none, so `consumed` is what that record shows.
`UnsharedOrdersExpire` derives from the model-checked `PendingExpires` and from
`UnsharedOrdersHoldStock` that an order whose key is not shared does not stay PENDING.

`IdentityTokensProofs`: the inductive invariant relates tokens, sessions, locks and
times: who rotates holds the user's lock and its token is live, so no revocation comes
between claim and successor; a revoked session's pairs are all revoked; every live pair
was signed before now, and a cutoff's expiry is at least the access life after it. From
it follow all four safety properties of the run, for any number of users, requests and
token pairs.

`EventDeliveryProofs`: the inductive invariant says that batches of open transactions
are disjoint and PENDING, that what a batch has `sent` is in the topic, and that before
any fault a message in the topic is either in some batch's `sent` or its row is marked.
`DeliveryKeepsThePromise` proves the refinement's safety part: each step accepts events,
settles events, or leaves `owedBar` alone, since settled places and FAILED or PUBLISHED
rows never go back. `DeliveryIsTransport` proves `ImplementsTransport` whole: a message is
stored only by a batch's publication, whose row is written, and a place is handled only
when the topic has a message there.

`RequestPathProofs`: what an answer says depends on two conversions per hop, so the proof
starts with them: a status made from a service's error keeps its HTTP status and code, is
NOT_FOUND exactly when the error means that (`OnTheWire`), and survives being read and
thrown on by a second service (`FromTheWire`). The inductive invariant `PathInv` says what
each stage of a handler implies: before the transaction there is no order and nothing to
blame, in a recovery the thrown error is the blamed one, an ended handler that nobody has
answered holds the error the client has to hear of, and an order stands only behind errors
answered with 503. For the breakers it says that a trial is awaited by some handler of
that method: whatever ends the awaited call ends the trial (`TrialOver`). The errors a
service throws are arbitrary members of `IsServiceError` (`ThrowsAssumption`).

`ListingProofs`: `CursorInv` says that everything listed so far comes before the cursor or
is the cursor's row, and that a row of the start that is not listed yet still matches. A
page is a prefix of what matches (`PageIsClosed`), its last row splits the rest from it
(`PageSplits`), and resuming behind that row selects exactly the rest (`ResumesAfter`).
The order of rows is total because ids are unique; that a finite table has a first and a
last row is derived from the size of what lies ahead.

Assumptions of the proofs are the ASSUMEs of the modules (`BasketsAssumption`,
`OrdersAssumption`, `StockLevelsAssumption`, `AttemptsAssumption`, `KeysAssumption`,
`MaxCallsAssumption`, `SortedProducts`, `SessionsAssumption`, `ListingAssumption`, and
those at the head of IdentityTokens, EventTopic, OutboxRelay, EventConsumer and
RequestPath); TLC evaluates them in the runs.

Only model-checked are the liveness properties, because temporal proofs with fairness are
out of the prover's reach: `UnusedStockReturns`, `PendingExpires`, `CallsEnd`, and the
liveness of `ImplementsAtLeastOnce`, whose safety part is proved. Every other property of
the passing runs is a theorem (`LiveOrderHoldsStock` for keys that no attempts share, the
ones of which it is true).

## 5. Findings

**Release race.** `createOrder` recovers from a failed transaction by looking for the order and, when it
finds none, releasing the stock in a separate call (orderService.ts:189-195). Attempts
with one idempotency key share order id and reservation. If a second attempt, which got
the existing reservation, creates the order between that look and that release, the
order lives and its stock is back on sale. The trace of `saga_release_race` has these
steps: a1 reserves; its transaction fails; it finds no order; a2 reserves (existing
row) and creates the order; the release of a1 executes. The catalog's OrderCreated
consumer raises a stock failure if the release comes first, but not if it comes later or the event is lost: then
the order also stays PENDING until somebody updates it, because the worker asks about
RESERVED reservations only. `PendingExpires` without its second outcome is violated in the
instance of `saga_live` by that continuation.

**Open breaker answered 500.** docs/API.md:75 maps unavailable services to 503. The
order service converts a failed ReserveStock only if the error has a numeric code
(grpcClients.ts:63-68); the breaker's refusal has the string code EOPENBREAKER, reaches
the client as 500 INTERNAL, and needs no outage to happen: the breaker counts
insufficient stock as a failure, so one refused order in a quiet window opens it for ten
seconds (`breaker_refusal`).

Observed while reading, shown by no run:

- ListProducts answers a nextCursor (handlers/products.ts:67), and neither its handler nor
  getProducts reads the request's cursor: following it gives the first page again.
- getListVersion sets the version to 1 without NX after reading none
  (productService.ts:20), which may overwrite increments made meanwhile: lists from before
  them are served until they expire, 60 s at most.
- docs/adr/0011-revocation-fail-mode-and-mtls.md:34 calls administrators "strictly
  protected against revoked credential replay". The gateway refuses them while Redis is
  down, but a logout whose cutoff could not be written is answered as done
  (authService.ts:135-141), and when Redis answers again nothing revokes the access token
  before it expires. `RevocationBounded` is what holds.
- The worker takes the 100 rows updated longest ago (reservationWorker.ts:18) and leaves a
  row whose release throws untouched; a hundred of them starve all others.

## 6. Not modelled

- Product and list caches. Their readers decide nothing: the list version is read before
  the query and incremented after a write, and 60 s bound a stale list; the product cache
  is read only by getProductById, which no RPC calls.
- Product listing. It reads and never writes, and pages by number; see section 5 for its
  cursor.
- The identity service's user cache and changeUserRole (see IdentityTokens).
- The order in which a server closes its parts, readiness endpoints, tracing; the
  counting of the rate limiter, which is express-rate-limit's.
- publishOutboxBatch, forwardToDlq, handlePrismaClientError, decrementProductStock and
  changeUserRole have no caller.
- Foundation services have no behaviour. Observability, configuration, generated stubs,
  deployment files and `docs/legacy` hold no state of the program. Prices, names
  and HTTP layouts are data that no property here depends on.

## 7. Plan

Done: StockReservation, OrderService, OrderSaga, StockTx, IdentityTokens, EventDelivery,
RequestPath, Listing, their runs and proofs. What could follow, in order of weight: several partitions for the replay
tool; worker batches smaller than the table; the product list cache.
