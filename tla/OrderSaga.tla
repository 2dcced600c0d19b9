----------------------------- MODULE OrderSaga -----------------------------
(***************************************************************************)
(* order-service and catalog-service together: the gRPC calls with which   *)
(* createOrder reserves and gives back stock, the events both exchange     *)
(* through their outboxes and Kafka, and the catalog's reservation worker. *)
(* Calls may be executed late, repeatedly or not at all; an event may be   *)
(* published by the relay at any time or never, and once published it may  *)
(* be consumed late, repeatedly, out of order or never.                    *)
(***************************************************************************)
EXTENDS StockReservation, OrderService

CONSTANT MaxCalls   \* executions of one RPC the retry loop can cause

ASSUME MaxCallsAssumption == MaxCalls \in Nat

VARIABLES
    reserveCalls,   \* ReserveStock executions an attempt may still cause
    releaseCalls,   \* ReleaseStock executions an attempt may still cause
    reservedBy,     \* history: the attempt whose call created the reservation
    oldReservation, \* reservations created at least 15 minutes ago
    stockFailed,    \* orders with a StockReservationFailed row in the catalog's outbox
    processed,      \* orders whose OrderCreated event is in ProcessedEvent
    published,      \* events on their Kafka topics
    todo            \* rows of its batch each worker has not asked about yet

sagaOwn == <<reserveCalls, releaseCalls, reservedBy, oldReservation, stockFailed,
             processed, published, todo>>
sagaVars == <<stockVars, orderVars, sagaOwn>>

Events == OrderEvents \cup {Event("StockReservationFailed", o) : o \in Orders}

SagaTypeOK ==
    /\ StockTypeOK
    /\ OrderTypeOK
    /\ reserveCalls \in [Attempts -> Nat]
    /\ releaseCalls \in [Attempts -> Nat]
    /\ reservedBy \in [Orders -> SUBSET Attempts]
    /\ oldReservation \subseteq Orders
    /\ stockFailed \subseteq Orders
    /\ processed \subseteq Orders
    /\ published \subseteq Events
    /\ todo \in [Workers -> SUBSET Orders]

SagaInit ==
    /\ StockInit
    /\ OrderInit
    /\ reserveCalls = [a \in Attempts |-> 0]
    /\ releaseCalls = [a \in Attempts |-> 0]
    /\ reservedBy = [o \in Orders |-> {}]
    /\ oldReservation = {}
    /\ stockFailed = {}
    /\ processed = {}
    /\ published = {}
    /\ todo = [w \in Workers |-> {}]

---------------------------------------------------------------------------
(* createOrder against the catalog *)

\* Pricing has read the products one by one, so each is there or was a moment ago.  The
\* retry loop around ReserveStock starts.
StartReserve(a) ==
    /\ \A p \in Products : ItemsOf[a][p] > 0 => product[p] # "unborn"
    /\ PriceItems(a)
    /\ reserveCalls' = [reserveCalls EXCEPT ![a] = MaxCalls]
    /\ UNCHANGED <<stockVars, releaseCalls, reservedBy, oldReservation, stockFailed,
                   processed, published, todo>>

(* Operators named Mutant... are wrong on purpose: see StockReservation.               *)

\* The catalog executes one ReserveStock call.  The attempt may be waiting for the
\* reply, may miss it, or may be over: a breaker timeout does not stop the loop.
CatalogReserves(a) ==
    LET o == OrderOf[a]
        outcome == ReserveOutcome(o, ItemsOf[a]) IN
    /\ reserveCalls[a] > 0
    /\ reserveCalls' = [reserveCalls EXCEPT ![a] = @ - 1]
    /\ ReserveStock(o, ItemsOf[a])
    /\ reservedBy' = IF outcome = "reserved"
                     THEN [reservedBy EXCEPT ![o] = {a}] ELSE reservedBy
    /\ \/ outcome \in {"reserved", "existing"} /\ ReserveReply(a)
       \/ UNCHANGED orderVars
    /\ UNCHANGED <<releaseCalls, oldReservation, stockFailed, processed, published, todo>>

\* The catch block found no order and starts the retry loop around ReleaseStock.
StartRelease(a) ==
    /\ CheckOrderExists(a)
    /\ releaseCalls' = IF pc'[a] = "release"
                       THEN [releaseCalls EXCEPT ![a] = MaxCalls] ELSE releaseCalls
    /\ UNCHANGED <<stockVars, reserveCalls, reservedBy, oldReservation, stockFailed,
                   processed, published, todo>>

CatalogReleases(a) ==
    /\ releaseCalls[a] > 0
    /\ releaseCalls' = [releaseCalls EXCEPT ![a] = @ - 1]
    /\ ReleaseStock(OrderOf[a])
    /\ UNCHANGED <<orderVars, reserveCalls, reservedBy, oldReservation, stockFailed,
                   processed, published, todo>>

AttemptEnds(a) == AttemptFails(a) /\ UNCHANGED <<stockVars, sagaOwn>>

CreateStep(a) ==
    \/ StartReserve(a)
    \/ CatalogReserves(a)
    \/ StartRelease(a)
    \/ CatalogReleases(a)
    \/ AttemptEnds(a)
    \/ /\ LookupIdempotency(a) \/ CreateOrder(a) \/ CreateFails(a)
       /\ UNCHANGED <<stockVars, sagaOwn>>

---------------------------------------------------------------------------
(* The outbox relays and the Kafka consumers *)

OutboxRows == orderOutbox \cup {Event("StockReservationFailed", o) : o \in stockFailed}

\* A row that is never published is one that became FAILED; a send that failed may have been
\* stored nevertheless, so a FAILED row may also be one that is published.
Publish(e) ==
    /\ e \in OutboxRows \ published
    /\ published' = published \cup {e}
    /\ UNCHANGED <<stockVars, orderVars, reserveCalls, releaseCalls, reservedBy,
                   oldReservation, stockFailed, processed, todo>>

\* Forgets that a reservation may be COMMITTED by now.
MutantConsumeOrderCreated(o) ==
    /\ Event("OrderCreated", o) \in published
    /\ o \notin processed
    /\ processed' = processed \cup {o}
    /\ stockFailed' = IF reservation[o] # "RESERVED" THEN stockFailed \cup {o} ELSE stockFailed
    /\ UNCHANGED <<stockVars, orderVars, reserveCalls, releaseCalls, reservedBy,
                   oldReservation, published, todo>>

\* The catalog's consumer checks, once per event, that the order's stock is held.
ConsumeOrderCreated(o) ==
    /\ Event("OrderCreated", o) \in published
    /\ o \notin processed
    /\ processed' = processed \cup {o}
    /\ stockFailed' = IF reservation[o] \in {"NONE", "RELEASED"}
                      THEN stockFailed \cup {o} ELSE stockFailed
    /\ UNCHANGED <<stockVars, orderVars, reserveCalls, releaseCalls, reservedBy,
                   oldReservation, published, todo>>

ConsumeReleaseRequested(o) ==
    /\ Event("StockReleaseRequested", o) \in published
    /\ ReleaseStock(o)
    /\ UNCHANGED <<orderVars, sagaOwn>>

ConsumeReservationFailed(o) ==
    /\ Event("StockReservationFailed", o) \in published
    /\ CancelOrderForStockFailure(o)
    /\ UNCHANGED <<stockVars, sagaOwn>>

EventStep ==
    \/ \E e \in OutboxRows : Publish(e)
    \/ \E o \in Orders : \/ ConsumeOrderCreated(o)
                         \/ ConsumeReleaseRequested(o)
                         \/ ConsumeReservationFailed(o)

---------------------------------------------------------------------------
(* The reservation worker *)

Expired(o) == reservation[o] = "RESERVED" /\ o \in oldReservation

\* Fetch a batch of expired reservations; they are worked through from this snapshot.
ScanExpired(w) ==
    /\ call[w].pc = "idle" /\ todo[w] = {}
    /\ todo' = [todo EXCEPT ![w] = {o \in Orders : Expired(o)}]
    /\ UNCHANGED <<stockVars, orderVars, reserveCalls, releaseCalls, reservedBy,
                   oldReservation, stockFailed, processed, published>>

AskOrderService(w, o) ==
    /\ o \in todo[w]
    /\ ReconcileRead(w, o)
    /\ todo' = [todo EXCEPT ![w] = @ \ {o}]
    /\ UNCHANGED <<stockVars, reserveCalls, releaseCalls, reservedBy, oldReservation,
                   stockFailed, processed, published>>

CancelAsAsked(w) == ReconcileCancel(w) /\ UNCHANGED <<stockVars, sagaOwn>>

\* Commits whatever need not be released.
MutantApplyAnswer(w) ==
    LET o == call[w].order IN
    /\ call[w].pc = "reply"
    /\ IF call[w].release THEN ReleaseStock(o) ELSE CommitReservation(o)
    /\ EndCall(w)
    /\ UNCHANGED sagaOwn

\* The answer is acted on after it was given, on whatever the row has become.
ApplyAnswer(w) ==
    LET o == call[w].order IN
    /\ call[w].pc = "reply"
    /\ IF call[w].release THEN ReleaseStock(o)
       ELSE IF call[w].commit THEN CommitReservation(o)
       ELSE UNCHANGED stockVars
    /\ EndCall(w)
    /\ UNCHANGED sagaOwn

\* The call misses its deadline, and the worker goes on with the next row; or the
\* replica dies, and the restarted worker scans afresh.  The handler may have got as
\* far as its compare-and-set or not; one that outlives its caller is, to the others,
\* another worker's call.
LoseAnswer(w) ==
    /\ EndCall(w)
    /\ todo' \in {todo, [todo EXCEPT ![w] = {}]}
    /\ UNCHANGED <<stockVars, reserveCalls, releaseCalls, reservedBy, oldReservation,
                   stockFailed, processed, published>>

WorkerStep(w) ==
    \/ ScanExpired(w)
    \/ \E o \in Orders : AskOrderService(w, o)
    \/ CancelAsAsked(w)
    \/ ApplyAnswer(w)
    \/ LoseAnswer(w)

---------------------------------------------------------------------------
(* Time, administrators and customers *)

Ended == {"ok", "failed"}

\* createOrder is bounded by seconds of timeouts, so the attempt that created a
\* reservation is over before the reservation is 15 minutes old.  Later attempts
\* with the same key find an old reservation and are not restricted.
AgeReservation(o) ==
    /\ reservation[o] # "NONE"
    /\ o \notin oldReservation
    /\ \A a \in reservedBy[o] : pc[a] \in Ended
    /\ oldReservation' = oldReservation \cup {o}
    /\ UNCHANGED <<stockVars, orderVars, reserveCalls, releaseCalls, reservedBy,
                   stockFailed, processed, published, todo>>

\* The reservation was made before the order.
AgeSagaOrder(o) ==
    /\ o \in oldReservation
    /\ AgeOrder(o)
    /\ UNCHANGED <<stockVars, sagaOwn>>

UpdateStep ==
    /\ \E u \in Updaters : ApplyUpdate(u)
                           \/ \E o \in Orders, to \in Status : ReadForUpdate(u, o, to)
    /\ UNCHANGED <<stockVars, sagaOwn>>

ProductStep == AdminStep /\ UNCHANGED <<orderVars, sagaOwn>>

SagaNext ==
    \/ \E a \in Attempts : CreateStep(a)
    \/ EventStep
    \/ \E w \in Workers : WorkerStep(w)
    \/ \E o \in Orders : AgeReservation(o) \/ AgeSagaOrder(o)
    \/ UpdateStep
    \/ ProductStep

SagaSpec == SagaInit /\ [][SagaNext]_sagaVars
---------------------------------------------------------------------------
\* An order never exists without a reservation for exactly its items, although
\* reservation and order live in two databases and several attempts with the same
\* key, for different items, may race through both (createOrder reserves first).
OrderHasReservation ==
    \A o \in Orders : order[o] # "NONE" =>
        reservation[o] # "NONE" /\ items[o] = orderItems[o]

\* The units of an order that is not cancelled stay off the shelf: a release is only
\* permitted for an order that was cancelled first or will never be created
\* (orderService.ts:189, reservationWorker.ts:22).
LiveOrderHoldsStock ==
    \A o \in Orders : order[o] \notin {"NONE", "CANCELLED"} =>
        reservation[o] \in {"RESERVED", "COMMITTED"}

\* Stock is committed only for an order that was paid, however late the worker
\* applies the answer it was given.
CommittedWasPaid ==
    \A o \in Orders : reservation[o] = "COMMITTED" => order[o] \in Paid \cup {"CANCELLED"}

\* A stock failure, which cancels the order, is only ever raised for an order whose
\* units were given back: no customer loses an order whose stock is held for it.
FailureOnlyWithoutStock ==
    \A o \in stockFailed : reservation[o] = "RELEASED"

---------------------------------------------------------------------------
(* Progress.  Calls have deadlines, so attempts end; clocks advance; a worker   *)
(* rescans every minute, and order-service answers it infinitely often.  Nothing *)
(* is assumed of the relays and consumers: every event may be lost.             *)
SagaFairness ==
    /\ \A a \in Attempts : WF_sagaVars(AttemptEnds(a))
    /\ \A o \in Orders : WF_sagaVars(AgeReservation(o)) /\ WF_sagaVars(AgeSagaOrder(o))
    /\ \A w \in Workers :
          /\ WF_sagaVars(ScanExpired(w))
          /\ \A o \in Orders :
                /\ WF_sagaVars(AskOrderService(w, o))
                /\ SF_sagaVars(CancelAsAsked(w) /\ call[w].order = o)
                /\ SF_sagaVars(ApplyAnswer(w) /\ call[w].order = o)

FairSagaSpec == SagaSpec /\ SagaFairness

\* Deleting a product leaves its reservations stuck: releasing them throws.
Stuck(o) == \E p \in Products : items[o][p] > 0 /\ product[p] = "deleted"

\* Units reserved by an attempt that died, or for an order that was cancelled, come
\* back even if every call and event that should have released them was lost.
UnusedStockReturns ==
    \A o \in Orders :
        reservation[o] = "RESERVED" /\ order[o] \in {"NONE", "CANCELLED"}
            ~> reservation[o] # "RESERVED" \/ order[o] \notin {"NONE", "CANCELLED"} \/ Stuck(o)

\* No order stays PENDING and keeps its stock for ever: if nobody confirms it, the worker
\* expires it (reservationWorker.ts:22).  The worker asks about RESERVED rows alone: an order
\* that lost its stock to the release race of LiveOrderHoldsStock may stay PENDING for ever,
\* which only a shared key makes possible (OrderSagaProofs, UnsharedOrdersExpire).
PendingExpires ==
    \A o \in Orders : order[o] = "PENDING" ~> order[o] # "PENDING" \/ reservation[o] = "RELEASED"
============================================================================
