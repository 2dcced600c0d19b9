--------------------------- MODULE OrderService ---------------------------
(***************************************************************************)
(* order-service: creating an order (idempotency lookup, pricing, stock    *)
(* reservation, the order transaction and its recovery path), status       *)
(* updates as a read followed by a compare-and-set, the reconciliation     *)
(* answers for the catalog's worker and the cancellation on a stock        *)
(* failure.  Several requests run interleaved; each database transaction   *)
(* is one step.  What the catalog answers is left open here: OrderSaga     *)
(* composes this module with the catalog.                                  *)
(***************************************************************************)
EXTENDS OrderContract

CONSTANTS
    Attempts,       \* executions of createOrder
    OrderOf,        \* the id each attempt computes: a hash of user and key, or a fresh uuid
    ItemsOf,        \* the items each attempt asks for
    Keyed,          \* order ids that were derived from an idempotency key
    Updaters,       \* executions of updateOrderStatus, one at a time each
    RoleOf,         \* the role of each updater's caller
    Workers         \* catalog replicas that call ReconcileReservation

ASSUME AttemptsAssumption ==
    /\ OrderOf \in [Attempts -> Orders]
    /\ ItemsOf \in [Attempts -> Baskets]
    /\ RoleOf \in [Updaters -> {"USER", "ADMIN"}]
    /\ Orders # {}

\* Only attempts that carry the same idempotency key compute the same order id.
ASSUME KeysAssumption ==
    \A a, b \in Attempts : a # b /\ OrderOf[a] = OrderOf[b] => OrderOf[a] \in Keyed

VARIABLES
    order,          \* Order.status, or NONE while there is no row
    orderItems,     \* the order's items
    requestHash,    \* IdempotencyRecord.requestHash of the key the id derives from
    oldOrder,       \* orders created at least 15 minutes ago
    orderOutbox,    \* rows ever written to the order service's outbox
    pc,             \* where each createOrder is
    update,         \* what each updateOrderStatus read
    call            \* where each worker's ReconcileReservation call is

orderVars == <<order, orderItems, requestHash, oldOrder, orderOutbox, pc, update, call>>
tables == <<order, orderItems, requestHash, oldOrder, orderOutbox>>

Status == {"PENDING", "CONFIRMED", "PAID", "SHIPPED", "COMPLETED", "CANCELLED"}
Paid == {"PAID", "SHIPPED", "COMPLETED"}
InFlight == {"start", "price", "reserve", "create", "recover", "release"}

Event(type, o) == [type |-> type, order |-> o]
OrderEvents == {Event(t, o) : t \in {"OrderCreated", "StockReleaseRequested"}, o \in Orders}

AnOrder == CHOOSE o \in Orders : TRUE
NoUpdate == [pc |-> "idle", order |-> AnOrder, from |-> "PENDING", to |-> "PENDING"]
NoCall == [pc |-> "idle", order |-> AnOrder, release |-> FALSE, commit |-> FALSE]

OrderTypeOK ==
    /\ order \in [Orders -> Status \cup {"NONE"}]
    /\ orderItems \in [Orders -> [Products -> Nat]]
    /\ requestHash \in [Orders -> [Products -> Nat]]
    /\ oldOrder \subseteq Orders
    /\ orderOutbox \subseteq OrderEvents
    /\ pc \in [Attempts -> InFlight \cup {"ok", "failed"}]
    /\ update \in [Updaters -> [pc : {"idle", "read"}, order : Orders, from : Status, to : Status]]
    /\ call \in [Workers -> [pc : {"idle", "cas", "reply"}, order : Orders,
                             release : BOOLEAN, commit : BOOLEAN]]

OrderInit ==
    /\ order = [o \in Orders |-> "NONE"]
    /\ orderItems = [o \in Orders |-> NoItems]
    /\ requestHash = [o \in Orders |-> NoItems]
    /\ oldOrder = {}
    /\ orderOutbox = {}
    /\ pc = [a \in Attempts |-> "start"]
    /\ update = [u \in Updaters |-> NoUpdate]
    /\ call = [w \in Workers |-> NoCall]

---------------------------------------------------------------------------
\* VALID_TRANSITIONS of orderStateMachine.ts.
ValidTransitions ==
    {<<"PENDING", "CONFIRMED">>, <<"PENDING", "CANCELLED">>,
     <<"CONFIRMED", "PAID">>, <<"CONFIRMED", "CANCELLED">>,
     <<"PAID", "SHIPPED">>, <<"PAID", "CANCELLED">>,
     <<"SHIPPED", "COMPLETED">>}

CanTransition(from, to) == <<from, to>> \in ValidTransitions

(* Operators named Mutant... are wrong on purpose: see StockReservation.               *)

MutantCancelOrder(o) ==
    /\ order' = [order EXCEPT ![o] = "CANCELLED"]
    /\ UNCHANGED <<orderItems, requestHash, oldOrder, orderOutbox>>

MutantCancelOrderEvent(o) ==
    /\ order' = [order EXCEPT ![o] = "CANCELLED"]
    /\ orderOutbox' = orderOutbox \cup {Event("StockReleased", o)}
    /\ UNCHANGED <<orderItems, requestHash, oldOrder>>

\* Cancelling writes the StockReleaseRequested row in the same transaction.
CancelOrder(o) ==
    /\ order' = [order EXCEPT ![o] = "CANCELLED"]
    /\ orderOutbox' = orderOutbox \cup {Event("StockReleaseRequested", o)}
    /\ UNCHANGED <<orderItems, requestHash, oldOrder>>

---------------------------------------------------------------------------
(* createOrder *)

HasRecord(o) == requestHash[o] # NoItems

MutantReplay(a, thrown) == pc' = [pc EXCEPT ![a] = "ok"]

\* replay() returns the stored order, or throws when the key was used for other items.
Replay(a, thrown) ==
    pc' = [pc EXCEPT ![a] = IF requestHash[OrderOf[a]] = ItemsOf[a] THEN "ok" ELSE thrown]

LookupIdempotency(a) ==
    /\ pc[a] = "start"
    /\ IF HasRecord(OrderOf[a])
       THEN Replay(a, "failed")
       ELSE pc' = [pc EXCEPT ![a] = "price"]
    /\ UNCHANGED <<tables, update, call>>

\* Every getProductDetails call found its product.
PriceItems(a) ==
    /\ pc[a] = "price"
    /\ pc' = [pc EXCEPT ![a] = "reserve"]
    /\ UNCHANGED <<tables, update, call>>

\* reserveStock resolved; a reservation for these items existed at that moment.
ReserveReply(a) ==
    /\ pc[a] = "reserve"
    /\ pc' = [pc EXCEPT ![a] = "create"]
    /\ UNCHANGED <<tables, update, call>>

\* The order transaction commits: it finds the record of a concurrent attempt with
\* the same key, or writes order, outbox row and record together.  The connection may
\* be lost after the commit, which the caller cannot tell from a rollback.
CreateOrder(a) ==
    LET o == OrderOf[a] IN
    /\ pc[a] = "create"
    /\ IF HasRecord(o)
       THEN /\ Replay(a, "recover")
            /\ UNCHANGED tables
       ELSE /\ order' = [order EXCEPT ![o] = "PENDING"]
            /\ orderItems' = [orderItems EXCEPT ![o] = ItemsOf[a]]
            /\ requestHash' = IF o \in Keyed
                              THEN [requestHash EXCEPT ![o] = ItemsOf[a]]
                              ELSE requestHash
            /\ orderOutbox' = orderOutbox \cup {Event("OrderCreated", o)}
            /\ \E outcome \in {"ok", "recover"} : pc' = [pc EXCEPT ![a] = outcome]
            /\ UNCHANGED oldOrder
    /\ UNCHANGED <<update, call>>

\* The transaction times out or is rolled back; the catch block takes over.
CreateFails(a) ==
    /\ pc[a] = "create"
    /\ pc' = [pc EXCEPT ![a] = "recover"]
    /\ UNCHANGED <<tables, update, call>>

MutantCheckOrderExists(a) ==
    /\ pc[a] = "recover"
    /\ pc' = [pc EXCEPT ![a] = "release"]
    /\ UNCHANGED <<tables, update, call>>

\* The catch block releases the stock only when it finds no order.
CheckOrderExists(a) ==
    /\ pc[a] = "recover"
    /\ pc' = [pc EXCEPT ![a] = IF order[OrderOf[a]] = "NONE" THEN "release" ELSE "failed"]
    /\ UNCHANGED <<tables, update, call>>

\* A dependency call fails for good, the catch block ends, or the process dies.
AttemptFails(a) ==
    /\ pc[a] \in InFlight
    /\ pc' = [pc EXCEPT ![a] = "failed"]
    /\ UNCHANGED <<tables, update, call>>

AttemptStep(a) ==
    \/ LookupIdempotency(a) \/ PriceItems(a) \/ ReserveReply(a)
    \/ CreateOrder(a) \/ CreateFails(a) \/ CheckOrderExists(a) \/ AttemptFails(a)

---------------------------------------------------------------------------
(* updateOrderStatus *)

\* The read, the role check and validateTransition; a rejected request changes nothing.
ReadForUpdate(u, o, to) ==
    /\ update[u].pc = "idle"
    /\ order[o] # "NONE"
    /\ RoleOf[u] # "ADMIN" => to = "CANCELLED" /\ order[o] \in {"PENDING", "CONFIRMED"}
    /\ CanTransition(order[o], to)
    /\ update' = [update EXCEPT ![u] =
                    [pc |-> "read", order |-> o, from |-> order[o], to |-> to]]
    /\ UNCHANGED <<tables, pc, call>>

\* An update by id alone.
MutantApplyUpdate(u) ==
    LET up == update[u] IN
    /\ up.pc = "read"
    /\ IF up.to = "CANCELLED"
       THEN CancelOrder(up.order)
       ELSE /\ order' = [order EXCEPT ![up.order] = up.to]
            /\ UNCHANGED <<orderItems, requestHash, oldOrder, orderOutbox>>
    /\ update' = [update EXCEPT ![u] = NoUpdate]
    /\ UNCHANGED <<pc, call>>

\* The compare-and-set on the status that was read; a miss is a 409 to the caller.
ApplyUpdate(u) ==
    LET up == update[u] IN
    /\ up.pc = "read"
    /\ IF order[up.order] # up.from
       THEN UNCHANGED tables
       ELSE IF up.to = "CANCELLED"
       THEN CancelOrder(up.order)
       ELSE /\ order' = [order EXCEPT ![up.order] = up.to]
            /\ UNCHANGED <<orderItems, requestHash, oldOrder, orderOutbox>>
    /\ update' = [update EXCEPT ![u] = NoUpdate]
    /\ UNCHANGED <<pc, call>>

---------------------------------------------------------------------------
(* reconcileReservation, cancelOrderForStockFailure and the clock *)

Answer(o, release, commit) ==
    [pc |-> "reply", order |-> o, release |-> release, commit |-> commit]

\* Commits a CONFIRMED order.
MutantReconcileReadCommits(w, o) ==
    /\ call[w].pc = "idle"
    /\ call' = [call EXCEPT ![w] =
         IF order[o] = "NONE" THEN Answer(o, TRUE, FALSE)
         ELSE IF order[o] = "PENDING" /\ o \in oldOrder
         THEN [Answer(o, FALSE, FALSE) EXCEPT !.pc = "cas"]
         ELSE Answer(o, order[o] = "CANCELLED", order[o] \in Paid \cup {"CONFIRMED"})]
    /\ UNCHANGED <<tables, pc, update>>

\* Keeps the stock of an unknown order.
MutantReconcileReadKeeps(w, o) ==
    /\ call[w].pc = "idle"
    /\ call' = [call EXCEPT ![w] =
         IF order[o] = "PENDING" /\ o \in oldOrder
         THEN [Answer(o, FALSE, FALSE) EXCEPT !.pc = "cas"]
         ELSE Answer(o, order[o] = "CANCELLED", order[o] \in Paid)]
    /\ UNCHANGED <<tables, pc, update>>

\* Reports the status without expiring the order.
MutantReconcileReadOnly(w, o) ==
    /\ call[w].pc = "idle"
    /\ call' = [call EXCEPT ![w] =
         IF order[o] = "NONE" THEN Answer(o, TRUE, FALSE)
         ELSE Answer(o, order[o] = "CANCELLED", order[o] \in Paid)]
    /\ UNCHANGED <<tables, pc, update>>

\* The first read of the handler decides: release for an unknown order, try to
\* expire an old PENDING one, otherwise report its status.
ReconcileRead(w, o) ==
    /\ call[w].pc = "idle"
    /\ call' = [call EXCEPT ![w] =
         IF order[o] = "NONE" THEN Answer(o, TRUE, FALSE)
         ELSE IF order[o] = "PENDING" /\ o \in oldOrder
         THEN [Answer(o, FALSE, FALSE) EXCEPT !.pc = "cas"]
         ELSE Answer(o, order[o] = "CANCELLED", order[o] \in Paid)]
    /\ UNCHANGED <<tables, pc, update>>

\* The expiry: a compare-and-set from PENDING, lost when the status moved meanwhile.
ReconcileCancel(w) ==
    LET o == call[w].order IN
    /\ call[w].pc = "cas"
    /\ IF order[o] = "PENDING" THEN CancelOrder(o) ELSE UNCHANGED tables
    /\ call' = [call EXCEPT ![w] = Answer(o, order[o] = "PENDING", FALSE)]
    /\ UNCHANGED <<pc, update>>

\* The worker has used the answer, its 5 s deadline passed, or the replica died.
EndCall(w) ==
    /\ call[w].pc # "idle"
    /\ call' = [call EXCEPT ![w] = NoCall]
    /\ UNCHANGED <<tables, pc, update>>

MutantCancelOrderForStockFailure(o) ==
    /\ IF order[o] \in {"PENDING", "CONFIRMED", "PAID"}
       THEN CancelOrder(o) ELSE UNCHANGED tables
    /\ UNCHANGED <<pc, update, call>>

CancelOrderForStockFailure(o) ==
    /\ IF order[o] \in {"PENDING", "CONFIRMED"} THEN CancelOrder(o) ELSE UNCHANGED tables
    /\ UNCHANGED <<pc, update, call>>

AgeOrder(o) ==
    /\ order[o] # "NONE"
    /\ o \notin oldOrder
    /\ oldOrder' = oldOrder \cup {o}
    /\ UNCHANGED <<order, orderItems, requestHash, orderOutbox, pc, update, call>>

OrderNext ==
    \/ \E a \in Attempts : AttemptStep(a)
    \/ \E u \in Updaters : ApplyUpdate(u)
                           \/ \E o \in Orders, to \in Status : ReadForUpdate(u, o, to)
    \/ \E w \in Workers : \/ ReconcileCancel(w) \/ EndCall(w)
                          \/ \E o \in Orders : ReconcileRead(w, o)
    \/ \E o \in Orders : CancelOrderForStockFailure(o) \/ AgeOrder(o)

OrderSpec == OrderInit /\ [][OrderNext]_orderVars

---------------------------------------------------------------------------
\* A client that is told its order was placed has exactly that order: whichever of
\* the concurrent attempts with the key committed first, nobody is handed the order
\* of a request for other items (createOrder's two idempotency checks).
RepliesMatchOrders ==
    \A a \in Attempts : pc[a] = "ok" =>
        order[OrderOf[a]] # "NONE" /\ orderItems[OrderOf[a]] = ItemsOf[a]

\* Every status an order goes through follows VALID_TRANSITIONS although updates
\* decide on a status they read earlier and race with each other, with expiry and
\* with stock failures; an order once created is never created again.
LegalTransitions ==
    [][\A o \in Orders : order'[o] # order[o] =>
          IF order[o] = "NONE" THEN order'[o] = "PENDING"
          ELSE CanTransition(order[o], order'[o])]_orderVars

\* Money was taken: only an administrator who saw the order PAID cancels it.  Neither
\* a customer acting on an older read, nor expiry, nor a late stock failure does.
PaidCancelledOnlyByAdmin ==
    [][\A o \in Orders : order[o] = "PAID" /\ order'[o] = "CANCELLED" =>
          \E u \in Updaters : /\ RoleOf[u] = "ADMIN"
                              /\ update[u].pc = "read"
                              /\ update[u].order = o
                              /\ update[u].from = "PAID"]_orderVars

\* An order is cancelled by any of four paths exactly when the release of its stock
\* is requested, and a lost compare-and-set requests nothing.
CancelledExactlyWhenReleaseRequested ==
    \A o \in Orders :
        order[o] = "CANCELLED" <=> Event("StockReleaseRequested", o) \in orderOutbox
===========================================================================
