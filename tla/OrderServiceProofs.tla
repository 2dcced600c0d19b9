------------------------ MODULE OrderServiceProofs ------------------------
(***************************************************************************)
(* Safety of order-service for any number of attempts, keys, updaters and  *)
(* workers.  The catalog's answers are arbitrary.                          *)
(***************************************************************************)
EXTENDS OrderService, TLAPS

\* An idempotency record and the order of its key are written together.
RecordMatchesOrder ==
    \A o \in Orders :
        /\ HasRecord(o) => order[o] # "NONE" /\ orderItems[o] = requestHash[o]
        /\ o \in Keyed /\ order[o] # "NONE" => HasRecord(o)

\* The only attempt of an id without a key has left the transaction once the order exists.
UnkeyedCreatedOnce ==
    \A a \in Attempts :
        OrderOf[a] \notin Keyed /\ order[OrderOf[a]] # "NONE" =>
            pc[a] \in {"ok", "recover", "failed"}

\* An update in flight was allowed for its caller in the status it read.
UpdateWasAllowed ==
    \A u \in Updaters : update[u].pc = "read" =>
        /\ CanTransition(update[u].from, update[u].to)
        /\ RoleOf[u] # "ADMIN" => update[u].from \in {"PENDING", "CONFIRMED"}

\* Rows of the outbox and order statuses agree.
OutboxMatchesOrder ==
    \A o \in Orders :
        /\ order[o] = "CANCELLED" <=> Event("StockReleaseRequested", o) \in orderOutbox
        /\ Event("OrderCreated", o) \in orderOutbox => order[o] # "NONE"

OrderInv ==
    /\ OrderTypeOK
    /\ RecordMatchesOrder
    /\ UnkeyedCreatedOnce
    /\ UpdateWasAllowed
    /\ OutboxMatchesOrder
    /\ RepliesMatchOrders

---------------------------------------------------------------------------
LEMMA AnOrderIsOrder == AnOrder \in Orders
BY AttemptsAssumption DEF AnOrder

LEMMA BasketsAreLists ==
    /\ NoItems \in [Products -> Nat]
    /\ \A a \in Attempts : /\ OrderOf[a] \in Orders
                           /\ ItemsOf[a] \in [Products -> Nat]
                           /\ ItemsOf[a] # NoItems
<1>1. NoItems \in [Products -> Nat]
  BY DEF NoItems
<1>2. ASSUME NEW a \in Attempts
      PROVE  OrderOf[a] \in Orders /\ ItemsOf[a] \in [Products -> Nat] /\ ItemsOf[a] # NoItems
  <2>1. ItemsOf[a] \in Baskets /\ OrderOf[a] \in Orders
    BY AttemptsAssumption
  <2>2. PICK p \in Products : ItemsOf[a][p] > 0
    BY <2>1, BasketsAssumption
  <2>3. QED
    BY <2>1, <2>2, BasketsAssumption DEF NoItems
<1>3. QED
  BY <1>1, <1>2

LEMMA TransitionFacts ==
    \A from, to : CanTransition(from, to) =>
        /\ from \in Status /\ to \in Status
        /\ from # "CANCELLED" /\ from # to
        /\ to = "CANCELLED" => from \in {"PENDING", "CONFIRMED", "PAID"}
BY DEF CanTransition, ValidTransitions, Status

\* A transaction that inserts an order finds none: it holds the key's lock and saw no
\* record, or the id is its own.
LEMMA CreateFindsNoOrder ==
    ASSUME OrderInv, NEW a \in Attempts, pc[a] = "create", ~ HasRecord(OrderOf[a])
    PROVE  order[OrderOf[a]] = "NONE"
BY BasketsAreLists DEF OrderInv, RecordMatchesOrder, UnkeyedCreatedOnce

LEMMA OrderInitInv == OrderInit => OrderInv
<1> SUFFICES ASSUME OrderInit PROVE OrderInv
  OBVIOUS
<1>1. OrderTypeOK
  BY AnOrderIsOrder, BasketsAreLists
  DEF OrderInit, OrderTypeOK, NoUpdate, NoCall, Status, InFlight, OrderEvents
<1>2. RecordMatchesOrder /\ UnkeyedCreatedOnce /\ OutboxMatchesOrder /\ RepliesMatchOrders
  BY BasketsAreLists
  DEF OrderInit, RecordMatchesOrder, UnkeyedCreatedOnce, OutboxMatchesOrder,
      RepliesMatchOrders, HasRecord
<1>3. UpdateWasAllowed
  BY DEF OrderInit, UpdateWasAllowed, NoUpdate
<1>4. QED
  BY <1>1, <1>2, <1>3 DEF OrderInv

---------------------------------------------------------------------------
\* Cancelling an order whose status allows it keeps the tables consistent.
LEMMA CancelKeepsTables ==
    ASSUME OrderInv, NEW o \in Orders, order[o] \in {"PENDING", "CONFIRMED", "PAID"},
           CancelOrder(o), UNCHANGED pc
    PROVE  /\ order' \in [Orders -> Status \cup {"NONE"}]
           /\ orderOutbox' \subseteq OrderEvents
           /\ UNCHANGED <<orderItems, requestHash, oldOrder>>
           /\ RecordMatchesOrder'
           /\ UnkeyedCreatedOnce'
           /\ OutboxMatchesOrder'
           /\ RepliesMatchOrders'
<1>1. /\ order' = [order EXCEPT ![o] = "CANCELLED"]
      /\ orderOutbox' = orderOutbox \cup {Event("StockReleaseRequested", o)}
      /\ UNCHANGED <<orderItems, requestHash, oldOrder>>
  BY DEF CancelOrder
<1>2. order' \in [Orders -> Status \cup {"NONE"}] /\ orderOutbox' \subseteq OrderEvents
  BY <1>1 DEF OrderInv, OrderTypeOK, OrderEvents, Status
<1>3. \A q \in Orders : order'[q] = "NONE" <=> order[q] = "NONE"
  BY <1>1 DEF OrderInv, OrderTypeOK
<1>4. RecordMatchesOrder' /\ UnkeyedCreatedOnce' /\ RepliesMatchOrders'
  BY <1>1, <1>3, BasketsAreLists
  DEF OrderInv, RecordMatchesOrder, UnkeyedCreatedOnce, RepliesMatchOrders, HasRecord
<1>5. OutboxMatchesOrder'
  BY <1>1 DEF OrderInv, OrderTypeOK, OutboxMatchesOrder, Event
<1>6. QED
  BY <1>1, <1>2, <1>4, <1>5

\* Steps that leave the tables alone and move one attempt along, but not to "ok".
LEMMA AttemptMoves ==
    ASSUME OrderInv, NEW a \in Attempts, NEW to \in InFlight \cup {"failed"},
           pc[a] \in InFlight,
           pc' = [pc EXCEPT ![a] = to],
           UNCHANGED <<tables, update, call>>,
           pc[a] = "recover" => to \in {"recover", "failed"} \/ order[OrderOf[a]] = "NONE",
           pc[a] = "release" => to = "failed"
    PROVE  OrderInv'
<1>1. OrderTypeOK'
  BY DEF OrderInv, OrderTypeOK, tables, InFlight
<1>2. RecordMatchesOrder' /\ UpdateWasAllowed' /\ OutboxMatchesOrder'
  BY DEF OrderInv, RecordMatchesOrder, UpdateWasAllowed, OutboxMatchesOrder, HasRecord, tables
<1>3. RepliesMatchOrders'
  BY DEF OrderInv, OrderTypeOK, RepliesMatchOrders, tables, InFlight
<1>4. UnkeyedCreatedOnce'
  BY BasketsAreLists DEF OrderInv, OrderTypeOK, UnkeyedCreatedOnce, tables, InFlight
<1>5. QED
  BY <1>1, <1>2, <1>3, <1>4 DEF OrderInv

---------------------------------------------------------------------------
(* One lemma per group of actions *)

LEMMA LookupKeeps ==
    ASSUME OrderInv, NEW a \in Attempts, LookupIdempotency(a)
    PROVE  OrderInv'
<1>1. CASE HasRecord(OrderOf[a]) /\ requestHash[OrderOf[a]] = ItemsOf[a]
  <2>1. pc' = [pc EXCEPT ![a] = "ok"] /\ UNCHANGED <<tables, update, call>>
    BY <1>1 DEF LookupIdempotency, Replay
  <2>2. order[OrderOf[a]] # "NONE" /\ orderItems[OrderOf[a]] = ItemsOf[a]
    BY <1>1, BasketsAreLists DEF OrderInv, RecordMatchesOrder
  <2>3. OrderTypeOK'
    BY <2>1 DEF OrderInv, OrderTypeOK, tables
  <2>4. RecordMatchesOrder' /\ UpdateWasAllowed' /\ OutboxMatchesOrder'
    BY <2>1 DEF OrderInv, RecordMatchesOrder, UpdateWasAllowed, OutboxMatchesOrder,
                HasRecord, tables
  <2>5. UnkeyedCreatedOnce' /\ RepliesMatchOrders'
    BY <2>1, <2>2 DEF OrderInv, OrderTypeOK, UnkeyedCreatedOnce, RepliesMatchOrders, tables
  <2>6. QED
    BY <2>3, <2>4, <2>5 DEF OrderInv
<1>2. CASE ~ (HasRecord(OrderOf[a]) /\ requestHash[OrderOf[a]] = ItemsOf[a])
  <2>1. PICK to \in {"price", "failed"} : pc' = [pc EXCEPT ![a] = to]
    BY <1>2 DEF LookupIdempotency, Replay
  <2>2. pc[a] = "start" /\ UNCHANGED <<tables, update, call>>
    BY DEF LookupIdempotency
  <2>3. QED
    BY <2>1, <2>2, AttemptMoves DEF InFlight
<1>3. QED
  BY <1>1, <1>2

LEMMA CreateKeeps ==
    ASSUME OrderInv, NEW a \in Attempts, CreateOrder(a)
    PROVE  OrderInv'
<1> DEFINE o == OrderOf[a]
<1>0. /\ pc[a] = "create" /\ UNCHANGED <<update, call>>
      /\ o \in Orders /\ ItemsOf[a] \in [Products -> Nat] /\ ItemsOf[a] # NoItems
  BY BasketsAreLists DEF CreateOrder
<1>1. CASE HasRecord(o) /\ requestHash[o] # ItemsOf[a]
  BY <1>0, <1>1, AttemptMoves DEF CreateOrder, Replay, InFlight
<1>2. CASE HasRecord(o) /\ requestHash[o] = ItemsOf[a]
  <2>1. pc' = [pc EXCEPT ![a] = "ok"] /\ UNCHANGED tables
    BY <1>2 DEF CreateOrder, Replay
  <2>2. order[o] # "NONE" /\ orderItems[o] = ItemsOf[a]
    BY <1>0, <1>2 DEF OrderInv, RecordMatchesOrder
  <2>3. OrderTypeOK'
    BY <1>0, <2>1 DEF OrderInv, OrderTypeOK, tables
  <2>4. RecordMatchesOrder' /\ UpdateWasAllowed' /\ OutboxMatchesOrder'
    BY <1>0, <2>1 DEF OrderInv, RecordMatchesOrder, UpdateWasAllowed, OutboxMatchesOrder,
                HasRecord, tables
  <2>5. UnkeyedCreatedOnce' /\ RepliesMatchOrders'
    BY <2>1, <2>2 DEF OrderInv, OrderTypeOK, UnkeyedCreatedOnce, RepliesMatchOrders, tables
  <2>6. QED
    BY <2>3, <2>4, <2>5 DEF OrderInv
<1>3. CASE ~ HasRecord(o)
  <2>1. order[o] = "NONE"
    BY <1>0, <1>3, CreateFindsNoOrder
  <2>2. /\ order' = [order EXCEPT ![o] = "PENDING"]
        /\ orderItems' = [orderItems EXCEPT ![o] = ItemsOf[a]]
        /\ requestHash' = IF o \in Keyed
                          THEN [requestHash EXCEPT ![o] = ItemsOf[a]] ELSE requestHash
        /\ orderOutbox' = orderOutbox \cup {Event("OrderCreated", o)}
        /\ UNCHANGED oldOrder
    BY <1>3 DEF CreateOrder
  <2>3. PICK outcome \in {"ok", "recover"} : pc' = [pc EXCEPT ![a] = outcome]
    BY <1>3 DEF CreateOrder
  <2>4. OrderTypeOK'
    <3>1. Event("OrderCreated", o) \in OrderEvents
      BY <1>0 DEF OrderEvents
    <3>2. orderOutbox' \subseteq OrderEvents /\ oldOrder' \subseteq Orders
      BY <2>2, <3>1 DEF OrderInv, OrderTypeOK
    <3>3. order' \in [Orders -> Status \cup {"NONE"}]
      BY <1>0, <2>2 DEF OrderInv, OrderTypeOK, Status
    <3>4. /\ orderItems' \in [Orders -> [Products -> Nat]]
          /\ requestHash' \in [Orders -> [Products -> Nat]]
      BY <1>0, <2>2 DEF OrderInv, OrderTypeOK
    <3>5. pc' \in [Attempts -> InFlight \cup {"ok", "failed"}]
      BY <2>3 DEF OrderInv, OrderTypeOK, InFlight
    <3>6. QED
      BY <1>0, <3>2, <3>3, <3>4, <3>5 DEF OrderInv, OrderTypeOK
  <2>5. RecordMatchesOrder'
    BY <1>0, <2>1, <2>2 DEF OrderInv, OrderTypeOK, RecordMatchesOrder, HasRecord
  <2>6. UnkeyedCreatedOnce'
    BY <1>0, <2>2, <2>3, KeysAssumption, BasketsAreLists
    DEF OrderInv, OrderTypeOK, UnkeyedCreatedOnce
  <2>7. UpdateWasAllowed'
    BY <1>0 DEF OrderInv, UpdateWasAllowed
  <2>8. OutboxMatchesOrder'
    BY <1>0, <2>1, <2>2 DEF OrderInv, OrderTypeOK, OutboxMatchesOrder, Event
  <2>9. RepliesMatchOrders'
    BY <1>0, <2>1, <2>2, <2>3, BasketsAreLists DEF OrderInv, OrderTypeOK, RepliesMatchOrders
  <2>10. QED
    BY <2>4, <2>5, <2>6, <2>7, <2>8, <2>9 DEF OrderInv
<1>4. QED
  BY <1>1, <1>2, <1>3

LEMMA AttemptKeeps ==
    ASSUME OrderInv, NEW a \in Attempts, AttemptStep(a)
    PROVE  OrderInv'
<1>1. CASE LookupIdempotency(a)
  BY <1>1, LookupKeeps
<1>2. CASE CreateOrder(a)
  BY <1>2, CreateKeeps
<1>3. CASE PriceItems(a)
  BY <1>3, AttemptMoves DEF PriceItems, InFlight
<1>4. CASE ReserveReply(a)
  BY <1>4, AttemptMoves DEF ReserveReply, InFlight
<1>5. CASE CreateFails(a)
  BY <1>5, AttemptMoves DEF CreateFails, InFlight
<1>6. CASE CheckOrderExists(a)
  BY <1>6, AttemptMoves DEF CheckOrderExists, InFlight
<1>7. CASE AttemptFails(a)
  BY <1>7, AttemptMoves DEF AttemptFails
<1>8. QED
  BY <1>1, <1>2, <1>3, <1>4, <1>5, <1>6, <1>7 DEF AttemptStep

LEMMA ReadKeeps ==
    ASSUME OrderInv, NEW u \in Updaters, NEW o \in Orders, NEW to \in Status,
           ReadForUpdate(u, o, to)
    PROVE  OrderInv'
<1>1. /\ update' = [update EXCEPT ![u] =
                      [pc |-> "read", order |-> o, from |-> order[o], to |-> to]]
      /\ UNCHANGED <<tables, pc, call>>
      /\ order[o] # "NONE" /\ CanTransition(order[o], to)
      /\ RoleOf[u] # "ADMIN" => order[o] \in {"PENDING", "CONFIRMED"}
  BY DEF ReadForUpdate
<1>2. OrderTypeOK'
  BY <1>1, TransitionFacts DEF OrderInv, OrderTypeOK, tables
<1>3. UpdateWasAllowed'
  BY <1>1 DEF OrderInv, OrderTypeOK, UpdateWasAllowed
<1>4. RecordMatchesOrder' /\ UnkeyedCreatedOnce' /\ OutboxMatchesOrder' /\ RepliesMatchOrders'
  BY <1>1 DEF OrderInv, RecordMatchesOrder, UnkeyedCreatedOnce, OutboxMatchesOrder,
              RepliesMatchOrders, HasRecord, tables
<1>5. QED
  BY <1>2, <1>3, <1>4 DEF OrderInv

LEMMA ApplyKeeps ==
    ASSUME OrderInv, NEW u \in Updaters, ApplyUpdate(u)
    PROVE  OrderInv'
<1> DEFINE up == update[u]
<1>1. /\ up.pc = "read" /\ up.order \in Orders
      /\ CanTransition(up.from, up.to)
      /\ update' = [update EXCEPT ![u] = NoUpdate] /\ UNCHANGED <<pc, call>>
  BY DEF ApplyUpdate, OrderInv, OrderTypeOK, UpdateWasAllowed
<1>2. UpdateWasAllowed'
  BY <1>1 DEF OrderInv, OrderTypeOK, UpdateWasAllowed, NoUpdate
<1>3. update' \in [Updaters -> [pc : {"idle", "read"}, order : Orders, from : Status, to : Status]]
  BY <1>1, AnOrderIsOrder DEF OrderInv, OrderTypeOK, NoUpdate, Status
<1>4. CASE order[up.order] # up.from
  <2>1. UNCHANGED tables
    BY <1>4 DEF ApplyUpdate
  <2>2. OrderTypeOK'
    BY <1>1, <1>3, <2>1 DEF OrderInv, OrderTypeOK, tables
  <2>3. RecordMatchesOrder' /\ UnkeyedCreatedOnce' /\ OutboxMatchesOrder' /\ RepliesMatchOrders'
    BY <1>1, <2>1 DEF OrderInv, RecordMatchesOrder, UnkeyedCreatedOnce, OutboxMatchesOrder,
                RepliesMatchOrders, HasRecord, tables
  <2>4. QED
    BY <1>2, <2>2, <2>3 DEF OrderInv
<1>5. CASE order[up.order] = up.from /\ up.to = "CANCELLED"
  <2>1. CancelOrder(up.order) /\ order[up.order] \in {"PENDING", "CONFIRMED", "PAID"}
    BY <1>1, <1>5, TransitionFacts DEF ApplyUpdate
  <2>2. /\ order' \in [Orders -> Status \cup {"NONE"}]
        /\ orderOutbox' \subseteq OrderEvents
        /\ UNCHANGED <<orderItems, requestHash, oldOrder>>
        /\ RecordMatchesOrder' /\ UnkeyedCreatedOnce'
        /\ OutboxMatchesOrder' /\ RepliesMatchOrders'
    BY <1>1, <2>1, CancelKeepsTables
  <2>3. OrderTypeOK'
    BY <1>1, <1>3, <2>2 DEF OrderInv, OrderTypeOK
  <2>4. QED
    BY <1>2, <2>2, <2>3 DEF OrderInv
<1>6. CASE order[up.order] = up.from /\ up.to # "CANCELLED"
  <2>1. /\ order' = [order EXCEPT ![up.order] = up.to]
        /\ UNCHANGED <<orderItems, requestHash, oldOrder, orderOutbox>>
    BY <1>6 DEF ApplyUpdate
  <2>2. /\ up.to \in Status /\ up.to # "NONE" /\ up.from # "NONE" /\ up.from # "CANCELLED"
    BY <1>1, TransitionFacts DEF Status
  <2>3. OrderTypeOK'
    BY <1>1, <1>3, <2>1, <2>2 DEF OrderInv, OrderTypeOK
  <2>4. \A o \in Orders : order'[o] = "NONE" <=> order[o] = "NONE"
    BY <1>1, <1>6, <2>1, <2>2 DEF OrderInv, OrderTypeOK
  <2>5. RecordMatchesOrder' /\ UnkeyedCreatedOnce' /\ RepliesMatchOrders'
    BY <1>1, <2>1, <2>4, BasketsAreLists
    DEF OrderInv, RecordMatchesOrder, UnkeyedCreatedOnce, RepliesMatchOrders, HasRecord
  <2>6. OutboxMatchesOrder'
    BY <1>1, <1>6, <2>1, <2>2, <2>4 DEF OrderInv, OrderTypeOK, OutboxMatchesOrder
  <2>7. QED
    BY <1>2, <2>3, <2>5, <2>6 DEF OrderInv
<1>7. QED
  BY <1>4, <1>5, <1>6

\* Reconciliation, stock failures and the clock leave requests alone; if they touch the
\* tables they cancel a PENDING or CONFIRMED order.
LEMMA SystemStepKeeps ==
    ASSUME OrderInv, NEW o \in Orders,
           \/ order[o] \in {"PENDING", "CONFIRMED"} /\ CancelOrder(o)
           \/ UNCHANGED tables
           \/ AgeOrder(o),
           UNCHANGED <<pc, update>>,
           call' \in [Workers -> [pc : {"idle", "cas", "reply"}, order : Orders,
                                  release : BOOLEAN, commit : BOOLEAN]]
    PROVE  OrderInv'
<1>1. UpdateWasAllowed'
  BY DEF OrderInv, UpdateWasAllowed
<1>2. CASE order[o] \in {"PENDING", "CONFIRMED"} /\ CancelOrder(o)
  <2>1. /\ order' \in [Orders -> Status \cup {"NONE"}]
        /\ orderOutbox' \subseteq OrderEvents
        /\ UNCHANGED <<orderItems, requestHash, oldOrder>>
        /\ RecordMatchesOrder' /\ UnkeyedCreatedOnce'
        /\ OutboxMatchesOrder' /\ RepliesMatchOrders'
    BY <1>2, CancelKeepsTables
  <2>2. OrderTypeOK'
    BY <2>1 DEF OrderInv, OrderTypeOK
  <2>3. QED
    BY <1>1, <2>1, <2>2 DEF OrderInv
<1>3. CASE UNCHANGED tables \/ AgeOrder(o)
  <2>1. UNCHANGED <<order, orderItems, requestHash, orderOutbox>>
    BY <1>3 DEF AgeOrder, tables
  <2>2. OrderTypeOK'
    BY <1>3 DEF AgeOrder, tables, OrderInv, OrderTypeOK
  <2>3. RecordMatchesOrder' /\ UnkeyedCreatedOnce' /\ OutboxMatchesOrder' /\ RepliesMatchOrders'
    BY <2>1 DEF OrderInv, RecordMatchesOrder, UnkeyedCreatedOnce, OutboxMatchesOrder,
                RepliesMatchOrders, HasRecord
  <2>4. QED
    BY <1>1, <2>2, <2>3 DEF OrderInv
<1>4. QED
  BY <1>2, <1>3

LEMMA WorkerCallKeeps ==
    ASSUME OrderInv, NEW w \in Workers,
           \/ ReconcileCancel(w) \/ EndCall(w)
           \/ \E o \in Orders : ReconcileRead(w, o)
    PROVE  OrderInv'
<1> DEFINE Calls == [pc : {"idle", "cas", "reply"}, order : Orders,
                     release : BOOLEAN, commit : BOOLEAN]
<1>1. NoCall \in Calls /\ call \in [Workers -> Calls]
  BY AnOrderIsOrder DEF NoCall, OrderInv, OrderTypeOK
<1>2. CASE ReconcileCancel(w)
  <2>1. call[w].order \in Orders
    BY <1>1
  <2>2. call' \in [Workers -> Calls]
    BY <1>1, <1>2, <2>1 DEF ReconcileCancel, Answer
  <2>3. QED
    BY <1>2, <2>1, <2>2, SystemStepKeeps DEF ReconcileCancel
<1>3. CASE EndCall(w)
  <2>1. call' \in [Workers -> Calls]
    BY <1>1, <1>3 DEF EndCall
  <2>2. QED
    BY <1>3, <2>1, AnOrderIsOrder, SystemStepKeeps DEF EndCall
<1>4. ASSUME NEW o \in Orders, ReconcileRead(w, o)
      PROVE  OrderInv'
  <2>1. call' \in [Workers -> Calls]
    <3>1. \A r, c \in BOOLEAN : Answer(o, r, c) \in Calls
      BY DEF Answer
    <3>2. (order[o] = "CANCELLED") \in BOOLEAN /\ (order[o] \in Paid) \in BOOLEAN
      OBVIOUS
    <3>3. [Answer(o, FALSE, FALSE) EXCEPT !.pc = "cas"] \in Calls
      BY DEF Answer
    <3>4. QED
      BY <1>1, <1>4, <3>1, <3>2, <3>3 DEF ReconcileRead
  <2>2. QED
    BY <1>4, <2>1, SystemStepKeeps DEF ReconcileRead
<1>5. QED
  BY <1>2, <1>3, <1>4

---------------------------------------------------------------------------
\* The inductive invariant: every operation of order-service keeps its tables, its
\* outbox and the requests in flight consistent with one another.
THEOREM OrderInvariant == OrderSpec => []OrderInv
<1>1. OrderInv /\ [OrderNext]_orderVars => OrderInv'
  <2> SUFFICES ASSUME OrderInv, [OrderNext]_orderVars
               PROVE  OrderInv'
    OBVIOUS
  <2>1. ASSUME NEW a \in Attempts, AttemptStep(a)
        PROVE  OrderInv'
    BY <2>1, AttemptKeeps
  <2>2. ASSUME NEW u \in Updaters,
               ApplyUpdate(u) \/ \E o \in Orders, to \in Status : ReadForUpdate(u, o, to)
        PROVE  OrderInv'
    BY <2>2, ApplyKeeps, ReadKeeps
  <2>3. ASSUME NEW w \in Workers,
               \/ ReconcileCancel(w) \/ EndCall(w)
               \/ \E o \in Orders : ReconcileRead(w, o)
        PROVE  OrderInv'
    BY <2>3, WorkerCallKeeps
  <2>4. ASSUME NEW o \in Orders, CancelOrderForStockFailure(o) \/ AgeOrder(o)
        PROVE  OrderInv'
    <3>1. UNCHANGED <<pc, update, call>>
      BY <2>4 DEF CancelOrderForStockFailure, AgeOrder
    <3>2. QED
      BY <2>4, <3>1, SystemStepKeeps DEF CancelOrderForStockFailure, OrderInv, OrderTypeOK
  <2>5. CASE UNCHANGED orderVars
    <3>1. UNCHANGED <<tables, pc, update, call>>
      BY <2>5 DEF orderVars, tables
    <3>2. QED
      BY <3>1, AnOrderIsOrder, SystemStepKeeps DEF OrderInv, OrderTypeOK
  <2>6. QED
    BY <2>1, <2>2, <2>3, <2>4, <2>5 DEF OrderNext
<1>2. QED
  BY <1>1, OrderInitInv, PTL DEF OrderSpec

\* Type correctness of the order service's tables and requests.
THEOREM OrderTypeCorrect == OrderSpec => []OrderTypeOK
BY OrderInvariant, PTL DEF OrderInv

\* Whoever is told that the order was placed has an order for exactly the items asked.
THEOREM RepliesCorrect == OrderSpec => []RepliesMatchOrders
BY OrderInvariant, PTL DEF OrderInv

\* Orders are cancelled exactly when the release of their stock is requested.
THEOREM CancellationsRequestRelease == OrderSpec => []CancelledExactlyWhenReleaseRequested
<1>1. OrderInv => CancelledExactlyWhenReleaseRequested
  BY DEF OrderInv, OutboxMatchesOrder, CancelledExactlyWhenReleaseRequested
<1>2. QED
  BY <1>1, OrderInvariant, PTL

---------------------------------------------------------------------------
\* The four ways in which a step changes an order's row.  Outbox rows stay.
LEMMA OrderChanges ==
    ASSUME OrderInv, [OrderNext]_orderVars
    PROVE  /\ orderOutbox \subseteq orderOutbox'
           /\ \/ UNCHANGED <<order, orderItems>>
              \/ \E a \in Attempts :
                    /\ pc[a] = "create" /\ pc'[a] \in {"ok", "recover"}
                    /\ order[OrderOf[a]] = "NONE"
                    /\ order' = [order EXCEPT ![OrderOf[a]] = "PENDING"]
                    /\ orderItems' = [orderItems EXCEPT ![OrderOf[a]] = ItemsOf[a]]
              \/ \E o \in Orders :
                    /\ order[o] \in {"PENDING", "CONFIRMED"}
                    /\ order' = [order EXCEPT ![o] = "CANCELLED"]
                    /\ UNCHANGED orderItems
              \/ \E u \in Updaters :
                    /\ update[u].pc = "read" /\ order[update[u].order] = update[u].from
                    /\ order' = [order EXCEPT ![update[u].order] = update[u].to]
                    /\ UNCHANGED orderItems
<1>1. ASSUME NEW a \in Attempts, AttemptStep(a)
      PROVE  /\ orderOutbox \subseteq orderOutbox'
             /\ \/ UNCHANGED <<order, orderItems>>
                \/ /\ pc[a] = "create" /\ pc'[a] \in {"ok", "recover"}
                   /\ order[OrderOf[a]] = "NONE"
                   /\ order' = [order EXCEPT ![OrderOf[a]] = "PENDING"]
                   /\ orderItems' = [orderItems EXCEPT ![OrderOf[a]] = ItemsOf[a]]
  <2>1. CASE CreateOrder(a)
    BY <2>1, CreateFindsNoOrder DEF CreateOrder, tables, OrderInv, OrderTypeOK
  <2>2. CASE ~ CreateOrder(a)
    BY <1>1, <2>2
    DEF AttemptStep, LookupIdempotency, PriceItems, ReserveReply, CreateFails,
        CheckOrderExists, AttemptFails, tables
  <2>3. QED
    BY <2>1, <2>2
<1>2. ASSUME NEW u \in Updaters, ApplyUpdate(u)
      PROVE  /\ orderOutbox \subseteq orderOutbox'
             /\ UNCHANGED orderItems
             /\ \/ UNCHANGED order
                \/ /\ update[u].pc = "read" /\ order[update[u].order] = update[u].from
                   /\ order' = [order EXCEPT ![update[u].order] = update[u].to]
  BY <1>2 DEF ApplyUpdate, CancelOrder, tables
<1>3. ASSUME NEW u \in Updaters, NEW o \in Orders, NEW to \in Status, ReadForUpdate(u, o, to)
      PROVE  UNCHANGED <<order, orderItems, orderOutbox>>
  BY <1>3 DEF ReadForUpdate, tables
<1>4. ASSUME NEW w \in Workers, ReconcileCancel(w)
      PROVE  /\ orderOutbox \subseteq orderOutbox'
             /\ UNCHANGED orderItems
             /\ \/ UNCHANGED order
                \/ \E o \in Orders : /\ order[o] \in {"PENDING", "CONFIRMED"}
                                     /\ order' = [order EXCEPT ![o] = "CANCELLED"]
  BY <1>4 DEF ReconcileCancel, CancelOrder, tables, OrderInv, OrderTypeOK
<1>5. ASSUME NEW w \in Workers, EndCall(w) \/ \E o \in Orders : ReconcileRead(w, o)
      PROVE  UNCHANGED <<order, orderItems, orderOutbox>>
  BY <1>5 DEF EndCall, ReconcileRead, tables
<1>6. ASSUME NEW o \in Orders, CancelOrderForStockFailure(o) \/ AgeOrder(o)
      PROVE  /\ orderOutbox \subseteq orderOutbox'
             /\ UNCHANGED orderItems
             /\ \/ UNCHANGED order
                \/ /\ order[o] \in {"PENDING", "CONFIRMED"}
                   /\ order' = [order EXCEPT ![o] = "CANCELLED"]
  BY <1>6 DEF CancelOrderForStockFailure, CancelOrder, AgeOrder, tables
<1>7. CASE UNCHANGED orderVars
  BY <1>7 DEF orderVars
<1>8. QED
  BY <1>1, <1>2, <1>3, <1>4, <1>5, <1>6, <1>7 DEF OrderNext

\* A step changes no status but along VALID_TRANSITIONS.
LEMMA StepIsLegal ==
    ASSUME OrderInv, [OrderNext]_orderVars
    PROVE  \A o \in Orders : order'[o] # order[o] =>
              IF order[o] = "NONE" THEN order'[o] = "PENDING"
              ELSE CanTransition(order[o], order'[o])
<1>1. \A from \in {"PENDING", "CONFIRMED"} : CanTransition(from, "CANCELLED")
  BY DEF CanTransition, ValidTransitions
<1>2. \A u \in Updaters : update[u].pc = "read" =>
         /\ CanTransition(update[u].from, update[u].to)
         /\ update[u].order \in Orders /\ update[u].from # "NONE"
  BY DEF OrderInv, OrderTypeOK, UpdateWasAllowed, Status
<1>3. order \in [Orders -> Status \cup {"NONE"}] /\ \A a \in Attempts : OrderOf[a] \in Orders
  BY BasketsAreLists DEF OrderInv, OrderTypeOK
<1>4. QED
  BY <1>1, <1>2, <1>3, OrderChanges

\* Updates race with each other, with expiry and with stock failures, and still every
\* order only ever moves along VALID_TRANSITIONS.
THEOREM TransitionsAreLegal == OrderSpec => LegalTransitions
<1>1. OrderInv /\ [OrderNext]_orderVars =>
        [\A o \in Orders : order'[o] # order[o] =>
            IF order[o] = "NONE" THEN order'[o] = "PENDING"
            ELSE CanTransition(order[o], order'[o])]_orderVars
  BY StepIsLegal
<1>2. QED
  BY <1>1, OrderInvariant, PTL DEF OrderSpec, LegalTransitions

\* Only an administrator who read the order as PAID takes it from PAID to CANCELLED.
THEOREM PaidIsProtected == OrderSpec => PaidCancelledOnlyByAdmin
<1> DEFINE Protected ==
      \A o \in Orders : order[o] = "PAID" /\ order'[o] = "CANCELLED" =>
          \E u \in Updaters : /\ RoleOf[u] = "ADMIN"
                              /\ update[u].pc = "read"
                              /\ update[u].order = o
                              /\ update[u].from = "PAID"
<1>1. OrderInv /\ [OrderNext]_orderVars => [Protected]_orderVars
  <2> SUFFICES ASSUME OrderInv, [OrderNext]_orderVars,
                      NEW o \in Orders, order[o] = "PAID", order'[o] = "CANCELLED"
               PROVE  \E u \in Updaters : /\ RoleOf[u] = "ADMIN"
                                          /\ update[u].pc = "read"
                                          /\ update[u].order = o
                                          /\ update[u].from = "PAID"
    OBVIOUS
  <2>1. order \in [Orders -> Status \cup {"NONE"}] /\ \A a \in Attempts : OrderOf[a] \in Orders
    BY BasketsAreLists DEF OrderInv, OrderTypeOK
  <2>2. PICK u \in Updaters :
           /\ update[u].pc = "read" /\ order[update[u].order] = update[u].from
           /\ order' = [order EXCEPT ![update[u].order] = update[u].to]
    BY <2>1, OrderChanges
  <2>3. update[u].order = o /\ update[u].from = "PAID"
    BY <2>1, <2>2 DEF OrderInv, OrderTypeOK
  <2>4. RoleOf[u] = "ADMIN"
    BY <2>2, <2>3 DEF OrderInv, UpdateWasAllowed
  <2>5. QED
    BY <2>2, <2>3, <2>4
<1>2. QED
  BY <1>1, OrderInvariant, PTL DEF OrderSpec, PaidCancelledOnlyByAdmin
===========================================================================
