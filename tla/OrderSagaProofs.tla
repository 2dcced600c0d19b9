-------------------------- MODULE OrderSagaProofs --------------------------
(***************************************************************************)
(* Safety of the two services together, for any number of orders,          *)
(* products, attempts, updaters and workers.  The saga takes only steps of *)
(* its parts, so what is proved of each part carries over; the remaining   *)
(* lemmas relate the order database to the stock database.                 *)
(***************************************************************************)
EXTENDS OrderSaga, StockReservationProofs, OrderServiceProofs

USE DEF sagaOwn

\* Every step of the saga is a step of the stock ledger or leaves it alone, and a step
\* of order-service or leaves it alone.
LEMMA SagaStepsAreParts ==
    ASSUME [SagaNext]_sagaVars
    PROVE  (OrderTypeOK => [StockNext]_stockVars) /\ [OrderNext]_orderVars
<1>1. ASSUME NEW a \in Attempts, CreateStep(a)
      PROVE  (OrderTypeOK => [StockNext]_stockVars) /\ [OrderNext]_orderVars
  <2>1. OrderOf[a] \in Orders /\ ItemsOf[a] \in Baskets
    BY AttemptsAssumption
  <2>2. CASE CatalogReserves(a)
    BY <2>1, <2>2 DEF CatalogReserves, StockNext, OrderNext, AttemptStep
  <2>3. CASE CatalogReleases(a)
    BY <2>1, <2>3 DEF CatalogReleases, StockNext
  <2>4. CASE StartReserve(a) \/ StartRelease(a) \/ AttemptEnds(a)
    BY <2>4 DEF StartReserve, StartRelease, AttemptEnds, OrderNext, AttemptStep
  <2>5. CASE /\ LookupIdempotency(a) \/ CreateOrder(a) \/ CreateFails(a)
             /\ UNCHANGED <<stockVars, sagaOwn>>
    BY <2>5 DEF OrderNext, AttemptStep
  <2>6. QED
    BY <1>1, <2>2, <2>3, <2>4, <2>5 DEF CreateStep
<1>2. CASE EventStep
  <2>1. ASSUME NEW e \in OutboxRows, Publish(e)
        PROVE  UNCHANGED <<stockVars, orderVars>>
    BY <2>1 DEF Publish
  <2>2. ASSUME NEW o \in Orders,
               \/ ConsumeOrderCreated(o)
               \/ ConsumeReleaseRequested(o)
               \/ ConsumeReservationFailed(o)
        PROVE  (OrderTypeOK => [StockNext]_stockVars) /\ [OrderNext]_orderVars
    BY <2>2 DEF ConsumeOrderCreated, ConsumeReleaseRequested, ConsumeReservationFailed,
                StockNext, OrderNext
  <2>3. QED
    BY <1>2, <2>1, <2>2 DEF EventStep
<1>3. ASSUME NEW w \in Workers, WorkerStep(w)
      PROVE  (OrderTypeOK => [StockNext]_stockVars) /\ [OrderNext]_orderVars
  <2>1. CASE ScanExpired(w) \/ CancelAsAsked(w) \/ LoseAnswer(w)
    BY <2>1 DEF ScanExpired, CancelAsAsked, LoseAnswer, OrderNext
  <2>2. ASSUME NEW o \in Orders, AskOrderService(w, o)
        PROVE  (OrderTypeOK => [StockNext]_stockVars) /\ [OrderNext]_orderVars
    BY <2>2 DEF AskOrderService, OrderNext
  <2>3. CASE ApplyAnswer(w)
    <3>1. OrderTypeOK => call[w].order \in Orders
      BY DEF OrderTypeOK
    <3>2. QED
      BY <2>3, <3>1 DEF ApplyAnswer, StockNext, OrderNext
  <2>4. QED
    BY <1>3, <2>1, <2>2, <2>3 DEF WorkerStep
<1>4. ASSUME NEW o \in Orders, AgeReservation(o) \/ AgeSagaOrder(o)
      PROVE  (OrderTypeOK => [StockNext]_stockVars) /\ [OrderNext]_orderVars
  BY <1>4 DEF AgeReservation, AgeSagaOrder, OrderNext
<1>5. CASE UpdateStep
  BY <1>5 DEF UpdateStep, OrderNext
<1>6. CASE ProductStep
  BY <1>6 DEF ProductStep, StockNext
<1>7. CASE UNCHANGED sagaVars
  BY <1>7 DEF sagaVars
<1>8. QED
  BY <1>1, <1>2, <1>3, <1>4, <1>5, <1>6, <1>7 DEF SagaNext

\* The saga implements its part order-service: nothing the catalog, the events or the
\* worker do takes the order tables or a request outside what order-service allows.
THEOREM SagaImplementsOrder == SagaSpec => OrderSpec
<1>1. SagaInit => OrderInit
  BY DEF SagaInit
<1>2. [SagaNext]_sagaVars => [OrderNext]_orderVars
  BY SagaStepsAreParts
<1>3. QED
  BY <1>1, <1>2, PTL DEF SagaSpec, OrderSpec

\* The saga implements the stock ledger, which therefore keeps every property proved
\* of it in the presence of late, repeated and lost calls and events.
THEOREM SagaImplementsStock == SagaSpec => StockSpec
<1>1. SagaInit => StockInit
  BY DEF SagaInit
<1>2. SagaSpec => []OrderTypeOK
  BY SagaImplementsOrder, OrderTypeCorrect, PTL
<1>3. OrderTypeOK /\ [SagaNext]_sagaVars => [StockNext]_stockVars
  BY SagaStepsAreParts
<1>4. QED
  BY <1>1, <1>2, <1>3, PTL DEF SagaSpec, StockSpec

---------------------------------------------------------------------------
\* An attempt in its transaction reserved its items, or found them reserved.
CreateHasReservation ==
    \A a \in Attempts : pc[a] = "create" =>
        reservation[OrderOf[a]] # "NONE" /\ items[OrderOf[a]] = ItemsOf[a]

\* An answer to commit stays justified while it travels.
CommitAnswersHold ==
    \A w \in Workers : call[w].pc = "reply" /\ call[w].commit =>
        order[call[w].order] \in Paid \cup {"CANCELLED"}

PublishedWereWritten == published \subseteq OutboxRows

\* What the parts guarantee about their own variables ...
PartsInv == StockTypeOK /\ OrderInv

\* ... and what holds between them.
SagaInv ==
    /\ SagaTypeOK
    /\ CreateHasReservation
    /\ OrderHasReservation
    /\ CommitAnswersHold
    /\ CommittedWasPaid
    /\ PublishedWereWritten
    /\ FailureOnlyWithoutStock

LEMMA PartsInvariant == SagaSpec => []PartsInv
BY SagaImplementsStock, SagaImplementsOrder, StockTypeCorrect, OrderInvariant, PTL DEF PartsInv

\* A reservation is never deleted, never changes its items and never leaves RELEASED.
LEMMA ReservationsStay ==
    ASSUME StockTypeOK, [StockNext]_stockVars, NEW o \in Orders
    PROVE  /\ reservation[o] # "NONE" => reservation'[o] # "NONE" /\ items'[o] = items[o]
           /\ reservation[o] = "RELEASED" => reservation'[o] = "RELEASED"
           /\ reservation'[o] = "COMMITTED" => reservation[o] \in {"RESERVED", "COMMITTED"}
<1> USE DEF StockTypeOK, stockVars
<1>1. ASSUME NEW q \in Orders, NEW b \in Baskets, ReserveStock(q, b)
      PROVE  /\ reservation[o] # "NONE" => reservation'[o] = reservation[o] /\ items'[o] = items[o]
             /\ reservation[o] = "NONE" => reservation'[o] # "COMMITTED"
  BY <1>1 DEF ReserveStock, ReserveOutcome
<1>2. ASSUME NEW q \in Orders, ReleaseStock(q) \/ CommitReservation(q)
      PROVE  /\ reservation[o] # "NONE" => reservation'[o] # "NONE" /\ items'[o] = items[o]
             /\ reservation[o] # "RESERVED" => reservation'[o] = reservation[o]
  BY <1>2 DEF ReleaseStock, Releasable, CommitReservation
<1>3. CASE AdminStep \/ UNCHANGED stockVars
  BY <1>3 DEF AdminStep, CreateProduct, UpdateProduct, DeleteProduct
<1>4. QED
  BY <1>1, <1>2, <1>3 DEF StockNext

\* An order that was paid or cancelled stays so, and no order disappears.
LEMMA OrdersStay ==
    ASSUME OrderInv, [OrderNext]_orderVars, NEW o \in Orders
    PROVE  /\ order[o] \in Paid \cup {"CANCELLED"} => order'[o] \in Paid \cup {"CANCELLED"}
           /\ order[o] # "NONE" => order'[o] # "NONE"
           /\ order[o] = "CANCELLED" => order'[o] = "CANCELLED"
<1>1. \A from, to : CanTransition(from, to) =>
         /\ to # "NONE" /\ from # "CANCELLED"
         /\ from \in Paid => to \in Paid \cup {"CANCELLED"}
  BY DEF CanTransition, ValidTransitions, Paid
<1>2. QED
  BY <1>1, StepIsLegal DEF Paid

---------------------------------------------------------------------------
(* Where a step of the saga can come from *)

\* An attempt enters its transaction only on an answer of the catalog.
LEMMA EntersCreate ==
    ASSUME PartsInv, [SagaNext]_sagaVars, NEW a \in Attempts,
           pc'[a] = "create", pc[a] # "create"
    PROVE  /\ CatalogReserves(a)
           /\ ReserveOutcome(OrderOf[a], ItemsOf[a]) \in {"reserved", "existing"}
<1>1. pc \in [Attempts -> InFlight \cup {"ok", "failed"}]
  BY DEF PartsInv, OrderInv, OrderTypeOK
<1>2. PICK c \in Attempts : CreateStep(c)
  <2>1. CASE EventStep
    BY <2>1 DEF EventStep, Publish, ConsumeOrderCreated, ConsumeReleaseRequested,
                ConsumeReservationFailed, CancelOrderForStockFailure, orderVars
  <2>2. ASSUME NEW w \in Workers, WorkerStep(w)
        PROVE  UNCHANGED pc
    BY <2>2 DEF WorkerStep, ScanExpired, AskOrderService, ReconcileRead, CancelAsAsked,
                ReconcileCancel, ApplyAnswer, LoseAnswer, EndCall, orderVars
  <2>3. ASSUME NEW o \in Orders, AgeReservation(o) \/ AgeSagaOrder(o)
        PROVE  UNCHANGED pc
    BY <2>3 DEF AgeReservation, AgeSagaOrder, AgeOrder, orderVars
  <2>4. CASE UpdateStep
    BY <2>4 DEF UpdateStep, ApplyUpdate, ReadForUpdate
  <2>5. CASE ProductStep \/ UNCHANGED sagaVars
    BY <2>5 DEF ProductStep, sagaVars, orderVars
  <2>6. QED
    BY <2>1, <2>2, <2>3, <2>4, <2>5 DEF SagaNext
<1>3. CASE CatalogReserves(c)
  BY <1>1, <1>3 DEF CatalogReserves, ReserveReply, orderVars
<1>4. CASE ~ CatalogReserves(c)
  BY <1>1, <1>2, <1>4
  DEF CreateStep, StartReserve, PriceItems, StartRelease, CheckOrderExists, CatalogReleases,
      AttemptEnds, AttemptFails, LookupIdempotency, Replay, CreateOrder, CreateFails, orderVars
<1>5. QED
  BY <1>3, <1>4

\* A reservation is committed only by a worker that was told to.
LEMMA EntersCommitted ==
    ASSUME PartsInv, [SagaNext]_sagaVars, NEW o \in Orders,
           reservation'[o] = "COMMITTED", reservation[o] # "COMMITTED"
    PROVE  \E w \in Workers :
              call[w].pc = "reply" /\ call[w].commit /\ call[w].order = o
<1> USE DEF PartsInv, StockTypeOK, stockVars
<1>1. \A q \in Orders : ReleaseStock(q) => reservation'[o] # "COMMITTED"
  BY DEF ReleaseStock, Releasable
<1>2. \A q \in Orders, b \in Baskets : ReserveStock(q, b) => reservation'[o] # "COMMITTED"
  BY DEF ReserveStock, ReserveOutcome
<1>3. AttemptsAssumption /\ \A w \in Workers : call[w].order \in Orders
  BY AttemptsAssumption DEF OrderInv, OrderTypeOK
<1>4. \A a \in Attempts : ~ CreateStep(a)
  BY <1>1, <1>2, <1>3
  DEF CreateStep, StartReserve, CatalogReserves, StartRelease, CatalogReleases, AttemptEnds,
      AttemptsAssumption
<1>5. ~ EventStep
  BY <1>1
  DEF EventStep, Publish, ConsumeOrderCreated, ConsumeReleaseRequested,
      ConsumeReservationFailed
<1>6. \A q \in Orders : ~ AgeReservation(q) /\ ~ AgeSagaOrder(q)
  BY DEF AgeReservation, AgeSagaOrder
<1>7. ~ UpdateStep /\ ~ ProductStep
  BY DEF UpdateStep, ProductStep, AdminStep, CreateProduct, UpdateProduct, DeleteProduct
<1>8. PICK w \in Workers : WorkerStep(w)
  BY <1>4, <1>5, <1>6, <1>7 DEF SagaNext, sagaVars
<1>9. ApplyAnswer(w)
  BY <1>8 DEF WorkerStep, ScanExpired, AskOrderService, CancelAsAsked, LoseAnswer
<1>10. QED
  BY <1>1, <1>3, <1>9 DEF ApplyAnswer, CommitReservation

\* A stock failure is raised only on the creation event of an order without stock.
LEMMA RaisesFailure ==
    ASSUME PartsInv, [SagaNext]_sagaVars
    PROVE  /\ stockFailed \subseteq stockFailed'
           /\ \A o \in stockFailed' \ stockFailed :
                 /\ Event("OrderCreated", o) \in published
                 /\ reservation[o] \in {"NONE", "RELEASED"}
<1>1. CASE EventStep
  BY <1>1
  DEF EventStep, Publish, ConsumeOrderCreated, ConsumeReleaseRequested,
      ConsumeReservationFailed
<1>2. ASSUME NEW a \in Attempts, CreateStep(a)
      PROVE  UNCHANGED stockFailed
  BY <1>2
  DEF CreateStep, StartReserve, CatalogReserves, StartRelease, CatalogReleases, AttemptEnds
<1>3. ASSUME NEW w \in Workers, WorkerStep(w)
      PROVE  UNCHANGED stockFailed
  BY <1>3
  DEF WorkerStep, ScanExpired, AskOrderService, CancelAsAsked, ApplyAnswer, LoseAnswer
<1>4. ASSUME NEW q \in Orders, AgeReservation(q) \/ AgeSagaOrder(q)
      PROVE  UNCHANGED stockFailed
  BY <1>4 DEF AgeReservation, AgeSagaOrder
<1>5. CASE UpdateStep \/ ProductStep \/ UNCHANGED sagaVars
  BY <1>5 DEF UpdateStep, ProductStep, sagaVars
<1>6. QED
  BY <1>1, <1>2, <1>3, <1>4, <1>5 DEF SagaNext

\* Events are published from the outboxes.
LEMMA PublishesRows ==
    ASSUME PartsInv, [SagaNext]_sagaVars
    PROVE  published' \subseteq published \cup OutboxRows
<1>1. CASE EventStep
  BY <1>1
  DEF EventStep, Publish, ConsumeOrderCreated, ConsumeReleaseRequested,
      ConsumeReservationFailed
<1>2. ASSUME NEW a \in Attempts, CreateStep(a)
      PROVE  UNCHANGED published
  BY <1>2
  DEF CreateStep, StartReserve, CatalogReserves, StartRelease, CatalogReleases, AttemptEnds
<1>3. ASSUME NEW w \in Workers, WorkerStep(w)
      PROVE  UNCHANGED published
  BY <1>3
  DEF WorkerStep, ScanExpired, AskOrderService, CancelAsAsked, ApplyAnswer, LoseAnswer
<1>4. ASSUME NEW q \in Orders, AgeReservation(q) \/ AgeSagaOrder(q)
      PROVE  UNCHANGED published
  BY <1>4 DEF AgeReservation, AgeSagaOrder
<1>5. CASE UpdateStep \/ ProductStep \/ UNCHANGED sagaVars
  BY <1>5 DEF UpdateStep, ProductStep, sagaVars
<1>6. QED
  BY <1>1, <1>2, <1>3, <1>4, <1>5 DEF SagaNext

---------------------------------------------------------------------------
(* Each part of the invariant is kept *)

LEMMA SagaTypesKept ==
    ASSUME PartsInv, PartsInv', SagaTypeOK, [SagaNext]_sagaVars
    PROVE  SagaTypeOK'
<1> USE DEF SagaTypeOK, PartsInv, OrderInv
<1>1. ASSUME NEW a \in Attempts, CreateStep(a)
      PROVE  SagaTypeOK'
  <2>1. OrderOf[a] \in Orders
    BY AttemptsAssumption
  <2>2. CASE StartReserve(a)
    BY <2>2, MaxCallsAssumption DEF StartReserve
  <2>3. CASE CatalogReserves(a)
    <3>1. /\ reserveCalls[a] \in Nat /\ reserveCalls[a] > 0
          /\ reserveCalls' = [reserveCalls EXCEPT ![a] = @ - 1]
          /\ reservedBy' \in {reservedBy, [reservedBy EXCEPT ![OrderOf[a]] = {a}]}
          /\ UNCHANGED <<releaseCalls, oldReservation, stockFailed, processed, published, todo>>
      BY <2>3 DEF CatalogReserves
    <3>2. reserveCalls' \in [Attempts -> Nat] /\ reservedBy' \in [Orders -> SUBSET Attempts]
      BY <2>1, <3>1
    <3>3. QED
      BY <3>1, <3>2
  <2>4. CASE StartRelease(a)
    BY <2>4, MaxCallsAssumption DEF StartRelease
  <2>5. CASE CatalogReleases(a)
    <3>1. /\ releaseCalls[a] \in Nat /\ releaseCalls[a] > 0
          /\ releaseCalls' = [releaseCalls EXCEPT ![a] = @ - 1]
      BY <2>5 DEF CatalogReleases
    <3>2. QED
      BY <2>5, <3>1 DEF CatalogReleases
  <2>6. CASE UNCHANGED sagaOwn
    BY <2>6
  <2>7. QED
    BY <1>1, <2>2, <2>3, <2>4, <2>5, <2>6 DEF CreateStep, AttemptEnds
<1>2. CASE EventStep
  <2>1. \A e \in OutboxRows : e \in Events
    BY DEF OutboxRows, Events, OrderTypeOK
  <2>2. QED
    BY <1>2, <2>1
    DEF EventStep, Publish, ConsumeOrderCreated, ConsumeReleaseRequested,
        ConsumeReservationFailed
<1>3. ASSUME NEW w \in Workers, WorkerStep(w)
      PROVE  SagaTypeOK'
  BY <1>3
  DEF WorkerStep, ScanExpired, AskOrderService, CancelAsAsked, ApplyAnswer, LoseAnswer
<1>4. ASSUME NEW o \in Orders, AgeReservation(o) \/ AgeSagaOrder(o)
      PROVE  SagaTypeOK'
  BY <1>4 DEF AgeReservation, AgeSagaOrder
<1>5. CASE UpdateStep \/ ProductStep \/ UNCHANGED sagaVars
  BY <1>5 DEF UpdateStep, ProductStep, sagaVars
<1>6. QED
  BY <1>1, <1>2, <1>3, <1>4, <1>5 DEF SagaNext

LEMMA CreateHasReservationKept ==
    ASSUME PartsInv, CreateHasReservation, [SagaNext]_sagaVars
    PROVE  CreateHasReservation'
<1> SUFFICES ASSUME NEW a \in Attempts, pc'[a] = "create"
             PROVE  reservation'[OrderOf[a]] # "NONE" /\ items'[OrderOf[a]] = ItemsOf[a]
  BY DEF CreateHasReservation
<1>1. /\ OrderOf[a] \in Orders /\ ItemsOf[a] \in Baskets
      /\ StockTypeOK /\ OrderTypeOK
  BY AttemptsAssumption DEF PartsInv, OrderInv
<1>2. CASE pc[a] = "create"
  BY <1>1, <1>2, SagaStepsAreParts, ReservationsStay DEF CreateHasReservation
<1>3. CASE pc[a] # "create"
  <2>1. /\ ReserveStock(OrderOf[a], ItemsOf[a])
        /\ ReserveOutcome(OrderOf[a], ItemsOf[a]) \in {"reserved", "existing"}
    BY <1>3, EntersCreate DEF CatalogReserves
  <2>2. CASE ReserveOutcome(OrderOf[a], ItemsOf[a]) = "reserved"
    BY <1>1, <2>1, <2>2 DEF ReserveStock, StockTypeOK
  <2>3. CASE ReserveOutcome(OrderOf[a], ItemsOf[a]) = "existing"
    BY <2>1, <2>3 DEF ReserveStock, ReserveOutcome, stockVars
  <2>4. QED
    BY <2>1, <2>2, <2>3
<1>4. QED
  BY <1>2, <1>3

LEMMA OrderHasReservationKept ==
    ASSUME PartsInv, CreateHasReservation, OrderHasReservation, [SagaNext]_sagaVars
    PROVE  OrderHasReservation'
<1> SUFFICES ASSUME NEW o \in Orders, order'[o] # "NONE"
             PROVE  reservation'[o] # "NONE" /\ items'[o] = orderItems'[o]
  BY DEF OrderHasReservation
<1>1. StockTypeOK /\ OrderTypeOK /\ OrderInv
  BY DEF PartsInv, OrderInv
<1>2. /\ reservation[o] # "NONE" => reservation'[o] # "NONE" /\ items'[o] = items[o]
      /\ [OrderNext]_orderVars
  BY <1>1, SagaStepsAreParts, ReservationsStay
<1>3. \A a \in Attempts : OrderOf[a] \in Orders
  BY BasketsAreLists
<1>4. \/ order[o] # "NONE" /\ orderItems'[o] = orderItems[o]
      \/ \E a \in Attempts :
            pc[a] = "create" /\ OrderOf[a] = o /\ orderItems'[o] = ItemsOf[a]
  <2>1. \A u \in Updaters : update[u].order \in Orders /\ update[u].from # "NONE"
    BY <1>1 DEF OrderTypeOK, Status
  <2>2. QED
    BY <1>1, <1>2, <1>3, <2>1, OrderChanges DEF OrderTypeOK
<1>5. QED
  BY <1>2, <1>4 DEF CreateHasReservation, OrderHasReservation

LEMMA CommitMeansPaid ==
    ASSUME NEW answer, NEW o,
           answer = Answer(o, order[o] = "CANCELLED", order[o] \in Paid), answer.commit
    PROVE  answer.order = o /\ order[o] \in Paid
BY DEF Answer

LEMMA CommitAnswersHoldKept ==
    ASSUME PartsInv, CommitAnswersHold, [SagaNext]_sagaVars
    PROVE  CommitAnswersHold'
<1> SUFFICES ASSUME NEW w \in Workers, call'[w].pc = "reply", call'[w].commit
             PROVE  order'[call'[w].order] \in Paid \cup {"CANCELLED"}
  BY DEF CommitAnswersHold
<1>1. OrderInv /\ OrderTypeOK /\ [OrderNext]_orderVars
  BY SagaStepsAreParts DEF PartsInv, OrderInv
<1>2. CASE call'[w] = call[w]
  BY <1>1, <1>2, OrdersStay DEF CommitAnswersHold, OrderTypeOK
<1>3. CASE call'[w] # call[w]
  <2>1. PICK o \in Orders : call'[w] = Answer(o, order[o] = "CANCELLED", order[o] \in Paid)
    <3>1. \E v \in Workers : \/ ReconcileCancel(v) \/ EndCall(v)
                             \/ \E o \in Orders : ReconcileRead(v, o)
      BY <1>1, <1>3
      DEF OrderNext, AttemptStep, LookupIdempotency, PriceItems, ReserveReply, CreateOrder,
          CreateFails, CheckOrderExists, AttemptFails, ApplyUpdate, ReadForUpdate,
          CancelOrderForStockFailure, AgeOrder, orderVars
    <3>2. ~ ReconcileCancel(w) /\ ~ EndCall(w)
      BY <1>1 DEF ReconcileCancel, EndCall, Answer, NoCall, OrderTypeOK
    <3>3. \A v \in Workers \ {w} : /\ ~ ReconcileCancel(v) /\ ~ EndCall(v)
                                   /\ \A o \in Orders : ~ ReconcileRead(v, o)
      BY <1>1, <1>3 DEF ReconcileCancel, EndCall, ReconcileRead, OrderTypeOK
    <3>4. PICK o \in Orders : ReconcileRead(w, o)
      BY <3>1, <3>2, <3>3
    <3>5. call'[w] # Answer(o, TRUE, FALSE)
      BY DEF Answer
    <3>6. call'[w] # [Answer(o, FALSE, FALSE) EXCEPT !.pc = "cas"]
      BY DEF Answer
    <3>7. QED
      BY <1>1, <3>4, <3>5, <3>6 DEF ReconcileRead, OrderTypeOK
  <2>2. call'[w].order = o /\ order[o] \in Paid
    BY <2>1, CommitMeansPaid
  <2>3. QED
    BY <1>1, <2>1, <2>2, OrdersStay
<1>4. QED
  BY <1>2, <1>3

LEMMA CommittedWasPaidKept ==
    ASSUME PartsInv, CommitAnswersHold, CommittedWasPaid, [SagaNext]_sagaVars
    PROVE  CommittedWasPaid'
<1> SUFFICES ASSUME NEW o \in Orders, reservation'[o] = "COMMITTED"
             PROVE  order'[o] \in Paid \cup {"CANCELLED"}
  BY DEF CommittedWasPaid
<1>1. order[o] \in Paid \cup {"CANCELLED"}
  BY EntersCommitted DEF CommittedWasPaid, CommitAnswersHold
<1>2. QED
  BY <1>1, SagaStepsAreParts, OrdersStay DEF PartsInv

LEMMA PublishedKept ==
    ASSUME PartsInv, PublishedWereWritten, [SagaNext]_sagaVars
    PROVE  PublishedWereWritten'
<1>1. orderOutbox \subseteq orderOutbox' /\ stockFailed \subseteq stockFailed'
  BY SagaStepsAreParts, OrderChanges, RaisesFailure DEF PartsInv
<1>2. OutboxRows \subseteq OutboxRows'
  BY <1>1 DEF OutboxRows
<1>3. QED
  BY <1>2, PublishesRows DEF PublishedWereWritten

LEMMA FailureOnlyWithoutStockKept ==
    ASSUME PartsInv, OrderHasReservation, PublishedWereWritten, FailureOnlyWithoutStock,
           SagaTypeOK, SagaTypeOK', [SagaNext]_sagaVars
    PROVE  FailureOnlyWithoutStock'
<1> SUFFICES ASSUME NEW o \in stockFailed'
             PROVE  reservation'[o] = "RELEASED"
  BY DEF FailureOnlyWithoutStock
<1>1. o \in Orders /\ StockTypeOK /\ OrderTypeOK /\ [StockNext]_stockVars
  BY SagaStepsAreParts DEF SagaTypeOK
<1>2. reservation[o] = "RELEASED"
  <2>1. CASE o \in stockFailed
    BY <2>1 DEF FailureOnlyWithoutStock
  <2>2. CASE o \notin stockFailed
    <3>1. Event("OrderCreated", o) \in orderOutbox
      BY <2>2, RaisesFailure DEF PublishedWereWritten, OutboxRows, Event
    <3>2. order[o] # "NONE"
      BY <1>1, <3>1 DEF PartsInv, OrderInv, OutboxMatchesOrder
    <3>3. QED
      BY <1>1, <2>2, <3>2, RaisesFailure DEF OrderHasReservation
  <2>3. QED
    BY <2>1, <2>2
<1>3. QED
  BY <1>1, <1>2, ReservationsStay

LEMMA SagaInitInv == SagaInit /\ PartsInv => SagaInv
<1> SUFFICES ASSUME SagaInit, PartsInv PROVE SagaInv
  OBVIOUS
<1>1. SagaTypeOK
  BY DEF SagaInit, SagaTypeOK, PartsInv, OrderInv
<1>2. CreateHasReservation /\ OrderHasReservation /\ CommittedWasPaid /\ FailureOnlyWithoutStock
  BY DEF SagaInit, StockInit, OrderInit, CreateHasReservation, OrderHasReservation,
         CommittedWasPaid, FailureOnlyWithoutStock
<1>3. CommitAnswersHold /\ PublishedWereWritten
  BY DEF SagaInit, OrderInit, CommitAnswersHold, PublishedWereWritten, NoCall
<1>4. QED
  BY <1>1, <1>2, <1>3 DEF SagaInv

\* The invariant that links the two databases, the events and the calls in flight.
THEOREM SagaInvariant == SagaSpec => []SagaInv
<1>1. PartsInv /\ PartsInv' /\ SagaInv /\ [SagaNext]_sagaVars => SagaInv'
  BY SagaTypesKept, CreateHasReservationKept, OrderHasReservationKept, CommitAnswersHoldKept,
     CommittedWasPaidKept, PublishedKept, FailureOnlyWithoutStockKept
  DEF SagaInv
<1>2. QED
  BY <1>1, SagaInitInv, PartsInvariant, PTL DEF SagaSpec

\* Type correctness of the saga.
THEOREM SagaTypeCorrect == SagaSpec => []SagaTypeOK
BY SagaInvariant, PTL DEF SagaInv

\* No order without a reservation for its items, across two databases.
THEOREM OrdersAreReserved == SagaSpec => []OrderHasReservation
BY SagaInvariant, PTL DEF SagaInv

\* Stock is committed only for orders that were paid.
THEOREM CommitsWerePaid == SagaSpec => []CommittedWasPaid
BY SagaInvariant, PTL DEF SagaInv

\* A stock failure is only raised for an order whose units went back.
THEOREM FailuresAreReal == SagaSpec => []FailureOnlyWithoutStock
BY SagaInvariant, PTL DEF SagaInv

---------------------------------------------------------------------------
(* LiveOrderHoldsStock holds of every order that a single execution of      *)
(* createOrder is for, whatever happens to other orders and their keys;     *)
(* OrderSaga's run SagaReleaseRace shows that it fails for a shared key.    *)

\* No two executions of createOrder are for this order.
Unshared(o) == \A a, b \in Attempts : OrderOf[a] = o /\ OrderOf[b] = o => a = b

NoSharedKeys == \A a, b \in Attempts : OrderOf[a] = OrderOf[b] => a = b

Live(o) == order[o] \notin {"NONE", "CANCELLED"}
Holds(o) == reservation[o] \in {"RESERVED", "COMMITTED"}

\* Before its transaction an attempt has no order, and in it the stock is its own.
AttemptsAlone ==
    \A a \in Attempts : Unshared(OrderOf[a]) =>
        /\ pc[a] \in {"start", "price", "reserve", "create", "release"} =>
              order[OrderOf[a]] = "NONE"
        /\ pc[a] = "create" => Holds(OrderOf[a])
        /\ releaseCalls[a] > 0 =>
              pc[a] \in {"release", "failed"} /\ order[OrderOf[a]] = "NONE"

\* Nobody is still creating an order whose reservation a worker may see.
OldMeansOver ==
    /\ \A o \in Orders : reservation[o] # "NONE" =>
          \E a \in Attempts : OrderOf[a] = o /\ reservedBy[o] = {a}
    /\ \A o \in oldReservation, a \in Attempts :
          OrderOf[a] = o /\ Unshared(o) => pc[a] \in Ended
    /\ \A w \in Workers :
          /\ todo[w] \subseteq oldReservation
          /\ call[w].pc # "idle" => call[w].order \in oldReservation
          /\ call[w].pc = "reply" /\ call[w].release /\ Unshared(call[w].order) =>
                ~ Live(call[w].order)

UnsharedHoldStock == \A o \in Orders : Unshared(o) /\ Live(o) => Holds(o)

AloneInv == AttemptsAlone /\ OldMeansOver /\ UnsharedHoldStock

\* How an attempt proceeds.
LEMMA AttemptsProceed ==
    ASSUME PartsInv, [OrderNext]_orderVars, NEW a \in Attempts
    PROVE  /\ pc[a] \in Ended => pc'[a] = pc[a]
           /\ pc[a] = "release" => pc'[a] \in {"release", "failed"}
           /\ pc'[a] \in {"start", "price", "reserve", "create"} =>
                 pc[a] \in {"start", "price", "reserve", "create"}
           /\ pc'[a] = "release" => pc[a] = "release" \/ order[OrderOf[a]] = "NONE"
<1>1. pc \in [Attempts -> InFlight \cup {"ok", "failed"}]
  BY DEF PartsInv, OrderInv, OrderTypeOK
<1>2. ASSUME NEW c \in Attempts, AttemptStep(c)
      PROVE  /\ pc[a] \in Ended => pc'[a] = pc[a]
             /\ pc[a] = "release" => pc'[a] \in {"release", "failed"}
             /\ pc'[a] \in {"start", "price", "reserve", "create"} =>
                   pc[a] \in {"start", "price", "reserve", "create"}
             /\ pc'[a] = "release" => pc[a] = "release" \/ order[OrderOf[a]] = "NONE"
  BY <1>1, <1>2
  DEF AttemptStep, LookupIdempotency, Replay, PriceItems, ReserveReply, CreateOrder,
      CreateFails, CheckOrderExists, AttemptFails, InFlight, Ended
<1>3. CASE ~ \E c \in Attempts : AttemptStep(c)
  <2>1. UNCHANGED pc
    BY <1>3
    DEF OrderNext, ApplyUpdate, ReadForUpdate, ReconcileCancel, EndCall, ReconcileRead,
        CancelOrderForStockFailure, AgeOrder, orderVars
  <2>2. QED
    BY <2>1
<1>4. QED
  BY <1>2, <1>3

\* The retry loop around ReleaseStock starts when its attempt found no order.
LEMMA StartsRelease ==
    ASSUME PartsInv, SagaTypeOK, [SagaNext]_sagaVars, NEW a \in Attempts,
           releaseCalls'[a] > 0
    PROVE  releaseCalls[a] > 0 \/ (pc'[a] = "release" /\ order[OrderOf[a]] = "NONE")
<1> USE DEF SagaTypeOK
<1>1. ASSUME NEW c \in Attempts, CreateStep(c)
      PROVE  releaseCalls[a] > 0 \/ (pc'[a] = "release" /\ order[OrderOf[a]] = "NONE")
  <2>1. CASE StartRelease(c)
    BY <2>1 DEF StartRelease, CheckOrderExists, OrderTypeOK
  <2>2. CASE CatalogReleases(c)
    BY <2>2 DEF CatalogReleases
  <2>3. QED
    BY <1>1, <2>1, <2>2 DEF CreateStep, StartReserve, CatalogReserves, AttemptEnds
<1>2. CASE EventStep
  BY <1>2
  DEF EventStep, Publish, ConsumeOrderCreated, ConsumeReleaseRequested,
      ConsumeReservationFailed
<1>3. ASSUME NEW w \in Workers, WorkerStep(w)
      PROVE  UNCHANGED releaseCalls
  BY <1>3
  DEF WorkerStep, ScanExpired, AskOrderService, CancelAsAsked, ApplyAnswer, LoseAnswer
<1>4. ASSUME NEW q \in Orders, AgeReservation(q) \/ AgeSagaOrder(q)
      PROVE  UNCHANGED releaseCalls
  BY <1>4 DEF AgeReservation, AgeSagaOrder
<1>5. CASE UpdateStep \/ ProductStep \/ UNCHANGED sagaVars
  BY <1>5 DEF UpdateStep, ProductStep, sagaVars
<1>6. QED
  BY <1>1, <1>2, <1>3, <1>4, <1>5 DEF SagaNext

\* The three callers that can give an order's units back.
LEMMA EntersReleased ==
    ASSUME PartsInv, [SagaNext]_sagaVars, NEW o \in Orders,
           reservation'[o] = "RELEASED", reservation[o] # "RELEASED"
    PROVE  \/ \E a \in Attempts : OrderOf[a] = o /\ releaseCalls[a] > 0
           \/ Event("StockReleaseRequested", o) \in published
           \/ \E w \in Workers :
                 call[w].pc = "reply" /\ call[w].release /\ call[w].order = o
<1> USE DEF PartsInv, StockTypeOK, stockVars
<1>1. \A q \in Orders : ReleaseStock(q) => q = o
  BY DEF ReleaseStock
<1>2. \A q \in Orders, b \in Baskets : ~ ReserveStock(q, b)
  BY DEF ReserveStock
<1>3. \A q \in Orders : ~ CommitReservation(q)
  BY DEF CommitReservation
<1>4. /\ \A w \in Workers : call[w].order \in Orders
      /\ \A a \in Attempts : OrderOf[a] \in Orders /\ ItemsOf[a] \in Baskets
  BY AttemptsAssumption DEF OrderInv, OrderTypeOK
<1>5. ASSUME NEW a \in Attempts, CreateStep(a)
      PROVE  OrderOf[a] = o /\ releaseCalls[a] > 0
  BY <1>1, <1>2, <1>4, <1>5
  DEF CreateStep, StartReserve, CatalogReserves, StartRelease, CatalogReleases, AttemptEnds
<1>6. CASE EventStep
  BY <1>1, <1>6
  DEF EventStep, Publish, ConsumeOrderCreated, ConsumeReleaseRequested,
      ConsumeReservationFailed
<1>7. ASSUME NEW w \in Workers, WorkerStep(w)
      PROVE  call[w].pc = "reply" /\ call[w].release /\ call[w].order = o
  BY <1>1, <1>3, <1>4, <1>7
  DEF WorkerStep, ScanExpired, AskOrderService, CancelAsAsked, ApplyAnswer, LoseAnswer
<1>8. \A q \in Orders : ~ AgeReservation(q) /\ ~ AgeSagaOrder(q)
  BY DEF AgeReservation, AgeSagaOrder
<1>9. ~ UpdateStep /\ ~ ProductStep
  BY DEF UpdateStep, ProductStep, AdminStep, CreateProduct, UpdateProduct, DeleteProduct
<1>10. QED
  BY <1>5, <1>6, <1>7, <1>8, <1>9 DEF SagaNext, sagaVars

\* Who created a reservation is recorded with it.
LEMMA ReserverRecorded ==
    ASSUME PartsInv, SagaTypeOK, [SagaNext]_sagaVars, NEW o \in Orders,
           reservation'[o] # "NONE"
    PROVE  \/ reservation[o] # "NONE" /\ reservedBy'[o] = reservedBy[o]
           \/ \E a \in Attempts : OrderOf[a] = o /\ reservedBy'[o] = {a}
<1> USE DEF SagaTypeOK, PartsInv, StockTypeOK, stockVars
<1>1. ASSUME NEW a \in Attempts, CatalogReserves(a)
      PROVE  \/ reservation[o] # "NONE" /\ reservedBy'[o] = reservedBy[o]
             \/ OrderOf[a] = o /\ reservedBy'[o] = {a}
  BY <1>1, AttemptsAssumption DEF CatalogReserves, ReserveStock, ReserveOutcome
<1>2. CASE ~ \E a \in Attempts : CatalogReserves(a)
  <2>1. \A q \in Orders : ReleaseStock(q) \/ CommitReservation(q) =>
           reservation[o] # "NONE"
    BY DEF ReleaseStock, Releasable, CommitReservation
  <2>2. call \in [Workers -> [pc : {"idle", "cas", "reply"}, order : Orders,
                              release : BOOLEAN, commit : BOOLEAN]]
        /\ \A a \in Attempts : OrderOf[a] \in Orders
    BY AttemptsAssumption DEF OrderTypeOK
  <2>3. ASSUME NEW a \in Attempts, CreateStep(a)
        PROVE  reservation[o] # "NONE" /\ UNCHANGED reservedBy
    BY <1>2, <2>1, <2>2, <2>3
    DEF CreateStep, StartReserve, StartRelease, CatalogReleases, AttemptEnds
  <2>4. CASE EventStep
    BY <2>1, <2>4
    DEF EventStep, Publish, ConsumeOrderCreated, ConsumeReleaseRequested,
        ConsumeReservationFailed
  <2>5. ASSUME NEW w \in Workers, WorkerStep(w)
        PROVE  reservation[o] # "NONE" /\ UNCHANGED reservedBy
    BY <2>1, <2>2, <2>5
    DEF WorkerStep, ScanExpired, AskOrderService, CancelAsAsked, ApplyAnswer, LoseAnswer
  <2>6. ASSUME NEW q \in Orders, AgeReservation(q) \/ AgeSagaOrder(q)
        PROVE  reservation[o] # "NONE" /\ UNCHANGED reservedBy
    BY <2>6 DEF AgeReservation, AgeSagaOrder
  <2>7. CASE UpdateStep \/ ProductStep \/ UNCHANGED sagaVars
    BY <2>7
    DEF UpdateStep, ProductStep, AdminStep, CreateProduct, UpdateProduct, DeleteProduct,
        sagaVars
  <2>8. QED
    BY <2>3, <2>4, <2>5, <2>6, <2>7 DEF SagaNext
<1>3. QED
  BY <1>1, <1>2

\* A reservation grows old only when the attempt that created it is over.
LEMMA AgesWhenOver ==
    ASSUME PartsInv, SagaTypeOK, [SagaNext]_sagaVars, NEW o \in oldReservation'
    PROVE  \/ o \in oldReservation
           \/ /\ o \in Orders /\ reservation[o] # "NONE"
              /\ \A a \in reservedBy[o] : pc[a] \in Ended
<1>1. ASSUME NEW q \in Orders, AgeReservation(q)
      PROVE  \/ o \in oldReservation
             \/ /\ o \in Orders /\ reservation[o] # "NONE"
                /\ \A a \in reservedBy[o] : pc[a] \in Ended
  BY <1>1 DEF AgeReservation
<1>2. CASE EventStep
  BY <1>2
  DEF EventStep, Publish, ConsumeOrderCreated, ConsumeReleaseRequested,
      ConsumeReservationFailed
<1>3. ASSUME NEW a \in Attempts, CreateStep(a)
      PROVE  UNCHANGED oldReservation
  BY <1>3
  DEF CreateStep, StartReserve, CatalogReserves, StartRelease, CatalogReleases, AttemptEnds
<1>4. ASSUME NEW w \in Workers, WorkerStep(w)
      PROVE  UNCHANGED oldReservation
  BY <1>4
  DEF WorkerStep, ScanExpired, AskOrderService, CancelAsAsked, ApplyAnswer, LoseAnswer
<1>5. ASSUME NEW q \in Orders, AgeSagaOrder(q)
      PROVE  UNCHANGED oldReservation
  BY <1>5 DEF AgeSagaOrder
<1>6. CASE UpdateStep \/ ProductStep \/ UNCHANGED sagaVars
  BY <1>6 DEF UpdateStep, ProductStep, sagaVars
<1>7. QED
  BY <1>1, <1>2, <1>3, <1>4, <1>5, <1>6 DEF SagaNext

LEMMA OldStaysOld ==
    ASSUME [SagaNext]_sagaVars
    PROVE  oldReservation \subseteq oldReservation'
<1>1. CASE EventStep
  BY <1>1
  DEF EventStep, Publish, ConsumeOrderCreated, ConsumeReleaseRequested,
      ConsumeReservationFailed
<1>2. ASSUME NEW a \in Attempts, CreateStep(a)
      PROVE  UNCHANGED oldReservation
  BY <1>2
  DEF CreateStep, StartReserve, CatalogReserves, StartRelease, CatalogReleases, AttemptEnds
<1>3. ASSUME NEW w \in Workers, WorkerStep(w)
      PROVE  UNCHANGED oldReservation
  BY <1>3
  DEF WorkerStep, ScanExpired, AskOrderService, CancelAsAsked, ApplyAnswer, LoseAnswer
<1>4. ASSUME NEW q \in Orders, AgeReservation(q) \/ AgeSagaOrder(q)
      PROVE  oldReservation \subseteq oldReservation'
  BY <1>4 DEF AgeReservation, AgeSagaOrder
<1>5. CASE UpdateStep \/ ProductStep \/ UNCHANGED sagaVars
  BY <1>5 DEF UpdateStep, ProductStep, sagaVars
<1>6. QED
  BY <1>1, <1>2, <1>3, <1>4, <1>5 DEF SagaNext

\* What a worker has at hand after a step: rows and calls it had before, rows of a
\* fresh scan, or the call for a row of its batch.
LEMMA WorkersProceed ==
    ASSUME PartsInv, SagaTypeOK, [SagaNext]_sagaVars, NEW w \in Workers
    PROVE  /\ todo'[w] \subseteq todo[w] \cup oldReservation
           /\ \/ call'[w] = call[w]
              \/ call'[w].pc = "idle"
              \/ /\ call'[w].order \in todo[w]
                 /\ call'[w].pc = "reply" /\ call'[w].release =>
                       order[call'[w].order] \in {"NONE", "CANCELLED"}
              \/ /\ call[w].pc # "idle" /\ call'[w].order = call[w].order
                 /\ call'[w].release => order'[call'[w].order] = "CANCELLED"
<1> USE DEF SagaTypeOK, OrderTypeOK
<1>1. ASSUME NEW v \in Workers, ScanExpired(v) \/ LoseAnswer(v) \/ ApplyAnswer(v)
      PROVE  /\ todo'[w] \subseteq todo[w] \cup oldReservation
             /\ call'[w] = call[w] \/ call'[w].pc = "idle"
  BY <1>1 DEF ScanExpired, Expired, LoseAnswer, ApplyAnswer, EndCall, NoCall, orderVars
<1>2. ASSUME NEW v \in Workers, NEW o \in Orders, AskOrderService(v, o)
      PROVE  /\ todo'[w] \subseteq todo[w] \cup oldReservation
             /\ \/ call'[w] = call[w]
                \/ /\ call'[w].order \in todo[w]
                   /\ call'[w].pc = "reply" /\ call'[w].release =>
                         order[call'[w].order] \in {"NONE", "CANCELLED"}
  <2>1. todo'[w] \subseteq todo[w] /\ o \in todo[v]
    BY <1>2 DEF AskOrderService
  <2>2. CASE v # w
    BY <1>2, <2>1, <2>2 DEF AskOrderService, ReconcileRead
  <2>3. CASE v = w /\ order[o] \in {"NONE", "CANCELLED"}
    <3>1. call'[w].order = o
      BY <1>2, <2>3 DEF AskOrderService, ReconcileRead, Answer
    <3>2. QED
      BY <2>1, <2>3, <3>1
  <2>4. CASE v = w /\ order[o] \notin {"NONE", "CANCELLED"}
    <3>1. call'[w] \in {[Answer(o, FALSE, FALSE) EXCEPT !.pc = "cas"],
                        Answer(o, FALSE, order[o] \in Paid)}
      <4>1. (order[o] = "CANCELLED") = FALSE
        BY <2>4
      <4>2. QED
        BY <1>2, <2>4, <4>1 DEF AskOrderService, ReconcileRead
    <3>2. call'[w].order = o /\ ~ (call'[w].pc = "reply" /\ call'[w].release)
      BY <3>1 DEF Answer
    <3>3. QED
      BY <2>1, <2>4, <3>2
  <2>5. QED
    BY <2>2, <2>3, <2>4
<1>3. ASSUME NEW v \in Workers, CancelAsAsked(v)
      PROVE  /\ UNCHANGED todo
             /\ \/ call'[w] = call[w]
                \/ /\ call[w].pc # "idle" /\ call'[w].order = call[w].order
                   /\ call'[w].release => order'[call'[w].order] = "CANCELLED"
  <2>1. CASE v # w
    BY <1>3, <2>1 DEF CancelAsAsked, ReconcileCancel
  <2>2. CASE v = w /\ order[call[w].order] = "PENDING"
    BY <1>3, <2>2 DEF CancelAsAsked, ReconcileCancel, CancelOrder, Answer
  <2>3. CASE v = w /\ order[call[w].order] # "PENDING"
    <3>1. (order[call[w].order] = "PENDING") = FALSE
      BY <2>3
    <3>2. call'[w] = Answer(call[w].order, FALSE, FALSE)
      BY <1>3, <2>3, <3>1 DEF CancelAsAsked, ReconcileCancel
    <3>3. QED
      BY <1>3, <2>3, <3>2 DEF CancelAsAsked, ReconcileCancel, Answer
  <2>4. QED
    BY <2>1, <2>2, <2>3
<1>4. ASSUME NEW a \in Attempts, CreateStep(a)
      PROVE  UNCHANGED <<todo, call>>
  BY <1>4
  DEF CreateStep, StartReserve, PriceItems, CatalogReserves, ReserveReply, StartRelease,
      CheckOrderExists, CatalogReleases, AttemptEnds, AttemptFails, LookupIdempotency,
      CreateOrder, CreateFails, orderVars
<1>5. CASE EventStep
  BY <1>5
  DEF EventStep, Publish, ConsumeOrderCreated, ConsumeReleaseRequested,
      ConsumeReservationFailed, CancelOrderForStockFailure, orderVars
<1>6. ASSUME NEW q \in Orders, AgeReservation(q) \/ AgeSagaOrder(q)
      PROVE  UNCHANGED <<todo, call>>
  BY <1>6 DEF AgeReservation, AgeSagaOrder, AgeOrder, orderVars
<1>7. CASE UpdateStep \/ ProductStep \/ UNCHANGED sagaVars
  BY <1>7 DEF UpdateStep, ApplyUpdate, ReadForUpdate, ProductStep, sagaVars, orderVars
<1>8. QED
  BY <1>1, <1>2, <1>3, <1>4, <1>5, <1>6, <1>7 DEF SagaNext, WorkerStep

---------------------------------------------------------------------------
\* Units are only given back for an order that is cancelled or is not there, and of
\* which no attempt is about to write it.
LEMMA ReleasesAreSafe ==
    ASSUME PartsInv, SagaInv, AloneInv, [SagaNext]_sagaVars, NEW o \in Orders, Unshared(o),
           reservation'[o] = "RELEASED", reservation[o] # "RELEASED"
    PROVE  ~ Live(o) /\ \A a \in Attempts : OrderOf[a] = o => pc[a] # "create"
<1> USE DEF AloneInv, Live
<1>1. CASE \E a \in Attempts : OrderOf[a] = o /\ releaseCalls[a] > 0
  BY <1>1 DEF Unshared, AttemptsAlone
<1>2. CASE Event("StockReleaseRequested", o) \in published
  <2>1. Event("StockReleaseRequested", o) \in orderOutbox
    BY <1>2 DEF SagaInv, PublishedWereWritten, OutboxRows, Event
  <2>2. order[o] = "CANCELLED"
    BY <2>1 DEF PartsInv, OrderInv, OutboxMatchesOrder
  <2>3. QED
    BY <2>2 DEF AttemptsAlone
<1>3. ASSUME NEW w \in Workers,
             call[w].pc = "reply", call[w].release, call[w].order = o
      PROVE  ~ Live(o) /\ \A a \in Attempts : OrderOf[a] = o => pc[a] # "create"
  BY <1>3 DEF OldMeansOver, Ended
<1>4. QED
  BY <1>1, <1>2, <1>3, EntersReleased

\* An order that appears was written by its only attempt.
LEMMA OrderAppears ==
    ASSUME PartsInv, [OrderNext]_orderVars, NEW o \in Orders,
           order[o] = "NONE", order'[o] # "NONE"
    PROVE  \E a \in Attempts : /\ OrderOf[a] = o
                               /\ pc[a] = "create" /\ pc'[a] \in {"ok", "recover"}
<1>1. OrderInv /\ OrderTypeOK /\ \A a \in Attempts : OrderOf[a] \in Orders
  BY BasketsAreLists DEF PartsInv, OrderInv
<1>2. \A u \in Updaters : update[u].order \in Orders /\ update[u].from # "NONE"
  BY <1>1 DEF OrderTypeOK, Status
<1>3. QED
  BY <1>1, <1>2, OrderChanges DEF OrderTypeOK

LEMMA AttemptsAloneKept ==
    ASSUME PartsInv, SagaInv, SagaInv', AloneInv, [SagaNext]_sagaVars
    PROVE  AttemptsAlone'
<1> SUFFICES ASSUME NEW a \in Attempts, Unshared(OrderOf[a])
             PROVE  /\ pc'[a] \in {"start", "price", "reserve", "create", "release"} =>
                          order'[OrderOf[a]] = "NONE"
                    /\ pc'[a] = "create" => Holds(OrderOf[a])'
                    /\ releaseCalls'[a] > 0 =>
                          pc'[a] \in {"release", "failed"} /\ order'[OrderOf[a]] = "NONE"
  BY DEF AttemptsAlone, Unshared
<1> DEFINE o == OrderOf[a]
<1>1. /\ o \in Orders /\ StockTypeOK /\ OrderTypeOK /\ SagaTypeOK /\ StockTypeOK'
      /\ [OrderNext]_orderVars /\ [StockNext]_stockVars
  BY BasketsAreLists, SagaStepsAreParts DEF SagaInv, SagaTypeOK
<1>2. order[o] = "NONE" /\ order'[o] # "NONE" =>
         pc[a] = "create" /\ pc'[a] \in {"ok", "recover"}
  BY <1>1, OrderAppears DEF Unshared
<1>3. pc'[a] \in {"start", "price", "reserve", "create", "release"} => order'[o] = "NONE"
  BY <1>1, <1>2, AttemptsProceed DEF AloneInv, AttemptsAlone
<1>4. ASSUME pc'[a] = "create"
      PROVE  Holds(o)'
  <2> USE DEF Holds
  <2>1. CASE pc[a] = "create"
    <3>1. reservation[o] \in {"RESERVED", "COMMITTED"}
      BY <2>1 DEF AloneInv, AttemptsAlone
    <3>2. reservation'[o] # "NONE"
      BY <1>1, <3>1, ReservationsStay
    <3>3. reservation'[o] # "RELEASED"
      BY <1>1, <2>1, <3>1, ReleasesAreSafe
    <3>4. QED
      BY <1>1, <3>2, <3>3 DEF StockTypeOK, ReservationStatus
  <2>2. CASE pc[a] # "create"
    <3>1. /\ ReserveStock(o, ItemsOf[a])
          /\ ReserveOutcome(o, ItemsOf[a]) \in {"reserved", "existing"}
      BY <1>4, <2>2, EntersCreate DEF CatalogReserves
    <3>2. CASE ReserveOutcome(o, ItemsOf[a]) = "reserved"
      BY <1>1, <3>1, <3>2 DEF ReserveStock, StockTypeOK
    <3>3. CASE ReserveOutcome(o, ItemsOf[a]) = "existing"
      BY <1>1, <3>1, <3>3
      DEF ReserveStock, ReserveOutcome, stockVars, StockTypeOK, ReservationStatus
    <3>4. QED
      BY <3>1, <3>2, <3>3
  <2>3. QED
    BY <2>1, <2>2
<1>5. ASSUME releaseCalls'[a] > 0
      PROVE  pc'[a] \in {"release", "failed"} /\ order'[o] = "NONE"
  <2>1. CASE releaseCalls[a] > 0
    BY <1>1, <1>2, <2>1, AttemptsProceed DEF AloneInv, AttemptsAlone, Ended
  <2>2. CASE pc'[a] = "release" /\ order[o] = "NONE"
    BY <1>2, <2>2
  <2>3. QED
    BY <1>1, <1>5, <2>1, <2>2, StartsRelease
<1>6. QED
  BY <1>3, <1>4, <1>5

LEMMA OldMeansOverKept ==
    ASSUME PartsInv, SagaInv, AloneInv, [SagaNext]_sagaVars
    PROVE  OldMeansOver'
<1>1. /\ OrderTypeOK /\ SagaTypeOK /\ OrderInv /\ [OrderNext]_orderVars
      /\ oldReservation \subseteq oldReservation'
  BY SagaStepsAreParts, OldStaysOld DEF PartsInv, SagaInv, OrderInv
<1>2. ASSUME NEW o \in Orders, reservation'[o] # "NONE"
      PROVE  \E a \in Attempts : OrderOf[a] = o /\ reservedBy'[o] = {a}
  BY <1>1, <1>2, ReserverRecorded DEF AloneInv, OldMeansOver
<1>3. ASSUME NEW o \in oldReservation', NEW a \in Attempts, OrderOf[a] = o, Unshared(o)
      PROVE  pc[a] \in Ended /\ pc'[a] \in Ended
  <2>1. pc[a] \in Ended
    <3>1. CASE o \in oldReservation
      BY <1>3, <3>1 DEF AloneInv, OldMeansOver
    <3>2. CASE o \notin oldReservation
      <4>1. /\ o \in Orders /\ reservation[o] # "NONE"
            /\ \A c \in reservedBy[o] : pc[c] \in Ended
        BY <1>1, <3>2, AgesWhenOver
      <4>2. PICK c \in Attempts : OrderOf[c] = o /\ reservedBy[o] = {c}
        BY <4>1 DEF AloneInv, OldMeansOver
      <4>3. QED
        BY <1>3, <4>1, <4>2 DEF Unshared
    <3>3. QED
      BY <3>1, <3>2
  <2>2. QED
    BY <1>1, <2>1, AttemptsProceed
<1>4. ASSUME NEW o \in oldReservation, Unshared(o), order[o] \in {"NONE", "CANCELLED"}
      PROVE  order'[o] \in {"NONE", "CANCELLED"}
  <2>1. o \in Orders
    BY <1>1 DEF SagaTypeOK
  <2>2. CASE order[o] = "CANCELLED"
    BY <1>1, <2>1, <2>2, OrdersStay
  <2>3. CASE order[o] = "NONE"
    BY <1>1, <1>4, <2>1, <2>3, OrderAppears DEF AloneInv, OldMeansOver, Ended
  <2>4. QED
    BY <1>4, <2>2, <2>3
<1>5. ASSUME NEW w \in Workers
      PROVE  /\ todo'[w] \subseteq oldReservation'
             /\ call'[w].pc # "idle" => call'[w].order \in oldReservation'
             /\ call'[w].pc = "reply" /\ call'[w].release /\ Unshared(call'[w].order) =>
                   order'[call'[w].order] \in {"NONE", "CANCELLED"}
  <2>1. /\ todo[w] \subseteq oldReservation
        /\ call[w].pc # "idle" => call[w].order \in oldReservation
        /\ call[w].pc = "reply" /\ call[w].release /\ Unshared(call[w].order) =>
              order[call[w].order] \in {"NONE", "CANCELLED"}
    BY DEF AloneInv, OldMeansOver, Live
  <2>2. /\ todo'[w] \subseteq todo[w] \cup oldReservation
        /\ \/ call'[w] = call[w]
           \/ call'[w].pc = "idle"
           \/ /\ call'[w].order \in todo[w]
              /\ call'[w].pc = "reply" /\ call'[w].release =>
                    order[call'[w].order] \in {"NONE", "CANCELLED"}
           \/ /\ call[w].pc # "idle" /\ call'[w].order = call[w].order
              /\ call'[w].release => order'[call'[w].order] = "CANCELLED"
    BY <1>1, WorkersProceed
  <2>3. QED
    BY <1>1, <1>4, <2>1, <2>2
<1>6. QED
  BY <1>2, <1>3, <1>5 DEF OldMeansOver, Live, Unshared

LEMMA UnsharedHoldStockKept ==
    ASSUME PartsInv, PartsInv', SagaInv, AloneInv, [SagaNext]_sagaVars
    PROVE  UnsharedHoldStock'
<1> USE DEF Live, Holds
<1> SUFFICES ASSUME NEW o \in Orders, Unshared(o), order'[o] \notin {"NONE", "CANCELLED"}
             PROVE  reservation'[o] \in {"RESERVED", "COMMITTED"}
  BY DEF UnsharedHoldStock, Unshared
<1>1. /\ StockTypeOK /\ StockTypeOK' /\ OrderTypeOK /\ OrderInv
      /\ [OrderNext]_orderVars /\ [StockNext]_stockVars
  BY SagaStepsAreParts DEF PartsInv, OrderInv
<1>2. order[o] # "CANCELLED"
  BY <1>1, OrdersStay
<1>3. /\ reservation[o] \in {"RESERVED", "COMMITTED"}
      /\ order[o] # "NONE" \/ \E a \in Attempts : OrderOf[a] = o /\ pc[a] = "create"
  <2>1. CASE order[o] = "NONE"
    BY <1>1, <2>1, OrderAppears DEF AloneInv, AttemptsAlone
  <2>2. CASE order[o] # "NONE"
    BY <1>2, <2>2 DEF AloneInv, UnsharedHoldStock
  <2>3. QED
    BY <2>1, <2>2
<1>4. reservation'[o] # "NONE"
  BY <1>1, <1>3, ReservationsStay
<1>5. reservation'[o] # "RELEASED"
  BY <1>2, <1>3, ReleasesAreSafe
<1>6. QED
  BY <1>1, <1>4, <1>5 DEF StockTypeOK, ReservationStatus

LEMMA AloneInitInv == SagaInit => AloneInv
<1>1. SagaInit => AttemptsAlone
  BY BasketsAreLists DEF SagaInit, OrderInit, AttemptsAlone
<1>2. SagaInit => OldMeansOver
  BY DEF SagaInit, StockInit, OrderInit, OldMeansOver, NoCall
<1>3. SagaInit => UnsharedHoldStock
  BY DEF SagaInit, OrderInit, UnsharedHoldStock, Live
<1>4. QED
  BY <1>1, <1>2, <1>3 DEF AloneInv

LEMMA AloneInvariant == SagaSpec => []AloneInv
<1>1. PartsInv /\ PartsInv' /\ SagaInv /\ SagaInv' /\ AloneInv /\ [SagaNext]_sagaVars
          => AloneInv'
  BY AttemptsAloneKept, OldMeansOverKept, UnsharedHoldStockKept DEF AloneInv
<1>2. QED
  BY <1>1, AloneInitInv, PartsInvariant, SagaInvariant, PTL DEF SagaSpec

\* The units of an order that is not cancelled stay off the shelf as long as no second
\* execution of createOrder is for it, whatever calls and events are late, repeated or
\* lost, however many workers run, however late they act on their answers, and whatever
\* becomes of orders whose idempotency keys are shared.
THEOREM UnsharedOrdersHoldStock == SagaSpec => []UnsharedHoldStock
BY AloneInvariant, PTL DEF AloneInv

\* As long as no two executions of createOrder share a key, that is every order.
THEOREM LiveOrdersHoldStock ==
    ASSUME NoSharedKeys
    PROVE  SagaSpec => []LiveOrderHoldsStock
<1>1. UnsharedHoldStock => LiveOrderHoldsStock
  BY NoSharedKeys DEF NoSharedKeys, Unshared, UnsharedHoldStock, LiveOrderHoldsStock, Live, Holds
<1>2. QED
  BY <1>1, UnsharedOrdersHoldStock, PTL

\* What PendingExpires, which TLC checks, means for an order whose key no other attempt
\* shares: as its stock is never released while it is PENDING, it does not stay PENDING.
THEOREM UnsharedOrdersExpire ==
    ASSUME NEW o \in Orders, Unshared(o)
    PROVE  SagaSpec /\ PendingExpires => (order[o] = "PENDING" ~> order[o] # "PENDING")
<1>1. UnsharedHoldStock /\ reservation[o] = "RELEASED" => order[o] # "PENDING"
  BY DEF UnsharedHoldStock, Live, Holds
<1>2. PendingExpires =>
        (order[o] = "PENDING" ~> order[o] # "PENDING" \/ reservation[o] = "RELEASED")
  BY DEF PendingExpires
<1>. QED BY <1>1, <1>2, UnsharedOrdersHoldStock, PTL

---------------------------------------------------------------------------
(* What both databases together promise a customer                         *)

\* What the orders that are not cancelled have been sold of product p.
Sold(p) ==
    [o \in Orders |-> IF Unshared(o) /\ Live(o) THEN orderItems[o][p] ELSE 0]

\* What the customers have been sold of a product and what is still on its shelf are together
\* never more than was supplied: the order service's database, which does not know the
\* stock, stays within the catalog's.
NothingOversold ==
    \A p \in Products : product[p] = "live" => SumFunction(Sold(p)) + stock[p] <= supplied[p]

LEMMA SoldIsHeld ==
    ASSUME PartsInv, OrderHasReservation, UnsharedHoldStock, NEW p \in Products
    PROVE  SumFunction(Sold(p)) <= SumFunction(HeldBy(p)) /\ SumFunction(Sold(p)) \in Int
<1>1. /\ items \in [Orders -> [Products -> Nat]]
      /\ orderItems \in [Orders -> [Products -> Nat]]
  BY BasketsAreLists DEF PartsInv, StockTypeOK, OrderInv, OrderTypeOK
<1>2. Sold(p) \in [Orders -> Int] /\ HeldBy(p) \in [Orders -> Int]
  BY <1>1 DEF Sold, HeldBy, Held
<1>3. ASSUME NEW o \in Orders PROVE Sold(p)[o] <= HeldBy(p)[o]
  <2>1. HeldBy(p)[o] \in Nat BY <1>1 DEF HeldBy, Held
  <2>2. CASE Unshared(o) /\ Live(o)
    <3>1. Sold(p)[o] = orderItems[o][p] BY <2>2 DEF Sold
    <3>2. items[o] = orderItems[o] BY <2>2 DEF OrderHasReservation, Live
    <3>3. HeldBy(p)[o] = items[o][p] BY <2>2 DEF UnsharedHoldStock, Holds, HeldBy, Held
    <3>. QED BY <2>1, <3>1, <3>2, <3>3
  <2>3. CASE ~ (Unshared(o) /\ Live(o))
    <3>1. Sold(p)[o] = 0 BY <2>3 DEF Sold
    <3>. QED BY <2>1, <3>1
  <2>. QED BY <2>2, <2>3
<1>. QED BY <1>2, <1>3, OrdersAssumption, SumGrows, SumIsInteger

\* createOrder reserves before it writes, and what is released is not sold: however calls
\* and events of the two services are lost, late or repeated, the orders with a key of their
\* own and the shelf never add up to more than was supplied.
THEOREM OrdersNeverOversell == SagaSpec => []NothingOversold
<1>1. SagaSpec => []UnitsConserved BY SagaImplementsStock, UnitsAreConserved, PTL
<1>2. PartsInv /\ SagaInv /\ UnsharedHoldStock /\ UnitsConserved => NothingOversold
  <2>1. SUFFICES ASSUME PartsInv, OrderHasReservation, UnsharedHoldStock, UnitsConserved,
                        NEW p \in Products, product[p] = "live"
                 PROVE  SumFunction(Sold(p)) + stock[p] <= supplied[p]
    BY DEF SagaInv, NothingOversold
  <2>2. SumFunction(Sold(p)) <= SumFunction(HeldBy(p)) /\ SumFunction(Sold(p)) \in Int
    BY <2>1, SoldIsHeld
  <2>3. SumFunction(HeldBy(p)) \in Int
    <3>1. HeldBy(p) \in [Orders -> Int] BY <2>1 DEF HeldBy, Held, PartsInv, StockTypeOK
    <3>. QED BY <3>1, OrdersAssumption, SumIsInteger
  <2>4. stock[p] \in Nat /\ supplied[p] \in Int BY <2>1 DEF PartsInv, StockTypeOK
  <2>5. stock[p] + SumFunction(HeldBy(p)) = supplied[p] BY <2>1 DEF UnitsConserved
  <2>. QED BY <2>2, <2>3, <2>4, <2>5
<1>. QED BY <1>1, <1>2, PartsInvariant, SagaInvariant, UnsharedOrdersHoldStock, PTL

---------------------------------------------------------------------------
(* The saga's events are those of EventTransport, which EventDelivery      *)
(* implements: what is proved here holds with that outbox and consumer.    *)

\* The consumers of the two other kinds of events keep no record of what they consumed;
\* their steps are guarded by published and otherwise transactions like any other.
HandledEvents == {Event("OrderCreated", o) : o \in processed}

Transport == INSTANCE EventTransport WITH written <- OutboxRows, consumed <- HandledEvents

\* No transaction takes an outbox row back.
LEMMA RowsStay ==
    ASSUME PartsInv, PartsInv', SagaInv', [SagaNext]_sagaVars
    PROVE  OutboxRows \subseteq OutboxRows' /\ OutboxRows' \subseteq Events
<1>1. OrderInv /\ [OrderNext]_orderVars BY SagaStepsAreParts DEF PartsInv
<1>2. orderOutbox \subseteq orderOutbox' /\ stockFailed \subseteq stockFailed'
  BY <1>1, AnOrderIsOrder, OrderChanges, RaisesFailure
<1>3. orderOutbox' \subseteq OrderEvents /\ stockFailed' \subseteq Orders
  BY DEF PartsInv, OrderInv, OrderTypeOK, SagaInv, SagaTypeOK
<1>. QED BY <1>2, <1>3 DEF OutboxRows, Events

\* The creation event of an order is handled by the one consumer that marks it processed.
LEMMA HandlesOrPublishes ==
    ASSUME [SagaNext]_sagaVars
    PROVE  \/ UNCHANGED <<published, processed>>
           \/ \E e \in OutboxRows : Publish(e)
           \/ \E o \in Orders : ConsumeOrderCreated(o)
<1>1. CASE EventStep
  BY <1>1 DEF EventStep, ConsumeReleaseRequested, ConsumeReservationFailed
<1>2. ASSUME NEW a \in Attempts, CreateStep(a) PROVE UNCHANGED <<published, processed>>
  BY <1>2
  DEF CreateStep, StartReserve, CatalogReserves, StartRelease, CatalogReleases, AttemptEnds
<1>3. ASSUME NEW w \in Workers, WorkerStep(w) PROVE UNCHANGED <<published, processed>>
  BY <1>3
  DEF WorkerStep, ScanExpired, AskOrderService, CancelAsAsked, ApplyAnswer, LoseAnswer
<1>4. ASSUME NEW q \in Orders, AgeReservation(q) \/ AgeSagaOrder(q)
      PROVE  UNCHANGED <<published, processed>>
  BY <1>4 DEF AgeReservation, AgeSagaOrder
<1>5. CASE UpdateStep \/ ProductStep \/ UNCHANGED sagaVars
  BY <1>5 DEF UpdateStep, ProductStep, sagaVars
<1>. QED BY <1>1, <1>2, <1>3, <1>4, <1>5 DEF SagaNext

LEMMA SagaStepTransports ==
    ASSUME PartsInv, PartsInv', SagaInv, SagaInv', [SagaNext]_sagaVars
    PROVE  Transport!TransportNext
<1>1. OutboxRows \subseteq OutboxRows' /\ OutboxRows' \in SUBSET Events BY RowsStay
<1>2. CASE UNCHANGED <<published, processed>>
  <2>1. Transport!Transact(OutboxRows', {})
    BY <1>1, <1>2 DEF Transport!Transact, HandledEvents
  <2>. QED BY <1>1, <2>1 DEF Transport!TransportNext
<1>3. ASSUME NEW e \in OutboxRows, Publish(e) PROVE Transport!TransportNext
  <2>1. UNCHANGED <<orderVars, stockFailed, processed>> /\ published' = published \cup {e}
    BY <1>3 DEF Publish
  <2>2. OutboxRows' = OutboxRows /\ HandledEvents' = HandledEvents
    BY <2>1 DEF OutboxRows, HandledEvents, orderVars
  <2>3. Transport!Publish(e) BY <2>1, <2>2 DEF Transport!Publish
  <2>. QED BY <1>1, <2>3 DEF Transport!TransportNext
<1>4. ASSUME NEW o \in Orders, ConsumeOrderCreated(o) PROVE Transport!TransportNext
  <2>. DEFINE e == Event("OrderCreated", o)
  <2>1. e \in published /\ processed' = processed \cup {o} /\ UNCHANGED published
    BY <1>4 DEF ConsumeOrderCreated
  <2>2. HandledEvents' = HandledEvents \cup {e} BY <2>1 DEF HandledEvents
  <2>3. {e} \in SUBSET Events BY <2>1 DEF SagaInv, SagaTypeOK
  <2>4. Transport!Transact(OutboxRows', {e}) BY <1>1, <2>1, <2>2 DEF Transport!Transact
  <2>. QED BY <1>1, <2>3, <2>4 DEF Transport!TransportNext
<1>. QED BY <1>2, <1>3, <1>4, HandlesOrPublishes

\* The two services write, publish and handle their events as EventTransport allows, and
\* no row is ever taken back.
THEOREM SagaUsesTransport == SagaSpec => Transport!TransportSpec
<1>1. SagaInit => Transport!TransportInit
  BY DEF SagaInit, OrderInit, OutboxRows, HandledEvents, Transport!TransportInit
<1>2. PartsInv /\ PartsInv' /\ SagaInv /\ SagaInv' /\ [SagaNext]_sagaVars
          => [Transport!TransportNext]_Transport!transportVars
  BY SagaStepTransports
<1>. QED
  BY <1>1, <1>2, PartsInvariant, SagaInvariant, PTL DEF SagaSpec, Transport!TransportSpec
===========================================================================
