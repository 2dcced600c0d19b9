------------------------------ MODULE StockTx ------------------------------
(***************************************************************************)
(* The catalog's stock transactions statement by statement, as concurrent  *)
(* PostgreSQL transactions at READ COMMITTED: advisory locks per order,    *)
(* row locks on products and reservations, statements that wait for a lock *)
(* and then act on the newest committed row, rollback at any point.        *)
(* They implement the one-step transactions of StockReservation.           *)
(***************************************************************************)
EXTENDS OrderContract, FiniteSetsExt

CONSTANTS
    StockLevels,    \* stock values an administrator writes
    Txs             \* database sessions of the catalog's replicas

\* A product id stands for its place in the sort order of canonical().
ASSUME SortedProducts == Products \subseteq Nat /\ IsFiniteSet(Products)
ASSUME SessionsAssumption == Orders # {} /\ IsFiniteSet(Orders) /\ StockLevels \subseteq Nat

VARIABLES
    product, stock, reservation, items, stockReleased, supplied,    \* as committed
    tx              \* the transaction each session is in

tables == <<product, stock, reservation, items, stockReleased, supplied>>
txVars == <<tables, tx>>

Kinds == {"reserve", "release"}
NoTx == [pc |-> "idle", kind |-> "reserve", order |-> CHOOSE o \in Orders : TRUE,
         basket |-> NoItems, updated |-> {}]

StockTxTypeOK ==
    /\ product \in [Products -> {"unborn", "live", "deleted"}]
    /\ stock \in [Products -> Nat]
    /\ reservation \in [Orders -> {"NONE", "RESERVED", "RELEASED", "COMMITTED"}]
    /\ items \in [Orders -> [Products -> Nat]]
    /\ stockReleased \subseteq Orders
    /\ supplied \in [Products -> Int]
    /\ tx \in [Txs -> [pc : {"idle", "lock", "read", "mark", "update"}, kind : Kinds,
                       order : Orders, basket : [Products -> Nat],
                       updated : SUBSET Products]]

TxInit ==
    /\ product \in [Products -> {"unborn", "live"}]
    /\ stock \in [Products -> StockLevels]
    /\ \A p \in Products : product[p] = "unborn" => stock[p] = 0
    /\ reservation = [o \in Orders |-> "NONE"]
    /\ items = [o \in Orders |-> NoItems]
    /\ stockReleased = {}
    /\ supplied = stock
    /\ tx = [t \in Txs |-> NoTx]

---------------------------------------------------------------------------
(* Locks *)

\* pg_advisory_xact_lock(hashtextextended(orderId, 1)), held until the end.
HoldsOrder(t, o) == tx[t].order = o /\ tx[t].pc \in {"read", "mark", "update"}

\* The reservation row, locked by the release's UPDATE; a new row is invisible.
HoldsReservation(t, o) ==
    tx[t].order = o /\ tx[t].kind = "release" /\ tx[t].pc = "update"

HoldsProduct(t, p) == tx[t].pc = "update" /\ p \in tx[t].updated

Remaining(t) == {p \in Products : tx[t].basket[p] > 0} \ tx[t].updated

(* Operators named Mutant... are wrong on purpose: see StockReservation.               *)

\* Items as the request lists them: one order names the products backwards.
MutantNextProducts(t) ==
    IF Remaining(t) = {} THEN {}
    ELSE IF tx[t].order = NoTx.order THEN {Max(Remaining(t))} ELSE {Min(Remaining(t))}

\* canonical() sorts the items, so every transaction updates products in id order.
NextProducts(t) == IF Remaining(t) = {} THEN {} ELSE {Min(Remaining(t))}

\* The next statement of t needs a lock that u holds.
WaitsFor(t, u) ==
    \/ tx[t].pc = "lock" /\ HoldsOrder(u, tx[t].order)
    \/ tx[t].pc = "mark" /\ HoldsReservation(u, tx[t].order)
    \/ tx[t].pc = "update" /\ \E p \in NextProducts(t) : HoldsProduct(u, p)

Blocked(t) == \E u \in Txs \ {t} : WaitsFor(t, u)

---------------------------------------------------------------------------
(* reserveStock and releaseStock *)

Goto(t, pc) == tx' = [tx EXCEPT ![t].pc = pc]
End(t) == tx' = [tx EXCEPT ![t] = NoTx]

Begin(t, kind, o, b) ==
    /\ tx[t].pc = "idle"
    /\ tx' = [tx EXCEPT ![t] = [pc |-> "lock", kind |-> kind, order |-> o,
                                basket |-> b, updated |-> {}]]
    /\ UNCHANGED tables

MutantTakeLock(t) ==
    /\ tx[t].pc = "lock"
    /\ Goto(t, "read")
    /\ UNCHANGED tables

TakeLock(t) ==
    /\ tx[t].pc = "lock" /\ ~ Blocked(t)
    /\ Goto(t, "read")
    /\ UNCHANGED tables

\* reserveStock goes on when there is no row; releaseStock when the row is RESERVED,
\* with the items it finds there.
ReadReservation(t) ==
    LET o == tx[t].order IN
    /\ tx[t].pc = "read"
    /\ \/ tx[t].kind = "reserve" /\ reservation[o] = "NONE" /\ Goto(t, "update")
       \/ /\ tx[t].kind = "release" /\ reservation[o] = "RESERVED"
          /\ tx' = [tx EXCEPT ![t].pc = "mark", ![t].basket = items[o]]
       \/ /\ reservation[o] # (IF tx[t].kind = "reserve" THEN "NONE" ELSE "RESERVED")
          /\ End(t)
    /\ UNCHANGED tables

\* UPDATE of the reservation to RELEASED by order id, whatever its status is by now.
MarkReleased(t) ==
    /\ tx[t].pc = "mark" /\ ~ Blocked(t)
    /\ Goto(t, "update")
    /\ UNCHANGED tables

MutantUpdateProduct(t) ==
    \E p \in NextProducts(t) :
        /\ tx[t].pc = "update" /\ ~ Blocked(t)
        /\ IF product[p] = "live"
           THEN tx' = [tx EXCEPT ![t].updated = @ \cup {p}]
           ELSE End(t)
        /\ UNCHANGED tables

\* One product is decremented, if enough is left, or incremented, if it still exists;
\* otherwise the transaction throws.  The product stays locked.
UpdateProductRow(t) ==
    \E p \in NextProducts(t) :
        /\ tx[t].pc = "update" /\ ~ Blocked(t)
        /\ IF product[p] = "live" /\ (tx[t].kind = "reserve" => stock[p] >= tx[t].basket[p])
           THEN tx' = [tx EXCEPT ![t].updated = @ \cup {p}]
           ELSE End(t)
        /\ UNCHANGED tables

\* The last statement, INSERT of the reservation or of the StockReleased row, and COMMIT.
\* orderId is unique: a second reservation for it would be refused.
Commit(t) ==
    LET o == tx[t].order
        b == tx[t].basket IN
    /\ tx[t].pc = "update" /\ Remaining(t) = {}
    /\ \/ /\ tx[t].kind = "release"
          /\ stock' = [p \in Products |-> stock[p] + b[p]]
          /\ reservation' = [reservation EXCEPT ![o] = "RELEASED"]
          /\ stockReleased' = stockReleased \cup {o}
          /\ UNCHANGED items
       \/ /\ tx[t].kind = "reserve"
          /\ IF reservation[o] = "NONE"
             THEN /\ stock' = [p \in Products |-> stock[p] - b[p]]
                  /\ reservation' = [reservation EXCEPT ![o] = "RESERVED"]
                  /\ items' = [items EXCEPT ![o] = b]
                  /\ UNCHANGED stockReleased
             ELSE UNCHANGED <<stock, reservation, items, stockReleased>>
    /\ End(t)
    /\ UNCHANGED <<product, supplied>>

\* A transaction times out, its connection breaks or its process dies.
Abort(t) == tx[t].pc # "idle" /\ End(t) /\ UNCHANGED tables

---------------------------------------------------------------------------
(* Single-statement transactions: they wait for one row lock *)

\* The worker's updateMany takes no advisory lock.
CommitRow(o) ==
    /\ \A t \in Txs : ~ HoldsReservation(t, o)
    /\ reservation[o] = "RESERVED"
    /\ reservation' = [reservation EXCEPT ![o] = "COMMITTED"]
    /\ UNCHANGED <<product, stock, items, stockReleased, supplied, tx>>

WriteProduct(p) ==
    /\ \A t \in Txs : ~ HoldsProduct(t, p)
    /\ \/ /\ product[p] = "live"
          /\ product' = [product EXCEPT ![p] = "deleted"]
          /\ UNCHANGED <<stock, supplied>>
       \/ \E n \in StockLevels :
             /\ product[p] \in {"unborn", "live"}
             /\ product' = [product EXCEPT ![p] = "live"]
             /\ stock' = [stock EXCEPT ![p] = n]
             /\ supplied' = [supplied EXCEPT ![p] = @ + (n - stock[p])]
    /\ UNCHANGED <<reservation, items, stockReleased, tx>>

TxNext ==
    \/ \E t \in Txs :
          \/ \E o \in Orders, b \in Baskets : Begin(t, "reserve", o, b)
          \/ \E o \in Orders : Begin(t, "release", o, NoItems)
          \/ TakeLock(t)
          \/ ReadReservation(t)
          \/ MarkReleased(t)
          \/ UpdateProductRow(t)
          \/ Commit(t)
          \/ Abort(t)
    \/ \E o \in Orders : CommitRow(o)
    \/ \E p \in Products : WriteProduct(p)

TxSpec == TxInit /\ [][TxNext]_txVars

---------------------------------------------------------------------------
\* Transactions that wait for each other's locks in a circle would all be stuck until
\* PostgreSQL kills one.  Sorting the items (stockService.ts:23) and taking the
\* order's lock first rule it out, for any orders with overlapping items.
NoLockCycle ==
    \A T \in (SUBSET Txs) \ {{}} : \E t \in T : \A u \in T : ~ WaitsFor(t, u)

\* A release that has read RESERVED overwrites a commit that comes in between.  Until
\* such a release ends, its reservation counts as RESERVED.
SettledReservation ==
    [o \in Orders |->
        IF \E t \in Txs : /\ tx[t].kind = "release" /\ tx[t].order = o
                          /\ tx[t].pc \in {"mark", "update"}
        THEN "RESERVED" ELSE reservation[o]]

Ledger == INSTANCE StockReservation WITH reservation <- SettledReservation

\* Interleaved with waiting, rollback and the worker's lock-free update, the statements
\* amount to the one-step transactions of StockReservation.
ImplementsLedger == Ledger!StockSpec

\* What the committed reservation rows keep of p.
CommittedRows(p) ==
    [o \in Orders |->
        IF reservation[o] \in {"RESERVED", "COMMITTED"} THEN items[o][p] ELSE 0]

\* The units add up in the committed tables, where a COMMITTED row may still be
\* overwritten by RELEASED.
CommittedUnitsConserved ==
    \A p \in Products :
        product[p] = "live" => stock[p] + SumFunction(CommittedRows(p)) = supplied[p]
============================================================================
