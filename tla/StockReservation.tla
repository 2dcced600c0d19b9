------------------------- MODULE StockReservation -------------------------
(***************************************************************************)
(* The stock ledger of catalog-service: products with a stock counter, one *)
(* reservation row per order, and the transactions that move units between *)
(* them.  Every transaction is one step here; StockTx shows that the       *)
(* statement-by-statement transactions implement these steps.              *)
(***************************************************************************)
EXTENDS OrderContract, FiniteSetsExt

CONSTANT
    StockLevels     \* stock values an administrator writes

ASSUME OrdersAssumption == IsFiniteSet(Orders)
ASSUME StockLevelsAssumption == StockLevels \subseteq Nat

VARIABLES
    product,        \* whether the Product row exists
    stock,          \* Product.stock
    reservation,    \* StockReservation.status, or NONE while there is no row
    items,          \* StockReservation.items
    stockReleased,  \* orders with a StockReleased row in the catalog's outbox
    supplied        \* history: units ever put on sale, net of admin writes

stockVars == <<product, stock, reservation, items, stockReleased, supplied>>

ProductRow == {"unborn", "live", "deleted"}
ReservationStatus == {"NONE", "RESERVED", "RELEASED", "COMMITTED"}

StockTypeOK ==
    /\ product \in [Products -> ProductRow]
    /\ stock \in [Products -> Nat]
    /\ reservation \in [Orders -> ReservationStatus]
    /\ items \in [Orders -> [Products -> Nat]]
    /\ stockReleased \subseteq Orders
    /\ supplied \in [Products -> Int]

StockInit ==
    /\ product \in [Products -> {"unborn", "live"}]
    /\ stock \in [Products -> StockLevels]
    /\ \A p \in Products : product[p] = "unborn" => stock[p] = 0
    /\ reservation = [o \in Orders |-> "NONE"]
    /\ items = [o \in Orders |-> NoItems]
    /\ stockReleased = {}
    /\ supplied = stock

---------------------------------------------------------------------------
(* Operators named Mutant... are wrong on purpose: each is a bug this code could have *)
(* had, and replaces the definition below it to see that a property notices.          *)

MutantCanDecrement(p, quantity) == product[p] = "live"

\* The UPDATE ... WHERE stock >= quantity of decrementProductStockTx finds a row.
CanDecrement(p, quantity) == product[p] = "live" /\ stock[p] >= quantity

\* No lookup of an existing reservation.
MutantReserveOutcome(o, b) ==
    IF \A p \in Products : b[p] > 0 => CanDecrement(p, b[p]) THEN "reserved" ELSE "unavailable"

\* No comparison of the items.
MutantReserveOutcomeAnyItems(o, b) ==
    IF reservation[o] = "RELEASED" THEN "expired"
    ELSE IF reservation[o] # "NONE" THEN "existing"
    ELSE IF \A p \in Products : b[p] > 0 => CanDecrement(p, b[p])
         THEN "reserved" ELSE "unavailable"

\* What reserveStock answers: it creates the row, returns the existing one, or throws.
ReserveOutcome(o, b) ==
    IF reservation[o] # "NONE"
    THEN IF items[o] # b THEN "conflict"
         ELSE IF reservation[o] = "RELEASED" THEN "expired" ELSE "existing"
    ELSE IF \A p \in Products : b[p] > 0 => CanDecrement(p, b[p])
         THEN "reserved" ELSE "unavailable"

\* One failing decrement rolls the whole transaction back.
ReserveStock(o, b) ==
    IF ReserveOutcome(o, b) = "reserved"
    THEN /\ stock' = [p \in Products |-> stock[p] - b[p]]
         /\ reservation' = [reservation EXCEPT ![o] = "RESERVED"]
         /\ items' = [items EXCEPT ![o] = b]
         /\ UNCHANGED <<product, stockReleased, supplied>>
    ELSE UNCHANGED stockVars

MutantReleasable(o) ==
    /\ reservation[o] # "NONE"
    /\ \A p \in Products : items[o][p] > 0 => product[p] = "live"

\* Putting units back on a deleted product throws, which rolls the release back.
Releasable(o) ==
    /\ reservation[o] = "RESERVED"
    /\ \A p \in Products : items[o][p] > 0 => product[p] = "live"

\* Announces a release although there was nothing to release.
MutantReleaseStock(o) ==
    /\ stockReleased' = stockReleased \cup {o}
    /\ IF Releasable(o)
       THEN /\ stock' = [p \in Products |-> stock[p] + items[o][p]]
            /\ reservation' = [reservation EXCEPT ![o] = "RELEASED"]
            /\ UNCHANGED <<product, items, supplied>>
       ELSE UNCHANGED <<product, stock, reservation, items, supplied>>

ReleaseStock(o) ==
    IF Releasable(o)
    THEN /\ stock' = [p \in Products |-> stock[p] + items[o][p]]
         /\ reservation' = [reservation EXCEPT ![o] = "RELEASED"]
         /\ stockReleased' = stockReleased \cup {o}
         /\ UNCHANGED <<product, items, supplied>>
    ELSE UNCHANGED stockVars

MutantCommitReservation(o) ==
    IF reservation[o] # "NONE"
    THEN /\ reservation' = [reservation EXCEPT ![o] = "COMMITTED"]
         /\ UNCHANGED <<product, stock, items, stockReleased, supplied>>
    ELSE UNCHANGED stockVars

\* The worker's updateMany for a reservation the order service calls paid.
CommitReservation(o) ==
    IF reservation[o] = "RESERVED"
    THEN /\ reservation' = [reservation EXCEPT ![o] = "COMMITTED"]
         /\ UNCHANGED <<product, stock, items, stockReleased, supplied>>
    ELSE UNCHANGED stockVars

CreateProduct(p, n) ==
    /\ product[p] = "unborn"
    /\ product' = [product EXCEPT ![p] = "live"]
    /\ stock' = [stock EXCEPT ![p] = n]
    /\ supplied' = [supplied EXCEPT ![p] = n]
    /\ UNCHANGED <<reservation, items, stockReleased>>

\* An absolute write: whatever was sold since the administrator looked is overwritten.
UpdateProduct(p, n) ==
    /\ product[p] = "live"
    /\ stock' = [stock EXCEPT ![p] = n]
    /\ supplied' = [supplied EXCEPT ![p] = @ + (n - stock[p])]
    /\ UNCHANGED <<product, reservation, items, stockReleased>>

DeleteProduct(p) ==
    /\ product[p] = "live"
    /\ product' = [product EXCEPT ![p] = "deleted"]
    /\ UNCHANGED <<stock, reservation, items, stockReleased, supplied>>

AdminStep ==
    \E p \in Products :
        \/ DeleteProduct(p)
        \/ \E n \in StockLevels : CreateProduct(p, n) \/ UpdateProduct(p, n)

StockNext ==
    \/ \E o \in Orders, b \in Baskets : ReserveStock(o, b)
    \/ \E o \in Orders : ReleaseStock(o) \/ CommitReservation(o)
    \/ AdminStep

StockSpec == StockInit /\ [][StockNext]_stockVars

---------------------------------------------------------------------------
\* Units of p that order o keeps off the shelf.
Held(o, p) ==
    IF reservation[o] \in {"RESERVED", "COMMITTED"} THEN items[o][p] ELSE 0

HeldBy(p) == [o \in Orders |-> Held(o, p)]

\* No unit is lost or sold twice: what is on the shelf and what the reservations
\* hold always add up to what was supplied, whatever mix of reservations, repeated
\* releases, commits and administrator writes came before (stockService.ts).
UnitsConserved ==
    \A p \in Products : product[p] = "live" => stock[p] + SumFunction(HeldBy(p)) = supplied[p]

\* A settled reservation never changes again: a release cannot follow a commit or
\* another release, and no late reserve or worker update revives the row or
\* changes the items its release would put back.
SettledIsFinal ==
    [][\A o \in Orders :
          /\ reservation[o] # "NONE" => items'[o] = items[o]
          /\ reservation[o] \in {"RELEASED", "COMMITTED"} =>
                reservation'[o] = reservation[o]]_stockVars

\* Units move only together with one reservation: a step that is not an
\* administrator's write changes the shelf by exactly what one order's
\* reservation gains or gives up, and touches no other order's row.
UnitsMoveWithOneReservation ==
    [][\/ AdminStep
       \/ \E o \in Orders :
            /\ \A other \in Orders \ {o} :
                  reservation'[other] = reservation[other] /\ items'[other] = items[other]
            /\ \A p \in Products :
                  stock'[p] + Held(o, p)' = stock[p] + Held(o, p)]_stockVars

\* The catalog announces a release (StockReleased in its outbox) exactly for the
\* orders whose units went back: never for a release that found nothing to do.
ReleaseAnnouncedExactly ==
    \A o \in Orders : o \in stockReleased <=> reservation[o] = "RELEASED"
===========================================================================
