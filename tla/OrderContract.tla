--------------------------- MODULE OrderContract ---------------------------
(***************************************************************************)
(* What order-service and catalog-service share: order ids and item lists. *)
(***************************************************************************)
EXTENDS Integers

CONSTANTS
    Orders,         \* order ids, the key of an order and of its reservation
    Products,       \* product ids
    Baskets         \* item lists in canonical form: a quantity for each product

\* Both services merge repeated products and reject an empty list or a quantity
\* below one, so an accepted list asks for at least one unit of some product.
ASSUME BasketsAssumption ==
    \A b \in Baskets : b \in [Products -> Nat] /\ \E p \in Products : b[p] > 0

NoItems == [p \in Products |-> 0]
============================================================================
