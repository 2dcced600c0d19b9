------------------------------ MODULE MCStock ------------------------------
(* A small shop: two products, three orders, baskets that compete. *)
EXTENDS StockReservation, TLC
CONSTANTS o1, o2, o3, p1, p2

MCBaskets == {p1 :> 1 @@ p2 :> 0, p1 :> 2 @@ p2 :> 1}
=============================================================================
