----------------------------- MODULE MCStockTx -----------------------------
(* Two orders whose baskets overlap on two products. *)
EXTENDS StockTx, TLC
CONSTANTS o1, o2

MCBaskets == {1 :> 1 @@ 2 :> 1, 1 :> 0 @@ 2 :> 2}
=============================================================================
