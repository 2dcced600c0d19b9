--------------------------- MODULE MCOrderService --------------------------
(* One idempotency key: two attempts that ask for different items.  Two      *)
(* administrators and a customer update, and two workers reconcile.          *)
EXTENDS OrderService, TLC
CONSTANTS o1, p1, a1, a2, admin, admin2, customer

MCBaskets == {p1 :> 1, p1 :> 2}
MCOrderOf == [a \in Attempts |-> o1]
MCItemsOf == a1 :> (p1 :> 1) @@ a2 :> (p1 :> 2)
MCRoleOf == [u \in Updaters |-> IF u = customer THEN "USER" ELSE "ADMIN"]
===========================================================================
