---------------------------- MODULE MCOrderSaga ----------------------------
(* One order over one product.  In the keyed instances the attempts share an *)
(* idempotency key and one of them may ask for another quantity; the unkeyed *)
(* one has a single attempt.                                                 *)
EXTENDS OrderSaga, TLC
CONSTANTS o1, p1, a1, a2, a3, admin, customer

MCBaskets == {p1 :> 1, p1 :> 2}
MCOrderOf == [a \in Attempts |-> o1]
MCItemsOf == [a \in Attempts |-> IF a = a2 THEN p1 :> 2 ELSE p1 :> 1]
MCSameItems == [a \in Attempts |-> p1 :> 1]
MCRoleOf == [u \in Updaters |-> IF u = customer THEN "USER" ELSE "ADMIN"]
============================================================================
