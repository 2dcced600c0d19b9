--------------------------- MODULE MCRequestPath ---------------------------
(* Two requests, a customer's and an administrator's, share the breakers.      *)
EXTENDS RequestPath, TLC
CONSTANTS c1, c2

MCRoutesOf == (c1 :> {"createOrder", "order"}) @@ (c2 :> {"createOrder", "createProduct"})
MCRoleOf == (c1 :> "USER") @@ (c2 :> "ADMIN")
MCLineItems == (c1 :> 2) @@ (c2 :> 1)
MCCatalogThrows ==
    [GetProduct |-> {Domain("NOT_FOUND")},
     ReserveStock |-> {Domain("INSUFFICIENT_STOCK")},
     ReleaseStock |-> {Prisma("P1001")}]
MCOrderThrows == {Prisma("P1017")}
MCOtherThrows == {Domain("FORBIDDEN"), Prisma("P2002"), Plain("BUG")}
===========================================================================
