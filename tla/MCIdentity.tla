---------------------------- MODULE MCIdentity -----------------------------
(* One account; its pairs and the requests are interchangeable.              *)
EXTENDS IdentityTokens, TLC
CONSTANTS u1

MCCustomer == [u \in Users |-> "USER"]
MCSymmetry == Permutations(Requests) \cup Permutations(Tokens)
===========================================================================
