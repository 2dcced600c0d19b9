----------------------------- MODULE MCDelivery -----------------------------
(* Two replicas relay two events, in one batch or in two, to one consumer. *)
EXTENDS EventDelivery
=============================================================================
