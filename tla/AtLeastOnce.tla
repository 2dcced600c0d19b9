---------------------------- MODULE AtLeastOnce ----------------------------
(***************************************************************************)
(* What the outbox, the relay and the consumer promise together: an event  *)
(* once written is owed to its consumer until it is settled: handled, or   *)
(* kept where an operator finds it.  Nothing settled becomes owed again.   *)
(***************************************************************************)
CONSTANT Events
VARIABLE owed       \* none, owed or settled

OwedInit == owed = [e \in Events |-> "none"]

\* A transaction may write or settle several events.
Accept(S) ==
    /\ \A e \in S : owed[e] = "none"
    /\ owed' = [e \in Events |-> IF e \in S THEN "owed" ELSE owed[e]]

Settle(S) ==
    /\ \A e \in S : owed[e] = "owed"
    /\ owed' = [e \in Events |-> IF e \in S THEN "settled" ELSE owed[e]]

OwedNext == \E S \in SUBSET Events : Accept(S) \/ Settle(S)

AtLeastOnceSpec ==
    /\ OwedInit /\ [][OwedNext]_owed
    /\ \A e \in Events : WF_owed(\E S \in SUBSET Events : e \in S /\ Settle(S))
=============================================================================
