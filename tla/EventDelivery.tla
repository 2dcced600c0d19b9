--------------------------- MODULE EventDelivery ---------------------------
(***************************************************************************)
(* A topic from end to end: the relays of the service that writes the      *)
(* outbox, the consumer of the other service, and the replay tool.         *)
(***************************************************************************)
EXTENDS OutboxRelay, EventConsumer

deliveryVars == <<relayVars, consumerVars, replay, topicVars>>

DeliveryTypeOK == TopicTypeOK /\ RelayTypeOK /\ ConsumerTypeOK

DeliveryInit == TopicInit /\ RelayInit /\ ConsumerInit

DeliveryNext ==
    \/ RelayNext /\ UNCHANGED <<consumerVars, replay>>
    \/ ConsumerNext /\ UNCHANGED relayVars

\* Replicas and the consumer go on and come back; a backoff ends.  Nothing makes the
\* broker answer, and nobody has to run the replay tool.
DeliveryFairness ==
    /\ \A w \in Relays : WF_deliveryVars(RelayStep(w) /\ UNCHANGED <<consumerVars, replay>>)
    /\ \A e \in Events : WF_deliveryVars(BackoffPasses(e) /\ UNCHANGED <<consumerVars, replay>>)
    /\ WF_deliveryVars(ConsumerStep /\ UNCHANGED relayVars)

DeliverySpec == DeliveryInit /\ [][DeliveryNext]_deliveryVars
FairDeliverySpec == DeliverySpec /\ DeliveryFairness

---------------------------------------------------------------------------

Owed(e) ==
    IF row[e] = "NONE" THEN "none"
    ELSE IF row[e] = "FAILED" \/ \E p \in DOMAIN log : log[p] = e /\ Settled(p)
         THEN "settled" ELSE "owed"

owedBar == [e \in Events |-> Owed(e)]

Promise == INSTANCE AtLeastOnce WITH owed <- owedBar

\* "Guarantees at-least-once delivery": every event written to the outbox is eventually
\* handled or dead-lettered, or its row is FAILED, and stays so, with relays, consumer and
\* replays interleaved and whatever failed on the way.
ImplementsAtLeastOnce == Promise!AtLeastOnceSpec

WrittenEvents == {e \in Events : row[e] # "NONE"}
PublishedEvents == {e \in Events : Published(e)}
ConsumedEvents == {log[p] : p \in handled}

Transport ==
    INSTANCE EventTransport
    WITH written <- WrittenEvents, published <- PublishedEvents, consumed <- ConsumedEvents

\* The outbox pattern: no event is on the topic whose transaction did not commit, and none
\* is handled that is not on the topic, also by relays that lost their transaction, by
\* replays and by consumers that start again.  OrderSaga knows no more of its events.
ImplementsTransport == Transport!TransportSpec
=============================================================================
