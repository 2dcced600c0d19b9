--------------------------- MODULE EventTransport --------------------------
(***************************************************************************)
(* What OrderSaga takes for granted of outboxes, topics and consumers, and *)
(* all it takes for granted: a transaction writes rows, only rows that are *)
(* committed reach the topic, and only what is on the topic is consumed.   *)
(* Nothing need happen; any row may be late, repeated or lost.             *)
(***************************************************************************)
CONSTANT Events
VARIABLES
    written,        \* events with a committed outbox row, now or once
    published,      \* events on their topic
    consumed        \* events a handler has completed

transportVars == <<written, published, consumed>>

TransportInit == written = {} /\ published = {} /\ consumed = {}

\* A transaction of a service: it writes rows, and may be the handler of an event.
Transact(rows, handles) ==
    /\ handles \subseteq published
    /\ written' = written \cup rows
    /\ consumed' = consumed \cup handles
    /\ UNCHANGED published

Publish(e) ==
    /\ e \in written
    /\ published' = published \cup {e}
    /\ UNCHANGED <<written, consumed>>

TransportNext ==
    \/ \E rows, handles \in SUBSET Events : Transact(rows, handles)
    \/ \E e \in Events : Publish(e)

TransportSpec == TransportInit /\ [][TransportNext]_transportVars
=============================================================================
