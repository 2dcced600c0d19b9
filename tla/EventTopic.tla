----------------------------- MODULE EventTopic ----------------------------
(***************************************************************************)
(* What the outbox relay and the consumer of a topic share: the messages   *)
(* of one partition, and the budgets that bound faults and restarts.       *)
(***************************************************************************)
EXTENDS Naturals, Sequences

CONSTANTS
    Events,         \* outbox rows that may be written, in the order of createdAt, id
    MaxIncidents    \* faults, stops and replays together (bounds the model)

ASSUME EventsAssumption == Events \subseteq Nat
ASSUME BudgetAssumption == MaxIncidents \in Nat

VARIABLES
    log,            \* the partition; a message is the event it carries
    faults,         \* crashes, timeouts and lost acknowledgements so far
    stops,          \* graceful shutdowns
    replays         \* runs of the replay tool, which publishes again on purpose

topicVars == <<log, faults, stops, replays>>

TopicTypeOK ==
    /\ log \in Seq(Events)
    /\ {faults, stops, replays} \subseteq Nat

TopicInit == log = <<>> /\ faults = 0 /\ stops = 0 /\ replays = 0

Published(e) == \E p \in DOMAIN log : log[p] = e

\* The broker appends the message of e.
StoreMessage(e) == log' = Append(log, e)

\* One more incident is within the bound.
Incident == faults + stops + replays < MaxIncidents

Fault == Incident /\ faults' = faults + 1
=============================================================================
