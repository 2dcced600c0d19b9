--------------------------- MODULE EventConsumer ---------------------------
(***************************************************************************)
(* The consumer harness of messaging-kit on one partition: decode, handle  *)
(* with three attempts, dead-letter what cannot be handled, advance the    *)
(* offset; and the operator's tool that replays the dead letters.          *)
(* A message is the place it has in the partition.                         *)
(***************************************************************************)
EXTENDS EventTopic

CONSTANTS
    MaxAttempts,    \* of the handler, 3
    LateLetters     \* letters the replay tool copies before it notices that it is done (bound)

ASSUME ConsumerAssumption == MaxAttempts \in Nat \ {0} /\ LateLetters \in Nat

VARIABLES
    cpc,            \* where the consumer is
    pos,            \* messages it has finished since it connected
    committed,      \* the offset the group has committed
    attempt,
    handled,        \* messages whose handler completed
    dlq,            \* messages of the dead-letter topic
    replay          \* the tool: letters to replay and replayed, running or not

consumerVars == <<cpc, pos, committed, attempt, handled, dlq>>

ConsumerTypeOK ==
    /\ cpc \in {"offline", "poll", "handle", "dlq"}
    /\ pos \in 0..Len(log) /\ committed \in 0..Len(log)
    /\ attempt \in 1..MaxAttempts
    /\ handled \subseteq 1..Len(log)
    /\ dlq \in Seq(1..Len(log))
    /\ replay \in [on : BOOLEAN, total : Nat, read : Nat]

ConsumerInit ==
    /\ cpc = "offline" /\ pos = 0 /\ committed = 0 /\ attempt = 1
    /\ handled = {} /\ dlq = <<>>
    /\ replay = [on |-> FALSE, total |-> 0, read |-> 0]

---------------------------------------------------------------------------
(* runConsumer *)

\* The group's member starts where the last commit was.
Connect ==
    /\ cpc = "offline"
    /\ cpc' = "poll" /\ pos' = committed /\ attempt' = 1
    /\ UNCHANGED <<committed, handled, dlq, replay, topicVars>>

\* What cannot be decoded goes to the dead letters without an attempt.  A message without a
\* value, which eachMessage ignores, is sent by no relay and no replay.
Receive ==
    /\ cpc = "poll" /\ pos < Len(log)
    /\ cpc' \in {"handle", "dlq"}
    /\ attempt' = 1
    /\ UNCHANGED <<pos, committed, handled, dlq, replay, topicVars>>

Handle ==
    /\ cpc = "handle"
    /\ handled' = handled \cup {pos + 1}
    /\ cpc' = "poll" /\ pos' = pos + 1
    /\ UNCHANGED <<committed, attempt, dlq, replay, topicVars>>

(* Operators named Mutant... are wrong on purpose: see StockReservation.               *)

\* One attempt too many.
MutantHandleFails ==
    /\ cpc = "handle"
    /\ \/ attempt <= MaxAttempts /\ attempt' = attempt + 1 /\ UNCHANGED cpc
       \/ cpc' = "dlq" /\ UNCHANGED attempt
    /\ UNCHANGED <<pos, committed, handled, dlq, replay, topicVars>>

\* The handler throws; what isRetryable refuses is not tried again.
HandleFails ==
    /\ cpc = "handle"
    /\ \/ attempt < MaxAttempts /\ attempt' = attempt + 1 /\ UNCHANGED cpc
       \/ cpc' = "dlq" /\ UNCHANGED attempt
    /\ UNCHANGED <<pos, committed, handled, dlq, replay, topicVars>>

SendDlq ==
    /\ cpc = "dlq"
    /\ dlq' = Append(dlq, pos + 1)
    /\ cpc' = "poll" /\ pos' = pos + 1
    /\ UNCHANGED <<committed, attempt, handled, replay, topicVars>>

\* The failure is logged, and the next message is taken.
MutantSendDlqFails ==
    /\ cpc = "dlq" /\ Fault
    /\ UNCHANGED dlq
    /\ cpc' = "poll" /\ pos' = pos + 1
    /\ UNCHANGED <<committed, attempt, handled, replay, log, stops, replays>>

\* sendDlq rejects, with or without the letter stored: eachMessage throws, the offset
\* stays and the consumer restarts from the last commit.
SendDlqFails ==
    /\ cpc = "dlq" /\ Fault
    /\ dlq' \in {dlq, Append(dlq, pos + 1)}
    /\ cpc' = "offline"
    /\ UNCHANGED <<pos, committed, attempt, handled, replay, log, stops, replays>>

CommitOffset ==
    /\ cpc # "offline" /\ committed < pos
    /\ committed' = pos
    /\ UNCHANGED <<cpc, pos, attempt, handled, dlq, replay, topicVars>>

\* consumer.disconnect(): the message in hand is finished, its offset committed.
Disconnect ==
    /\ cpc = "poll" /\ Incident
    /\ stops' = stops + 1
    /\ cpc' = "offline" /\ committed' = pos
    /\ UNCHANGED <<pos, attempt, handled, dlq, replay, log, faults, replays>>

ConsumerCrash ==
    /\ cpc # "offline" /\ Fault
    /\ cpc' = "offline"
    /\ UNCHANGED <<pos, committed, attempt, handled, dlq, replay, log, stops, replays>>

---------------------------------------------------------------------------
(* tools/replay-dlq.mjs *)

\* A group of its own: every run reads the dead letters from the first one.
ReplayStart ==
    /\ ~replay.on /\ dlq # <<>> /\ Incident
    /\ replay' = [on |-> TRUE, total |-> Len(dlq), read |-> 0]
    /\ replays' = replays + 1
    /\ UNCHANGED <<consumerVars, log, faults, stops>>

\* The count ends the tool only after the callback, and letters it caused may have come since.
ReplayLetter ==
    /\ replay.on /\ replay.read < Len(dlq)
    /\ replay.read < replay.total + LateLetters
    /\ StoreMessage(log[dlq[replay.read + 1]])
    /\ replay' = [on |-> TRUE, total |-> replay.total, read |-> replay.read + 1]
    /\ UNCHANGED <<consumerVars, faults, stops, replays>>

\* All letters counted, or none for three seconds, or the operator stops it.
ReplayExit ==
    /\ replay.on
    /\ replay' = [on |-> FALSE, total |-> 0, read |-> 0]
    /\ UNCHANGED <<consumerVars, topicVars>>

---------------------------------------------------------------------------

ConsumerStep == Connect \/ Receive \/ Handle \/ HandleFails \/ SendDlq

ConsumerNext ==
    \/ ConsumerStep
    \/ SendDlqFails \/ CommitOffset \/ Disconnect \/ ConsumerCrash
    \/ ReplayStart \/ ReplayLetter \/ ReplayExit

---------------------------------------------------------------------------
(* Properties *)

Settled(p) == p \in handled \/ \E i \in DOMAIN dlq : dlq[i] = p

\* "Failure to publish the DLQ must reject so Kafka does not commit the original offset":
\* every message behind the committed offset was handled or is a dead letter, whatever
\* the handler, the dead-letter topic or the process did meanwhile.
NothingSkipped == \A p \in 1..committed : Settled(p)
=============================================================================
