---------------------------- MODULE OutboxRelay ----------------------------
(***************************************************************************)
(* The outbox relay of messaging-kit as the order and catalog services run *)
(* it: every replica ticks, claims a batch with FOR UPDATE SKIP LOCKED,    *)
(* publishes the rows one by one inside the transaction and commits their  *)
(* new status.  A publication may fail, or succeed without an answer; the  *)
(* transaction may time out while its callback goes on; a replica may      *)
(* crash anywhere or be stopped gracefully.                                *)
(***************************************************************************)
EXTENDS EventTopic, FiniteSets

CONSTANTS
    Relays,         \* replicas of the service
    BatchSize,
    MaxRetries

ASSUME RelayAssumption == BatchSize \in Nat \ {0} /\ MaxRetries \in Nat \ {0}

VARIABLES
    row,            \* OutboxEvent.status, NONE before the insert, DELETED afterwards
    retries,        \* OutboxEvent.retryCount
    due,            \* nextAttemptAt <= NOW()
    life,           \* a replica is down, up, or stopping (running = false)
    tx,             \* its transaction: none, open, or lost to the 30 s timeout
    todo, sent, failed      \* its batch: rows left, published, not published

relayVars == <<row, retries, due, life, tx, todo, sent, failed>>
batchVars == <<tx, todo, sent, failed>>

Statuses == {"NONE", "PENDING", "PUBLISHED", "FAILED", "DELETED"}

RelayTypeOK ==
    /\ row \in [Events -> Statuses]
    /\ retries \in [Events -> Nat]
    /\ due \in [Events -> BOOLEAN]
    /\ life \in [Relays -> {"down", "up", "stopping"}]
    /\ tx \in [Relays -> {"none", "open", "lost"}]
    /\ todo \in [Relays -> SUBSET Events]
    /\ sent \in [Relays -> SUBSET Events]
    /\ failed \in [Relays -> SUBSET Events]

RelayInit ==
    /\ row = [e \in Events |-> "NONE"]
    /\ retries = [e \in Events |-> 0]
    /\ due = [e \in Events |-> TRUE]
    /\ life = [w \in Relays |-> "down"]
    /\ tx = [w \in Relays |-> "none"]
    /\ todo = [w \in Relays |-> {}]
    /\ sent = [w \in Relays |-> {}]
    /\ failed = [w \in Relays |-> {}]

---------------------------------------------------------------------------
(* The business transaction that writes the row *)

(* Operators named Mutant... are wrong on purpose: see StockReservation.               *)

\* The event is sent at once, and the transaction rolls back.
MutantInsert(e) ==
    /\ row[e] = "NONE"
    /\ StoreMessage(e)
    /\ UNCHANGED <<relayVars, faults, stops, replays>>

Insert(e) ==
    /\ row[e] = "NONE"
    /\ row' = [row EXCEPT ![e] = "PENDING"]
    /\ UNCHANGED <<retries, due, life, batchVars, topicVars>>

---------------------------------------------------------------------------
(* One tick: processOnce and maintain *)

Batch(w) == todo[w] \cup sent[w] \cup failed[w]

\* FOR UPDATE: the rows of an open transaction, until it ends.
Locked(e) == \E w \in Relays : tx[w] = "open" /\ e \in Batch(w)

\* FOR UPDATE forgotten: rows of an open transaction are claimed again.
MutantClaimable == {e \in Events : row[e] = "PENDING" /\ due[e]}

\* status <> 'PUBLISHED': a row that was given up is tried again.
MutantRetryFailed ==
    {e \in Events : row[e] \in {"PENDING", "FAILED"} /\ ~Locked(e)}

Claimable == {e \in Events : row[e] = "PENDING" /\ due[e] /\ ~Locked(e)}

\* ORDER BY createdAt, id LIMIT batchSize
NextBatch == {e \in Claimable : Cardinality({d \in Claimable : d < e}) < BatchSize}

Claim(w) ==
    /\ life[w] = "up" /\ tx[w] = "none"
    /\ NextBatch # {}
    /\ tx' = [tx EXCEPT ![w] = "open"]
    /\ todo' = [todo EXCEPT ![w] = NextBatch]
    /\ UNCHANGED <<row, retries, due, life, sent, failed, topicVars>>

\* The rows are published one after the other.
IsNext(w, e) == e \in todo[w] /\ \A d \in todo[w] : e <= d

Publish(w, e) ==
    /\ tx[w] = "open" /\ IsNext(w, e)
    /\ StoreMessage(e)
    /\ todo' = [todo EXCEPT ![w] = @ \ {e}]
    /\ sent' = [sent EXCEPT ![w] = @ \cup {e}]
    /\ UNCHANGED <<row, retries, due, life, tx, failed, faults, stops, replays>>

NotPublished(w, e) ==
    /\ tx[w] = "open" /\ IsNext(w, e)
    /\ todo' = [todo EXCEPT ![w] = @ \ {e}]
    /\ failed' = [failed EXCEPT ![w] = @ \cup {e}]
    /\ UNCHANGED <<row, retries, due, life, tx, sent, stops, replays>>

\* The producer is not connected, the broker refuses, or the schema rejects the row (a
\* quantity above 1000, every time).
PublishFails(w, e) == NotPublished(w, e) /\ UNCHANGED <<log, faults>>

\* The broker has the message, and the send rejects all the same.
PublishUnacked(w, e) == NotPublished(w, e) /\ StoreMessage(e) /\ Fault

FailedStatus(e) == IF retries[e] + 1 >= MaxRetries THEN "FAILED" ELSE "PENDING"

\* The whole batch is marked, the rows that failed included.
MutantCommitted(w) ==
    [e \in Events |-> IF e \in Batch(w) THEN "PUBLISHED" ELSE row[e]]

Committed(w) ==
    [e \in Events |-> IF e \in sent[w] THEN "PUBLISHED"
                      ELSE IF e \in failed[w] THEN FailedStatus(e)
                      ELSE row[e]]

EndTx(w) ==
    /\ tx' = [tx EXCEPT ![w] = "none"]
    /\ todo' = [todo EXCEPT ![w] = {}]
    /\ sent' = [sent EXCEPT ![w] = {}]
    /\ failed' = [failed EXCEPT ![w] = {}]

Commit(w) ==
    /\ tx[w] = "open" /\ todo[w] = {}
    /\ row' = Committed(w)
    /\ retries' = [e \in Events |->
                      IF e \in failed[w] THEN retries[e] + 1 ELSE retries[e]]
    /\ due' = [e \in Events |-> due[e] /\ e \notin failed[w]]
    /\ EndTx(w)
    /\ UNCHANGED <<life, topicVars>>

\* Prisma rolls back after 30 s, or the commit fails: the rows are free again.
TxTimeout(w) ==
    /\ tx[w] = "open"
    /\ Fault
    /\ tx' = [tx EXCEPT ![w] = "lost"]
    /\ UNCHANGED <<row, retries, due, life, todo, sent, failed, log, stops, replays>>

\* The callback goes on until its next statement: one publication may still complete.
LateStep(w) ==
    /\ tx[w] = "lost"
    /\ \/ UNCHANGED log
       \/ \E e \in Events : IsNext(w, e) /\ StoreMessage(e)
    /\ EndTx(w)
    /\ UNCHANGED <<row, retries, due, life, faults, stops, replays>>

BackoffPasses(e) ==
    /\ row[e] = "PENDING" /\ ~due[e]
    /\ due' = [due EXCEPT ![e] = TRUE]
    /\ UNCHANGED <<row, retries, life, batchVars, topicVars>>

\* Published rows go after seven days.
Maintain(w) ==
    /\ life[w] = "up" /\ tx[w] = "none"
    /\ \E old \in SUBSET {e \in Events : row[e] = "PUBLISHED"} :
          /\ old # {}
          /\ row' = [e \in Events |-> IF e \in old THEN "DELETED" ELSE row[e]]
    /\ UNCHANGED <<retries, due, life, batchVars, topicVars>>

---------------------------------------------------------------------------
(* start, stop, and the ends of a process *)

Start(w) ==
    /\ life[w] = "down"
    /\ life' = [life EXCEPT ![w] = "up"]
    /\ UNCHANGED <<row, retries, due, batchVars, topicVars>>

Stop(w) ==
    /\ life[w] = "up" /\ Incident
    /\ stops' = stops + 1
    /\ life' = [life EXCEPT ![w] = "stopping"]
    /\ UNCHANGED <<row, retries, due, batchVars, log, faults, replays>>

\* stop() does not await the tick in flight, and the process exits under it.
MutantExit(w) ==
    /\ life[w] = "stopping"
    /\ life' = [life EXCEPT ![w] = "down"]
    /\ EndTx(w)
    /\ UNCHANGED <<row, retries, due, topicVars>>

Exit(w) ==
    /\ life[w] = "stopping" /\ tx[w] = "none"
    /\ life' = [life EXCEPT ![w] = "down"]
    /\ UNCHANGED <<row, retries, due, batchVars, topicVars>>

\* Also the forced exit, ten seconds after the signal.
Crash(w) ==
    /\ life[w] # "down"
    /\ Fault
    /\ life' = [life EXCEPT ![w] = "down"]
    /\ EndTx(w)
    /\ UNCHANGED <<row, retries, due, log, stops, replays>>

---------------------------------------------------------------------------

\* What a replica does by itself, once its process is scheduled.
RelayStep(w) ==
    \/ Claim(w) \/ Commit(w) \/ LateStep(w) \/ Start(w) \/ Exit(w)
    \/ \E e \in Events : Publish(w, e) \/ PublishFails(w, e)

RelayNext ==
    \/ \E e \in Events : Insert(e) \/ BackoffPasses(e)
    \/ \E w \in Relays : RelayStep(w)
    \/ \E w \in Relays : \/ \E e \in Events : PublishUnacked(w, e)
                         \/ TxTimeout(w) \/ Crash(w) \/ Maintain(w) \/ Stop(w)

---------------------------------------------------------------------------
(* Properties *)

\* A row is marked PUBLISHED, and deleted later, only when its message is in the topic:
\* whatever crashes, times out or is answered twice, no event is dropped as published.
MarkedRowsWerePublished ==
    \A e \in Events : row[e] \in {"PUBLISHED", "DELETED"} => Published(e)

\* Without a fault or a replay no event is published twice, however many replicas relay and however
\* often they are restarted: SKIP LOCKED keeps them apart, and stop() awaits the tick.
PublishedOnceWithoutFaults ==
    faults = 0 /\ replays = 0 => \A p, q \in DOMAIN log : log[p] = log[q] => p = q
=============================================================================
