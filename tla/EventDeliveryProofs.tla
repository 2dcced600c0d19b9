------------------------ MODULE EventDeliveryProofs ------------------------
(***************************************************************************)
(* For every set of events and replicas, every batch size, retry bound and *)
(* number of incidents: a row marked published is in the topic, nothing is *)
(* published twice without a fault, and the consumer skips nothing.        *)
(***************************************************************************)
EXTENDS EventDelivery, TLAPS

---------------------------------------------------------------------------
(* The relay *)

\* The rows of a batch are of one transaction only, and PENDING as long as it is open.
BatchesOK ==
    /\ \A w \in Relays : tx[w] = "none" => Batch(w) = {}
    /\ \A w \in Relays : \A e \in Batch(w) : row[e] # "NONE"
    /\ \A w \in Relays : tx[w] = "open" => \A e \in Batch(w) : row[e] = "PENDING"
    /\ \A w \in Relays : \A e \in todo[w] : e \notin sent[w]
    /\ \A w, v \in Relays :
          tx[w] = "open" /\ tx[v] = "open" /\ w # v => Batch(w) \cap Batch(v) = {}

SentArePublished == \A w \in Relays : \A e \in sent[w] : Published(e)

\* Only rows that exist have messages.
MessagesHaveRows == \A p \in DOMAIN log : row[log[p]] # "NONE"

NothingLost ==
    /\ \A w \in Relays : tx[w] # "lost"
    /\ \A w \in Relays : life[w] = "down" => tx[w] = "none"

MessagesMarked ==
    \A p \in DOMAIN log : \/ row[log[p]] \in {"PUBLISHED", "DELETED"}
                          \/ \E w \in Relays : tx[w] = "open" /\ log[p] \in sent[w]

MessagesDiffer == \A p, q \in DOMAIN log : log[p] = log[q] => p = q

\* Without a fault or a replay a message's row is marked, or about to be.
OnceInv == faults = 0 /\ replays = 0 => NothingLost /\ MessagesMarked /\ MessagesDiffer

RelayInv == /\ TopicTypeOK /\ RelayTypeOK /\ BatchesOK /\ SentArePublished
            /\ MarkedRowsWerePublished /\ MessagesHaveRows /\ OnceInv

\* Storing a message keeps the others at their places.
LEMMA AppendedLog ==
    ASSUME log \in Seq(Events), NEW e \in Events, StoreMessage(e)
    PROVE  /\ log' \in Seq(Events)
           /\ Len(log') = Len(log) + 1
           /\ DOMAIN log' = DOMAIN log \cup {Len(log) + 1}
           /\ Len(log) + 1 \notin DOMAIN log
           /\ \A p \in DOMAIN log : log'[p] = log[p]
           /\ log'[Len(log) + 1] = e
           /\ \A d : Published(d) => Published(d)'
           /\ Published(e)'
<1>1. /\ log' \in Seq(Events)
      /\ Len(log') = Len(log) + 1
      /\ DOMAIN log' = DOMAIN log \cup {Len(log) + 1}
      /\ Len(log) + 1 \notin DOMAIN log
      /\ \A p \in DOMAIN log : log'[p] = log[p]
      /\ log'[Len(log) + 1] = e
  BY DEF StoreMessage
<1>2. QED
  BY <1>1 DEF Published

LEMMA RelayInitially == DeliveryInit => RelayInv
BY DEF DeliveryInit, TopicInit, RelayInit, RelayInv, TopicTypeOK, RelayTypeOK, Statuses,
       BatchesOK, Batch, SentArePublished, MarkedRowsWerePublished, MessagesHaveRows, OnceInv,
       NothingLost, MessagesMarked, MessagesDiffer

LEMMA InsertKeeps ==
    ASSUME RelayInv, NEW e \in Events, Insert(e)
    PROVE  RelayInv'
BY DEF RelayInv, TopicTypeOK, RelayTypeOK, Statuses, BatchesOK, Batch, SentArePublished,
       MarkedRowsWerePublished, MessagesHaveRows, OnceInv, NothingLost, MessagesMarked, MessagesDiffer, Published,
       Insert, batchVars, topicVars

LEMMA ClaimKeeps ==
    ASSUME RelayInv, NEW w \in Relays, Claim(w)
    PROVE  RelayInv'
<1>1. /\ NextBatch \subseteq Events
      /\ \A e \in NextBatch : row[e] = "PENDING" /\ ~Locked(e)
  BY DEF NextBatch, Claimable
<1>2. (TopicTypeOK /\ RelayTypeOK)'
  BY <1>1 DEF RelayInv, TopicTypeOK, RelayTypeOK, Claim, topicVars
<1>3. BatchesOK'
  BY <1>1 DEF RelayInv, RelayTypeOK, BatchesOK, Batch, Locked, Claim
<1>4. (SentArePublished /\ MarkedRowsWerePublished /\ MessagesHaveRows)'
  BY DEF RelayInv, SentArePublished, MarkedRowsWerePublished, MessagesHaveRows, Published,
         Claim, topicVars
<1>5. OnceInv'
  BY DEF RelayInv, RelayTypeOK, OnceInv, NothingLost, MessagesMarked, MessagesDiffer, Claim, topicVars
<1>6. QED
  BY <1>2, <1>3, <1>4, <1>5 DEF RelayInv

LEMMA PublishKeeps ==
    ASSUME RelayInv, NEW w \in Relays, NEW e \in Events, Publish(w, e)
    PROVE  RelayInv'
<1>0. log \in Seq(Events) /\ StoreMessage(e) /\ e \in todo[w] /\ tx[w] = "open"
  BY DEF RelayInv, TopicTypeOK, Publish, IsNext
<1>1. /\ log' \in Seq(Events)
      /\ DOMAIN log' = DOMAIN log \cup {Len(log) + 1}
      /\ Len(log) + 1 \notin DOMAIN log
      /\ \A p \in DOMAIN log : log'[p] = log[p]
      /\ log'[Len(log) + 1] = e
      /\ \A d : Published(d) => Published(d)'
      /\ Published(e)'
  BY <1>0, AppendedLog
<1>2. (TopicTypeOK /\ RelayTypeOK)'
  BY <1>1 DEF RelayInv, TopicTypeOK, RelayTypeOK, Publish
<1>3. BatchesOK'
  BY <1>0 DEF RelayInv, RelayTypeOK, BatchesOK, Batch, Publish
<1>4. SentArePublished'
  BY <1>1 DEF RelayInv, RelayTypeOK, SentArePublished, Publish
<1>5. MarkedRowsWerePublished'
  BY <1>1 DEF RelayInv, MarkedRowsWerePublished, Publish
<1>6. MessagesHaveRows'
  BY <1>0, <1>1 DEF RelayInv, BatchesOK, Batch, MessagesHaveRows, Publish
<1>7. OnceInv'
  <2> SUFFICES ASSUME faults = 0, replays = 0
               PROVE  (NothingLost /\ MessagesMarked /\ MessagesDiffer)'
    BY DEF OnceInv, Publish
  <2>1. NothingLost /\ MessagesMarked /\ MessagesDiffer
    BY DEF RelayInv, OnceInv
  <2>2. \A p \in DOMAIN log : log[p] # e
    <3> SUFFICES ASSUME NEW p \in DOMAIN log, log[p] = e
                 PROVE  FALSE
      OBVIOUS
    <3>1. row[e] = "PENDING" /\ e \notin sent[w]
      BY <1>0 DEF RelayInv, BatchesOK, Batch
    <3>2. PICK v \in Relays : tx[v] = "open" /\ e \in sent[v]
      BY <2>1, <3>1 DEF MessagesMarked
    <3>3. v # w
      BY <3>1, <3>2
    <3>4. QED
      BY <1>0, <3>2, <3>3 DEF RelayInv, BatchesOK, Batch
  <2>3. NothingLost'
    BY <2>1 DEF NothingLost, Publish
  <2>4. MessagesMarked'
    BY <1>0, <1>1, <2>1 DEF RelayInv, RelayTypeOK, MessagesMarked, Publish
  <2>5. MessagesDiffer'
    BY <1>1, <2>1, <2>2 DEF MessagesDiffer
  <2>6. QED
    BY <2>3, <2>4, <2>5
<1>8. QED
  BY <1>2, <1>3, <1>4, <1>5, <1>6, <1>7 DEF RelayInv

LEMMA PublishFailsKeeps ==
    ASSUME RelayInv, NEW w \in Relays, NEW e \in Events, PublishFails(w, e)
    PROVE  RelayInv'
<1>1. /\ todo' = [todo EXCEPT ![w] = @ \ {e}]
      /\ failed' = [failed EXCEPT ![w] = @ \cup {e}]
      /\ e \in todo[w]
      /\ UNCHANGED <<row, retries, due, life, tx, sent, topicVars>>
  BY DEF PublishFails, NotPublished, IsNext, topicVars
<1>2. (TopicTypeOK /\ RelayTypeOK)'
  BY <1>1 DEF RelayInv, TopicTypeOK, RelayTypeOK, topicVars
<1>3. BatchesOK'
  BY <1>1 DEF RelayInv, RelayTypeOK, BatchesOK, Batch
<1>4. (SentArePublished /\ MarkedRowsWerePublished /\ MessagesHaveRows)'
  BY <1>1 DEF RelayInv, SentArePublished, MarkedRowsWerePublished, MessagesHaveRows,
             Published, topicVars
<1>5. OnceInv'
  BY <1>1 DEF RelayInv, OnceInv, NothingLost, MessagesMarked, MessagesDiffer, topicVars
<1>6. QED
  BY <1>2, <1>3, <1>4, <1>5 DEF RelayInv

LEMMA PublishUnackedKeeps ==
    ASSUME RelayInv, NEW w \in Relays, NEW e \in Events, PublishUnacked(w, e)
    PROVE  RelayInv'
<1>0. log \in Seq(Events) /\ StoreMessage(e)
  BY DEF RelayInv, TopicTypeOK, PublishUnacked
<1>1. /\ log' \in Seq(Events)
      /\ DOMAIN log' = DOMAIN log \cup {Len(log) + 1}
      /\ \A p \in DOMAIN log : log'[p] = log[p]
      /\ log'[Len(log) + 1] = e
      /\ \A d : Published(d) => Published(d)'
  BY <1>0, AppendedLog
<1>2. /\ todo' = [todo EXCEPT ![w] = @ \ {e}]
      /\ failed' = [failed EXCEPT ![w] = @ \cup {e}]
      /\ e \in todo[w]
      /\ faults' = faults + 1
      /\ UNCHANGED <<row, retries, due, life, tx, sent, stops, replays>>
  BY DEF PublishUnacked, NotPublished, IsNext, Fault
<1>3. (TopicTypeOK /\ RelayTypeOK)'
  BY <1>1, <1>2 DEF RelayInv, TopicTypeOK, RelayTypeOK
<1>4. BatchesOK'
  BY <1>2 DEF RelayInv, RelayTypeOK, BatchesOK, Batch
<1>5. (SentArePublished /\ MarkedRowsWerePublished)'
  BY <1>1, <1>2 DEF RelayInv, SentArePublished, MarkedRowsWerePublished
<1>6. MessagesHaveRows'
  BY <1>1, <1>2 DEF RelayInv, BatchesOK, Batch, MessagesHaveRows
<1>7. OnceInv'
  BY <1>2 DEF RelayInv, TopicTypeOK, OnceInv
<1>8. QED
  BY <1>3, <1>4, <1>5, <1>6, <1>7 DEF RelayInv

LEMMA CommitKeeps ==
    ASSUME RelayInv, NEW w \in Relays, Commit(w)
    PROVE  RelayInv'
<1>0. /\ tx[w] = "open" /\ EndTx(w)
      /\ \A e \in Events : row'[e] = IF e \in sent[w] THEN "PUBLISHED"
                                     ELSE IF e \in failed[w] THEN FailedStatus(e) ELSE row[e]
      /\ \A e \in Events : FailedStatus(e) \in {"FAILED", "PENDING"}
      /\ UNCHANGED <<life, topicVars>>
  BY DEF Commit, Committed, FailedStatus
<1>1. (TopicTypeOK /\ RelayTypeOK)'
  BY DEF RelayInv, TopicTypeOK, RelayTypeOK, Statuses, Commit, Committed, FailedStatus,
         EndTx, topicVars
<1>2. \A e \in Events : e \notin Batch(w) => row'[e] = row[e]
  BY <1>0 DEF Batch
<1>3. \A v \in Relays : v # w => /\ tx'[v] = tx[v] /\ todo'[v] = todo[v]
                                 /\ sent'[v] = sent[v] /\ failed'[v] = failed[v]
  BY <1>0 DEF EndTx, RelayInv, RelayTypeOK
<1>4. /\ tx'[w] = "none" /\ todo'[w] = {} /\ sent'[w] = {} /\ failed'[w] = {}
  BY <1>0 DEF EndTx, RelayInv, RelayTypeOK
<1>5. \A v \in Relays : todo[v] \subseteq Events /\ sent[v] \subseteq Events /\ failed[v] \subseteq Events
  BY DEF RelayInv, RelayTypeOK
<1>6. BatchesOK'
  BY <1>0, <1>2, <1>3, <1>4, <1>5 DEF RelayInv, BatchesOK, Batch
<1>7. SentArePublished'
  BY <1>0, <1>3, <1>4 DEF RelayInv, SentArePublished, Published, topicVars
<1>8. MarkedRowsWerePublished'
  BY <1>0 DEF RelayInv, SentArePublished, MarkedRowsWerePublished, Published, topicVars
<1>9. \A p \in DOMAIN log : log[p] \in Events
  BY DEF RelayInv, TopicTypeOK
<1>10. MessagesHaveRows'
  BY <1>0, <1>9 DEF RelayInv, MessagesHaveRows, topicVars
<1>11. OnceInv'
  <2> SUFFICES ASSUME faults = 0, replays = 0
               PROVE  (NothingLost /\ MessagesMarked /\ MessagesDiffer)'
    BY <1>0 DEF OnceInv, topicVars
  <2>1. NothingLost /\ MessagesMarked /\ MessagesDiffer
    BY DEF RelayInv, OnceInv
  <2>2. (NothingLost /\ MessagesDiffer)'
    BY <1>0, <1>3, <1>4, <2>1 DEF NothingLost, MessagesDiffer, topicVars
  <2>3. ASSUME NEW p \in DOMAIN log
        PROVE  (\/ row[log[p]] \in {"PUBLISHED", "DELETED"}
                \/ \E v \in Relays : tx[v] = "open" /\ log[p] \in sent[v])'
    <3>1. CASE log[p] \in sent[w]
      BY <1>0, <1>9, <3>1 DEF topicVars
    <3>2. CASE row[log[p]] \in {"PUBLISHED", "DELETED"}
      <4>1. log[p] \notin Batch(w)
        BY <1>0, <3>2 DEF RelayInv, BatchesOK
      <4>2. QED
        BY <1>0, <1>2, <1>9, <3>2, <4>1 DEF topicVars
    <3>3. CASE \E v \in Relays \ {w} : tx[v] = "open" /\ log[p] \in sent[v]
      BY <1>0, <1>3, <3>3 DEF topicVars
    <3>4. QED
      BY <2>1, <3>1, <3>2, <3>3 DEF MessagesMarked
  <2>4. MessagesMarked'
    BY <1>0, <2>3 DEF MessagesMarked, topicVars
  <2>5. QED
    BY <2>2, <2>4
<1>12. QED
  BY <1>1, <1>6, <1>7, <1>8, <1>10, <1>11 DEF RelayInv

LEMMA TxTimeoutKeeps ==
    ASSUME RelayInv, NEW w \in Relays, TxTimeout(w)
    PROVE  RelayInv'
BY DEF RelayInv, TopicTypeOK, RelayTypeOK, BatchesOK, Batch, SentArePublished,
       MarkedRowsWerePublished, MessagesHaveRows, OnceInv, Published, TxTimeout, Fault

LEMMA LateStepKeeps ==
    ASSUME RelayInv, NEW w \in Relays, LateStep(w)
    PROVE  RelayInv'
<1>0. /\ tx[w] = "lost" /\ EndTx(w)
      /\ UNCHANGED <<row, retries, due, life, faults, stops, replays>>
  BY DEF LateStep
<1>1. /\ log' \in Seq(Events)
      /\ \A d : Published(d) => Published(d)'
      /\ MessagesHaveRows'
  <2>1. CASE UNCHANGED log
    BY <1>0, <2>1 DEF RelayInv, TopicTypeOK, MessagesHaveRows, Published
  <2>2. CASE \E e \in Events : IsNext(w, e) /\ StoreMessage(e)
    <3>1. PICK e \in Events : e \in todo[w] /\ StoreMessage(e)
      BY <2>2 DEF IsNext
    <3>2. /\ log' \in Seq(Events)
          /\ DOMAIN log' = DOMAIN log \cup {Len(log) + 1}
          /\ \A p \in DOMAIN log : log'[p] = log[p]
          /\ log'[Len(log) + 1] = e
          /\ \A d : Published(d) => Published(d)'
      BY <3>1, AppendedLog DEF RelayInv, TopicTypeOK
    <3>3. QED
      BY <1>0, <3>1, <3>2 DEF RelayInv, BatchesOK, Batch, MessagesHaveRows
  <2>3. QED
    BY <2>1, <2>2 DEF LateStep
<1>2. (TopicTypeOK /\ RelayTypeOK)'
  BY <1>0, <1>1 DEF RelayInv, TopicTypeOK, RelayTypeOK, EndTx
<1>3. BatchesOK'
  BY <1>0 DEF RelayInv, RelayTypeOK, BatchesOK, Batch, EndTx
<1>4. (SentArePublished /\ MarkedRowsWerePublished)'
  BY <1>0, <1>1 DEF RelayInv, RelayTypeOK, SentArePublished, MarkedRowsWerePublished, EndTx
<1>5. OnceInv'
  BY <1>0 DEF RelayInv, OnceInv, NothingLost
<1>6. QED
  BY <1>1, <1>2, <1>3, <1>4, <1>5 DEF RelayInv

LEMMA CrashKeeps ==
    ASSUME RelayInv, NEW w \in Relays, Crash(w)
    PROVE  RelayInv'
<1>0. /\ EndTx(w) /\ faults' = faults + 1
      /\ life' = [life EXCEPT ![w] = "down"]
      /\ UNCHANGED <<row, retries, due, log, stops, replays>>
  BY DEF Crash, Fault
<1>1. (TopicTypeOK /\ RelayTypeOK)'
  BY <1>0 DEF RelayInv, TopicTypeOK, RelayTypeOK, EndTx
<1>2. BatchesOK'
  BY <1>0 DEF RelayInv, RelayTypeOK, BatchesOK, Batch, EndTx
<1>3. (SentArePublished /\ MarkedRowsWerePublished /\ MessagesHaveRows)'
  BY <1>0 DEF RelayInv, RelayTypeOK, SentArePublished, MarkedRowsWerePublished,
             MessagesHaveRows, Published, EndTx
<1>4. OnceInv'
  BY <1>0 DEF RelayInv, TopicTypeOK, OnceInv
<1>5. QED
  BY <1>1, <1>2, <1>3, <1>4 DEF RelayInv

LEMMA MaintainKeeps ==
    ASSUME RelayInv, NEW w \in Relays, Maintain(w)
    PROVE  RelayInv'
<1>1. PICK old \in SUBSET {e \in Events : row[e] = "PUBLISHED"} :
          row' = [e \in Events |-> IF e \in old THEN "DELETED" ELSE row[e]]
  BY DEF Maintain
<1>2. UNCHANGED <<retries, due, life, batchVars, topicVars>>
  BY DEF Maintain
<1>3. (TopicTypeOK /\ RelayTypeOK)'
  BY <1>1, <1>2 DEF RelayInv, TopicTypeOK, RelayTypeOK, Statuses, batchVars, topicVars
<1>4. BatchesOK'
  BY <1>1, <1>2 DEF RelayInv, RelayTypeOK, BatchesOK, Batch, batchVars
<1>5. (SentArePublished /\ MarkedRowsWerePublished /\ MessagesHaveRows)'
  BY <1>1, <1>2 DEF RelayInv, TopicTypeOK, SentArePublished, MarkedRowsWerePublished,
             MessagesHaveRows, Published, batchVars, topicVars
<1>6. OnceInv'
  BY <1>1, <1>2 DEF RelayInv, TopicTypeOK, OnceInv, NothingLost, MessagesMarked,
             MessagesDiffer, batchVars, topicVars
<1>7. QED
  BY <1>3, <1>4, <1>5, <1>6 DEF RelayInv

\* A backoff that passes, and a process that starts, is told to stop or ends.
LEMMA IdleKeeps ==
    ASSUME RelayInv,
           \/ \E e \in Events : BackoffPasses(e)
           \/ \E w \in Relays : Start(w) \/ Stop(w) \/ Exit(w)
    PROVE  RelayInv'
<1>1. UNCHANGED <<row, retries, batchVars, log, faults, replays>>
  BY DEF BackoffPasses, Start, Stop, Exit, topicVars
<1>2. (TopicTypeOK /\ RelayTypeOK)'
  <2>1. stops' \in Nat /\ retries' = retries
    BY DEF RelayInv, TopicTypeOK, BackoffPasses, Start, Stop, Exit, topicVars
  <2>2. due' \in [Events -> BOOLEAN]
    BY DEF RelayInv, RelayTypeOK, BackoffPasses, Start, Stop, Exit
  <2>3. life' \in [Relays -> {"down", "up", "stopping"}]
    BY DEF RelayInv, RelayTypeOK, BackoffPasses, Start, Stop, Exit
  <2>4. QED
    BY <1>1, <2>1, <2>2, <2>3 DEF RelayInv, TopicTypeOK, RelayTypeOK, batchVars
<1>3. (BatchesOK /\ SentArePublished /\ MarkedRowsWerePublished /\ MessagesHaveRows)'
  BY <1>1 DEF RelayInv, BatchesOK, Batch, SentArePublished, MarkedRowsWerePublished,
             MessagesHaveRows, Published, batchVars
<1>4. \A w \in Relays : life'[w] = "down" => life[w] = "down" \/ tx[w] = "none"
  BY DEF RelayInv, RelayTypeOK, BackoffPasses, Start, Stop, Exit
<1>5. OnceInv'
  BY <1>1, <1>4 DEF RelayInv, OnceInv, NothingLost, MessagesMarked, MessagesDiffer, batchVars
<1>6. QED
  BY <1>2, <1>3, <1>5 DEF RelayInv

LEMMA RelayNextKeeps ==
    ASSUME RelayInv, RelayNext
    PROVE  RelayInv'
BY InsertKeeps, ClaimKeeps, PublishKeeps, PublishFailsKeeps, PublishUnackedKeeps,
   CommitKeeps, TxTimeoutKeeps, LateStepKeeps, CrashKeeps, MaintainKeeps, IdleKeeps
   DEF RelayNext, RelayStep

---------------------------------------------------------------------------
(* The consumer *)

\* Everything before the consumer's position is settled, and the commit is behind it.
ConsumerInv ==
    /\ ConsumerTypeOK
    /\ committed <= pos
    /\ cpc \in {"handle", "dlq"} => pos < Len(log)
    /\ \A p \in 1..pos : Settled(p)
    /\ replay.on => replays # 0

DeliveryInv == RelayInv /\ ConsumerInv

LEMMA ConsumerInitially == DeliveryInit => ConsumerInv
BY ConsumerAssumption
   DEF DeliveryInit, TopicInit, ConsumerInit, ConsumerInv, ConsumerTypeOK, Settled

\* A longer partition, and the relay's steps, leave the consumer's invariant alone.
LEMMA ConsumerInvGrows ==
    ASSUME ConsumerInv, log \in Seq(Events), log' \in Seq(Events), Len(log) <= Len(log'),
           UNCHANGED <<consumerVars, replay, replays>>
    PROVE  ConsumerInv'
<1>1. dlq' \in Seq(1..Len(log'))
  BY DEF ConsumerInv, ConsumerTypeOK, consumerVars
<1>2. QED
  BY <1>1 DEF ConsumerInv, ConsumerTypeOK, Settled, consumerVars

\* Storing a message leaves room for the consumer's invariant, too.
LEMMA RelayKeepsConsumer ==
    ASSUME RelayInv, ConsumerInv, RelayNext, UNCHANGED <<consumerVars, replay>>
    PROVE  ConsumerInv'
<1>1. replays' = replays
  BY DEF RelayNext, RelayStep, Insert, BackoffPasses, Claim, Publish, PublishFails,
         NotPublished, PublishUnacked, Fault, Commit, TxTimeout, LateStep, Crash, Maintain,
         Start, Stop, Exit, topicVars
<1>2. log' = log \/ \E e \in Events : StoreMessage(e)
  BY DEF RelayNext, RelayStep, Insert, BackoffPasses, Claim, Publish, PublishFails,
         NotPublished, PublishUnacked, Fault, Commit, TxTimeout, LateStep, Crash, Maintain,
         Start, Stop, Exit, topicVars
<1>3. log \in Seq(Events)
  BY DEF RelayInv, TopicTypeOK
<1>4. log' \in Seq(Events) /\ Len(log) <= Len(log')
  BY <1>2, <1>3 DEF StoreMessage
<1>5. QED
  BY <1>1, <1>3, <1>4, ConsumerInvGrows

LEMMA LettersGrow ==
    ASSUME log \in Seq(Events), dlq \in Seq(1..Len(log)), pos \in Nat, pos < Len(log),
           dlq' = Append(dlq, pos + 1), UNCHANGED handled
    PROVE  /\ dlq' \in Seq(1..Len(log))
           /\ Len(dlq') = Len(dlq) + 1
           /\ \A p : Settled(p) => Settled(p)'
           /\ \A p : p = pos + 1 => Settled(p)'
<1>1. /\ dlq' \in Seq(1..Len(log))
      /\ Len(dlq') = Len(dlq) + 1
      /\ DOMAIN dlq' = DOMAIN dlq \cup {Len(dlq) + 1}
      /\ \A i \in DOMAIN dlq : dlq'[i] = dlq[i]
      /\ dlq'[Len(dlq) + 1] = pos + 1
  OBVIOUS
<1>2. QED
  BY <1>1 DEF Settled

LEMMA SendDlqKeeps ==
    ASSUME ConsumerInv, log \in Seq(Events), UNCHANGED <<log, replay, replays>>,
           SendDlq \/ SendDlqFails
    PROVE  ConsumerInv'
<1>1. /\ pos \in Nat /\ pos < Len(log) /\ UNCHANGED <<committed, attempt, handled>>
      /\ pos \in 0..Len(log)
  BY DEF ConsumerInv, ConsumerTypeOK, SendDlq, SendDlqFails
<1>2. CASE dlq' = dlq /\ pos' = pos /\ cpc' = "offline"
  BY <1>1, <1>2 DEF ConsumerInv, ConsumerTypeOK, Settled
<1>3. CASE /\ dlq' = Append(dlq, pos + 1)
           /\ \/ pos' = pos /\ cpc' = "offline"
              \/ pos' = pos + 1 /\ cpc' = "poll"
  <2>1. /\ dlq' \in Seq(1..Len(log))
        /\ Len(dlq') = Len(dlq) + 1
        /\ \A p : Settled(p) => Settled(p)'
        /\ \A p : p = pos + 1 => Settled(p)'
    BY <1>1, <1>3, LettersGrow DEF ConsumerInv, ConsumerTypeOK
  <2>2. ConsumerTypeOK'
    BY <1>1, <1>3, <2>1 DEF ConsumerInv, ConsumerTypeOK
  <2>3. \A p \in 1..pos : Settled(p)
    BY DEF ConsumerInv
  <2>4. (\A p \in 1..pos : Settled(p))'
    BY <1>1, <1>3, <2>1, <2>3
  <2>5. committed' <= pos'
    BY <1>1, <1>3 DEF ConsumerInv, ConsumerTypeOK
  <2>6. (replay.on => replays # 0)'
    BY <2>1 DEF ConsumerInv, ConsumerTypeOK
  <2>7. QED
    BY <1>3, <2>2, <2>4, <2>5, <2>6 DEF ConsumerInv
<1>4. QED
  BY <1>2, <1>3 DEF SendDlq, SendDlqFails

\* The steps of the consumer that send no letter.
LEMMA ConsumeKeeps ==
    ASSUME ConsumerInv, log \in Seq(Events), {faults, stops, replays} \subseteq Nat,
           \/ Connect \/ Receive \/ Handle \/ HandleFails \/ CommitOffset
           \/ Disconnect \/ ConsumerCrash
    PROVE  ConsumerInv'
<1>1. UNCHANGED <<log, dlq, replay, replays>>
  BY DEF Connect, Receive, Handle, HandleFails, CommitOffset, Disconnect, ConsumerCrash,
         topicVars
<1>2. CASE Connect
  BY <1>1, <1>2, ConsumerAssumption DEF ConsumerInv, ConsumerTypeOK, Settled, Connect
<1>3. CASE Receive
  BY <1>1, <1>3, ConsumerAssumption DEF ConsumerInv, ConsumerTypeOK, Settled, Receive
<1>4. CASE Handle
  BY <1>1, <1>4 DEF ConsumerInv, ConsumerTypeOK, Settled, Handle
<1>5. CASE HandleFails
  BY <1>1, <1>5, ConsumerAssumption DEF ConsumerInv, ConsumerTypeOK, Settled, HandleFails
<1>6. CASE CommitOffset
  BY <1>1, <1>6 DEF ConsumerInv, ConsumerTypeOK, Settled, CommitOffset
<1>7. CASE Disconnect
  BY <1>1, <1>7 DEF ConsumerInv, ConsumerTypeOK, Settled, Disconnect
<1>8. CASE ConsumerCrash
  BY <1>1, <1>8 DEF ConsumerInv, ConsumerTypeOK, Settled, ConsumerCrash
<1>9. QED
  BY <1>2, <1>3, <1>4, <1>5, <1>6, <1>7, <1>8

\* The letter the tool reads is a message of the partition.
LEMMA ReplayedMessage ==
    ASSUME ConsumerInv, log \in Seq(Events), ReplayLetter
    PROVE  /\ replays # 0
           /\ \E p \in DOMAIN log : StoreMessage(log[p])
<1>1. replay.read + 1 \in DOMAIN dlq /\ dlq \in Seq(1..Len(log)) /\ replays # 0
  BY DEF ConsumerInv, ConsumerTypeOK, ReplayLetter
<1>2. dlq[replay.read + 1] \in DOMAIN log
  BY <1>1
<1>3. QED
  BY <1>1, <1>2 DEF ReplayLetter

LEMMA ReplayKeeps ==
    ASSUME ConsumerInv, log \in Seq(Events), {faults, stops, replays} \subseteq Nat,
           ReplayStart \/ ReplayLetter \/ ReplayExit
    PROVE  ConsumerInv'
<1>1. CASE ReplayStart
  <2>1. Len(dlq) \in Nat
    BY DEF ConsumerInv, ConsumerTypeOK
  <2>2. QED
    BY <1>1, <2>1 DEF ConsumerInv, ConsumerTypeOK, Settled, ReplayStart, consumerVars
<1>2. CASE ReplayLetter
  <2>1. PICK p \in DOMAIN log : StoreMessage(log[p])
    BY <1>2, ReplayedMessage
  <2>2. log' \in Seq(Events) /\ Len(log') = Len(log) + 1
    BY <2>1 DEF StoreMessage
  <2>3. dlq' \in Seq(1..Len(log'))
    BY <1>2, <2>2 DEF ConsumerInv, ConsumerTypeOK, ReplayLetter, consumerVars
  <2>4. /\ replay' \in [on : BOOLEAN, total : Nat, read : Nat]
        /\ (replay.on => replays # 0)'
    BY <1>2 DEF ConsumerInv, ConsumerTypeOK, ReplayLetter, consumerVars
  <2>5. UNCHANGED consumerVars
    BY <1>2 DEF ReplayLetter
  <2>6. ConsumerTypeOK'
    BY <2>2, <2>3, <2>4, <2>5 DEF ConsumerInv, ConsumerTypeOK, consumerVars
  <2>7. (\A q \in 1..pos : Settled(q))'
    BY <2>5 DEF ConsumerInv, Settled, consumerVars
  <2>8. committed' <= pos' /\ (cpc' \in {"handle", "dlq"} => pos' < Len(log'))
    BY <2>2, <2>5 DEF ConsumerInv, ConsumerTypeOK, consumerVars
  <2>9. QED
    BY <2>4, <2>6, <2>7, <2>8 DEF ConsumerInv
<1>3. CASE ReplayExit
  BY <1>3 DEF ConsumerInv, ConsumerTypeOK, Settled, ReplayExit, consumerVars, topicVars
<1>4. QED
  BY <1>1, <1>2, <1>3

\* The consumer changes no row; only the replay tool stores messages, on purpose.
LEMMA ConsumerKeepsRelay ==
    ASSUME RelayInv, ConsumerInv, ConsumerNext, UNCHANGED relayVars
    PROVE  RelayInv'
<1>1. CASE ReplayLetter
  <2>0. log \in Seq(Events)
    BY DEF RelayInv, TopicTypeOK
  <2>1. PICK p \in DOMAIN log : StoreMessage(log[p])
    BY <1>1, <2>0, ReplayedMessage
  <2>2. log[p] \in Events
    BY <2>0
  <2>3. /\ log' \in Seq(Events)
        /\ DOMAIN log' = DOMAIN log \cup {Len(log) + 1}
        /\ \A q \in DOMAIN log : log'[q] = log[q]
        /\ log'[Len(log) + 1] = log[p]
        /\ \A d : Published(d) => Published(d)'
    BY <2>0, <2>1, <2>2, AppendedLog
  <2>4. /\ replays # 0 /\ UNCHANGED <<faults, stops, replays>>
    BY <1>1, <2>0, ReplayedMessage DEF ReplayLetter
  <2>5. (TopicTypeOK /\ RelayTypeOK /\ BatchesOK)'
    BY <2>3, <2>4 DEF RelayInv, TopicTypeOK, RelayTypeOK, BatchesOK, Batch, relayVars
  <2>6. (SentArePublished /\ MarkedRowsWerePublished)'
    BY <2>3 DEF RelayInv, SentArePublished, MarkedRowsWerePublished, relayVars
  <2>7. MessagesHaveRows'
    BY <2>3 DEF RelayInv, MessagesHaveRows, relayVars
  <2>8. OnceInv'
    BY <2>4 DEF OnceInv
  <2>9. QED
    BY <2>5, <2>6, <2>7, <2>8 DEF RelayInv
<1>2. CASE ~ReplayLetter
  <2>1. /\ UNCHANGED log
        /\ ({faults, stops, replays} \subseteq Nat)'
        /\ (faults = 0 /\ replays = 0)' => faults = 0 /\ replays = 0
    BY <1>2 DEF ConsumerNext, ConsumerStep, Connect, Receive, Handle, HandleFails, SendDlq,
                SendDlqFails, CommitOffset, Disconnect, ConsumerCrash, ReplayStart,
                ReplayExit, Fault, RelayInv, TopicTypeOK, topicVars
  <2>2. (TopicTypeOK /\ RelayTypeOK /\ BatchesOK)'
    BY <2>1 DEF RelayInv, TopicTypeOK, RelayTypeOK, BatchesOK, Batch, relayVars
  <2>3. (SentArePublished /\ MarkedRowsWerePublished /\ MessagesHaveRows)'
    BY <2>1 DEF RelayInv, SentArePublished, MarkedRowsWerePublished, MessagesHaveRows,
                Published, relayVars
  <2>4. OnceInv'
    BY <2>1 DEF RelayInv, OnceInv, NothingLost, MessagesMarked, MessagesDiffer, relayVars
  <2>5. QED
    BY <2>2, <2>3, <2>4 DEF RelayInv
<1>3. QED
  BY <1>1, <1>2

LEMMA DeliveryStep ==
    ASSUME DeliveryInv, [DeliveryNext]_deliveryVars
    PROVE  DeliveryInv'
<1>0. log \in Seq(Events) /\ {faults, stops, replays} \subseteq Nat
  BY DEF DeliveryInv, RelayInv, TopicTypeOK
<1>1. CASE RelayNext /\ UNCHANGED <<consumerVars, replay>>
  BY <1>1, RelayNextKeeps, RelayKeepsConsumer DEF DeliveryInv
<1>2. CASE ConsumerNext /\ UNCHANGED relayVars
  <2>1. RelayInv'
    BY <1>2, ConsumerKeepsRelay DEF DeliveryInv
  <2>2. SendDlq \/ SendDlqFails => UNCHANGED <<log, replay, replays>>
    BY DEF SendDlq, SendDlqFails, topicVars
  <2>3. ConsumerInv'
    BY <1>0, <1>2, <2>2, SendDlqKeeps, ConsumeKeeps, ReplayKeeps
       DEF DeliveryInv, ConsumerNext, ConsumerStep
  <2>4. QED
    BY <2>1, <2>3 DEF DeliveryInv
<1>3. CASE UNCHANGED deliveryVars
  <2>1. RelayInv'
    BY <1>3 DEF DeliveryInv, RelayInv, TopicTypeOK, RelayTypeOK, BatchesOK, Batch,
                SentArePublished, MarkedRowsWerePublished, MessagesHaveRows, OnceInv,
                NothingLost, MessagesMarked, MessagesDiffer, Published,
                deliveryVars, relayVars, topicVars
  <2>2. ConsumerInv'
    BY <1>0, <1>3, ConsumerInvGrows DEF DeliveryInv, deliveryVars, topicVars
  <2>3. QED
    BY <2>1, <2>2 DEF DeliveryInv
<1>4. QED
  BY <1>1, <1>2, <1>3 DEF DeliveryNext

---------------------------------------------------------------------------
(* Theorems *)

\* The inductive invariant of the relays, the topic and the consumer.
THEOREM DeliveryInvariant == DeliverySpec => []DeliveryInv
<1>1. DeliveryInit => DeliveryInv
  BY RelayInitially, ConsumerInitially DEF DeliveryInv
<1>2. DeliveryInv /\ [DeliveryNext]_deliveryVars => DeliveryInv'
  BY DeliveryStep
<1>3. QED
  BY <1>1, <1>2, PTL DEF DeliverySpec

\* Every variable keeps its type: an attempt is never beyond the third, an offset never
\* beyond the end of the partition.
THEOREM DeliveryTypes == DeliverySpec => []DeliveryTypeOK
<1>1. DeliveryInv => DeliveryTypeOK
  BY DEF DeliveryInv, RelayInv, ConsumerInv, DeliveryTypeOK
<1>2. QED
  BY <1>1, DeliveryInvariant, PTL

\* processOnce marks a row PUBLISHED only after its message is in the topic.
THEOREM NoEventIsDropped == DeliverySpec => []MarkedRowsWerePublished
<1>1. DeliveryInv => MarkedRowsWerePublished
  BY DEF DeliveryInv, RelayInv
<1>2. QED
  BY <1>1, DeliveryInvariant, PTL

\* FOR UPDATE SKIP LOCKED and a stop that awaits the tick keep replicas from publishing
\* an event twice, as long as nothing fails.
THEOREM RelaysDoNotRepeat == DeliverySpec => []PublishedOnceWithoutFaults
<1>1. DeliveryInv => PublishedOnceWithoutFaults
  BY DEF DeliveryInv, RelayInv, OnceInv, MessagesDiffer, PublishedOnceWithoutFaults
<1>2. QED
  BY <1>1, DeliveryInvariant, PTL

\* runConsumer commits no offset beyond a message that was neither handled nor kept as a
\* dead letter.
THEOREM ConsumerSkipsNothing == DeliverySpec => []NothingSkipped
<1>1. DeliveryInv => NothingSkipped
  BY DEF DeliveryInv, ConsumerInv, ConsumerTypeOK, NothingSkipped
<1>2. QED
  BY <1>1, DeliveryInvariant, PTL

---------------------------------------------------------------------------
(* The promise: the safety part of AtLeastOnce *)

\* Messages keep their places and stay settled; rows neither appear, unless inserted, nor
\* come back from FAILED.
Keeps ==
    /\ \A p \in DOMAIN log : p \in DOMAIN log' /\ log'[p] = log[p]
    /\ \A p \in DOMAIN log : Settled(p) => Settled(p)'
    /\ \A e \in Events : row[e] = "NONE" <=> row'[e] = "NONE"
    /\ \A e \in Events : row[e] = "FAILED" => row'[e] = "FAILED"

LEMMA RelayStepKeeps ==
    ASSUME DeliveryInv, RelayNext, UNCHANGED <<consumerVars, replay>>,
           \A e \in Events : ~Insert(e)
    PROVE  Keeps
<1>0. log \in Seq(Events)
  BY DEF DeliveryInv, RelayInv, TopicTypeOK
<1>1. log' = log \/ \E e \in Events : StoreMessage(e)
  BY DEF RelayNext, RelayStep, BackoffPasses, Claim, Publish, PublishFails,
         NotPublished, PublishUnacked, Fault, Commit, TxTimeout, LateStep, Crash, Maintain,
         Start, Stop, Exit, topicVars
<1>2. \A p \in DOMAIN log : p \in DOMAIN log' /\ log'[p] = log[p]
  <2>1. CASE log' = log
    BY <2>1
  <2>2. CASE \E e \in Events : StoreMessage(e)
    BY <1>0, <2>2 DEF StoreMessage
  <2>3. QED
    BY <1>1, <2>1, <2>2
<1>3. \A p \in DOMAIN log : Settled(p) => Settled(p)'
  BY DEF Settled, consumerVars
<1>4. \A e \in Events : /\ row[e] = "NONE" <=> row'[e] = "NONE"
                        /\ row[e] = "FAILED" => row'[e] = "FAILED"
  <2>1. CASE \E w \in Relays : Commit(w)
    <3>1. PICK w \in Relays : Commit(w)
      BY <2>1
    <3>2. \A e \in Batch(w) : row[e] = "PENDING"
      BY <3>1 DEF DeliveryInv, RelayInv, BatchesOK, Commit
    <3>3. QED
      BY <3>1, <3>2 DEF Commit, Committed, FailedStatus, Batch
  <2>2. CASE \E w \in Relays : Maintain(w)
    BY <2>2 DEF Maintain
  <2>3. CASE UNCHANGED row
    BY <2>3
  <2>4. QED
    BY <2>1, <2>2, <2>3
       DEF RelayNext, RelayStep, BackoffPasses, Claim, Publish, PublishFails,
           NotPublished, PublishUnacked, TxTimeout, LateStep, Crash, Start, Stop, Exit
<1>5. QED
  BY <1>2, <1>3, <1>4 DEF Keeps

LEMMA ConsumerStepKeeps ==
    ASSUME DeliveryInv, ConsumerNext, UNCHANGED relayVars
    PROVE  Keeps
<1>0. log \in Seq(Events) /\ dlq \in Seq(1..Len(log)) /\ pos \in 0..Len(log)
      /\ (cpc = "dlq" => pos < Len(log))
  BY DEF DeliveryInv, RelayInv, TopicTypeOK, ConsumerInv, ConsumerTypeOK
<1>1. \A p \in DOMAIN log : p \in DOMAIN log' /\ log'[p] = log[p]
  <2>1. CASE ReplayLetter
    <3>1. PICK p \in DOMAIN log : StoreMessage(log[p])
      BY <1>0, <2>1, ReplayedMessage DEF DeliveryInv
    <3>2. QED
      BY <1>0, <3>1 DEF StoreMessage
  <2>2. CASE ~ReplayLetter
    BY <2>2 DEF ConsumerNext, ConsumerStep, Connect, Receive, Handle, HandleFails, SendDlq,
                SendDlqFails, CommitOffset, Disconnect, ConsumerCrash, ReplayStart,
                ReplayExit, topicVars
  <2>3. QED
    BY <2>1, <2>2
<1>2. \A p \in DOMAIN log : Settled(p) => Settled(p)'
  <2>1. CASE (SendDlq \/ SendDlqFails) /\ dlq' = Append(dlq, pos + 1)
    <3>1. pos \in Nat /\ pos < Len(log) /\ UNCHANGED handled
      BY <1>0, <2>1 DEF SendDlq, SendDlqFails
    <3>2. QED
      BY <1>0, <2>1, <3>1, LettersGrow
  <2>2. CASE handled \subseteq handled' /\ dlq' = dlq
    BY <2>2 DEF Settled
  <2>3. QED
    BY <2>1, <2>2
       DEF ConsumerNext, ConsumerStep, Connect, Receive, Handle, HandleFails, SendDlq,
           SendDlqFails, CommitOffset, Disconnect, ConsumerCrash, ReplayStart,
           ReplayLetter, ReplayExit, consumerVars
<1>3. QED
  BY <1>1, <1>2 DEF Keeps, relayVars

\* A step that keeps rows and messages settles some of the events owed.
LEMMA KeepsSettles ==
    ASSUME Keeps
    PROVE  Promise!OwedNext \/ UNCHANGED owedBar
<1> DEFINE S == {e \in Events : Owed(e) = "owed" /\ Owed(e)' = "settled"}
<1>1. \A e \in Events : /\ Owed(e) \in {"none", "owed", "settled"}
                        /\ Owed(e) = "none" => Owed(e)' = "none"
                        /\ Owed(e) = "owed" => Owed(e)' \in {"owed", "settled"}
                        /\ Owed(e) = "settled" => Owed(e)' = "settled"
  BY DEF Keeps, Owed
<1>2. Promise!Settle(S)
  <2>1. \A e \in S : owedBar[e] = "owed"
    BY DEF owedBar
  <2>2. \A e \in Events : Owed(e)' = IF e \in S THEN "settled" ELSE owedBar[e]
    BY <1>1 DEF owedBar
  <2>3. owedBar' = [e \in Events |-> IF e \in S THEN "settled" ELSE owedBar[e]]
    BY <2>2 DEF owedBar
  <2>4. QED
    BY <2>1, <2>3 DEF Promise!Settle
<1>3. S \in SUBSET Events
  OBVIOUS
<1>4. QED
  BY <1>2, <1>3 DEF Promise!OwedNext

LEMMA InsertAccepts ==
    ASSUME DeliveryInv, NEW e \in Events, Insert(e), UNCHANGED <<consumerVars, replay>>
    PROVE  Promise!OwedNext
<1>1. /\ row[e] = "NONE" /\ row' = [row EXCEPT ![e] = "PENDING"] /\ UNCHANGED log
      /\ row \in [Events -> Statuses]
  BY DEF Insert, topicVars, DeliveryInv, RelayInv, RelayTypeOK
<1>2. \A p \in DOMAIN log : log[p] # e
  BY <1>1 DEF DeliveryInv, RelayInv, MessagesHaveRows
<1>3. \A p : Settled(p) <=> Settled(p)'
  BY DEF Settled, consumerVars
<1>4. \A d \in Events : Owed(d)' = IF d = e THEN "owed" ELSE Owed(d)
  BY <1>1, <1>2, <1>3 DEF Owed
<1>5. owedBar' = [d \in Events |-> IF d \in {e} THEN "owed" ELSE owedBar[d]]
  BY <1>4 DEF owedBar
<1>6. \A d \in {e} : owedBar[d] = "none"
  BY <1>1 DEF owedBar, Owed
<1>7. Promise!Accept({e})
  BY <1>5, <1>6 DEF Promise!Accept
<1>8. QED
  BY <1>7 DEF Promise!OwedNext

\* Every step of relays, consumer and tools accepts events, settles events that are owed,
\* or changes nothing a caller was promised: what was handled, dead-lettered or given up
\* never becomes owed again.
THEOREM DeliveryKeepsThePromise ==
    DeliverySpec => Promise!OwedInit /\ [][Promise!OwedNext]_owedBar
<1>1. DeliveryInit => Promise!OwedInit
  BY DEF DeliveryInit, RelayInit, owedBar, Owed, Promise!OwedInit
<1>2. DeliveryInv /\ [DeliveryNext]_deliveryVars => [Promise!OwedNext]_owedBar
  <2> SUFFICES ASSUME DeliveryInv, [DeliveryNext]_deliveryVars
               PROVE  Promise!OwedNext \/ UNCHANGED owedBar
    OBVIOUS
  <2>1. CASE RelayNext /\ UNCHANGED <<consumerVars, replay>>
    BY <2>1, InsertAccepts, RelayStepKeeps, KeepsSettles
  <2>2. CASE ConsumerNext /\ UNCHANGED relayVars
    BY <2>2, ConsumerStepKeeps, KeepsSettles
  <2>3. CASE UNCHANGED deliveryVars
    BY <2>3 DEF deliveryVars, relayVars, consumerVars, topicVars, owedBar, Owed, Settled
  <2>4. QED
    BY <2>1, <2>2, <2>3 DEF DeliveryNext
<1>3. QED
  BY <1>1, <1>2, DeliveryInvariant, PTL DEF DeliverySpec

---------------------------------------------------------------------------
(* The transport: what OrderSaga takes for granted *)

\* A stored message publishes one event and consumes none.
LEMMA StoredIsPublished ==
    ASSUME log \in Seq(Events), handled \subseteq 1..Len(log), NEW e \in Events,
           StoreMessage(e), UNCHANGED handled
    PROVE  /\ PublishedEvents' = PublishedEvents \cup {e}
           /\ ConsumedEvents' = ConsumedEvents
<1>0. DOMAIN log = 1..Len(log) OBVIOUS
<1>1. /\ DOMAIN log' = DOMAIN log \cup {Len(log) + 1}
      /\ \A p \in DOMAIN log : log'[p] = log[p]
      /\ log'[Len(log) + 1] = e
  BY AppendedLog
<1>2. \A d : Published(d)' <=> Published(d) \/ d = e BY <1>1 DEF Published
<1>3. PublishedEvents' = PublishedEvents \cup {e} BY <1>2 DEF PublishedEvents
<1>4. ConsumedEvents' = ConsumedEvents BY <1>0, <1>1 DEF ConsumedEvents
<1>. QED BY <1>3, <1>4

LEMMA SameMessages ==
    ASSUME UNCHANGED <<log, handled>>
    PROVE  PublishedEvents' = PublishedEvents /\ ConsumedEvents' = ConsumedEvents
BY DEF PublishedEvents, Published, ConsumedEvents

\* Only Insert changes which rows were written; what a relay stores has a row.
LEMMA RelayTransports ==
    ASSUME DeliveryInv, DeliveryInv', RelayNext, UNCHANGED <<consumerVars, replay>>
    PROVE  [Transport!TransportNext]_Transport!transportVars
<1>0. /\ log \in Seq(Events) /\ handled \subseteq 1..Len(log) /\ UNCHANGED handled
      /\ row \in [Events -> Statuses]
  BY DEF DeliveryInv, RelayInv, TopicTypeOK, RelayTypeOK, ConsumerInv, ConsumerTypeOK,
         consumerVars
<1>1. CASE \E e \in Events : Insert(e)
  <2>1. PICK e \in Events : Insert(e) BY <1>1
  <2>2. UNCHANGED log /\ row' = [row EXCEPT ![e] = "PENDING"] BY <2>1 DEF Insert, topicVars
  <2>3. WrittenEvents' = WrittenEvents \cup {e} BY <1>0, <2>2 DEF WrittenEvents
  <2>4. PublishedEvents' = PublishedEvents /\ ConsumedEvents' = ConsumedEvents
    BY <1>0, <2>2, SameMessages
  <2>5. Transport!Transact({e}, {}) BY <2>3, <2>4 DEF Transport!Transact
  <2>6. {e} \in SUBSET Events /\ {} \in SUBSET Events OBVIOUS
  <2>. QED BY <2>5, <2>6 DEF Transport!TransportNext
<1>2. CASE \A e \in Events : ~Insert(e)
  <2>1. \A e \in Events : row[e] = "NONE" <=> row'[e] = "NONE"
    BY <1>2, RelayStepKeeps DEF Keeps
  <2>2. WrittenEvents' = WrittenEvents BY <2>1 DEF WrittenEvents
  <2>3. UNCHANGED log \/ \E e \in Events : StoreMessage(e)
    BY <1>2 DEF RelayNext, RelayStep, BackoffPasses, Claim, Publish, PublishFails,
                NotPublished, PublishUnacked, Fault, Commit, TxTimeout, LateStep, Crash,
                Maintain, Start, Stop, Exit, topicVars
  <2>4. CASE UNCHANGED log
    BY <1>0, <2>2, <2>4, SameMessages DEF Transport!transportVars
  <2>5. CASE \E e \in Events : StoreMessage(e)
    <3>1. PICK e \in Events : StoreMessage(e) BY <2>5
    <3>2. Len(log) + 1 \in DOMAIN log' /\ log'[Len(log) + 1] = e
      BY <1>0, <3>1, AppendedLog
    <3>3. row'[e] # "NONE" BY <3>2 DEF DeliveryInv, RelayInv, MessagesHaveRows
    <3>4. e \in WrittenEvents BY <2>1, <3>3 DEF WrittenEvents
    <3>5. Transport!Publish(e)
      BY <1>0, <2>2, <3>1, <3>4, StoredIsPublished DEF Transport!Publish
    <3>. QED BY <3>5 DEF Transport!TransportNext
  <2>. QED BY <2>3, <2>4, <2>5
<1>. QED BY <1>1, <1>2

\* The consumer completes the handler of a message of the topic; the replay tool stores
\* messages that were there before.
LEMMA ConsumerTransports ==
    ASSUME DeliveryInv, ConsumerNext, UNCHANGED relayVars
    PROVE  [Transport!TransportNext]_Transport!transportVars
<1>0. /\ log \in Seq(Events) /\ handled \subseteq 1..Len(log)
      /\ pos \in 0..Len(log)
      /\ cpc = "handle" => pos < Len(log)
  BY DEF DeliveryInv, RelayInv, TopicTypeOK, ConsumerInv, ConsumerTypeOK
<1>1. WrittenEvents' = WrittenEvents BY DEF WrittenEvents, relayVars
<1>2. CASE Handle
  <2>. DEFINE e == log[pos + 1]
  <2>0. pos + 1 \in DOMAIN log
    <3>1. pos + 1 \in 1..Len(log) BY <1>0, <1>2 DEF Handle
    <3>. QED BY <1>0, <3>1
  <2>1. /\ UNCHANGED log /\ handled' = handled \cup {pos + 1}
        /\ pos + 1 \in DOMAIN log /\ e \in Events
    BY <1>0, <1>2, <2>0 DEF Handle, topicVars
  <2>2. e \in PublishedEvents BY <2>1 DEF PublishedEvents, Published
  <2>3. ConsumedEvents' = ConsumedEvents \cup {e} BY <2>1 DEF ConsumedEvents
  <2>4. PublishedEvents' = PublishedEvents BY <2>1 DEF PublishedEvents, Published
  <2>5. Transport!Transact({}, {e})
    BY <1>1, <2>2, <2>3, <2>4 DEF Transport!Transact
  <2>6. {e} \in SUBSET Events /\ {} \in SUBSET Events BY <2>1
  <2>. QED BY <2>5, <2>6 DEF Transport!TransportNext
<1>3. CASE ReplayLetter
  <2>1. PICK p \in DOMAIN log : StoreMessage(log[p])
    BY <1>0, <1>3, ReplayedMessage DEF DeliveryInv
  <2>2. log[p] \in Events /\ log[p] \in PublishedEvents
    BY <1>0 DEF PublishedEvents, Published
  <2>3. UNCHANGED handled BY <1>3 DEF ReplayLetter, consumerVars
  <2>4. PublishedEvents' = PublishedEvents /\ ConsumedEvents' = ConsumedEvents
    BY <1>0, <2>1, <2>2, <2>3, StoredIsPublished
  <2>. QED BY <1>1, <2>4 DEF Transport!transportVars
<1>4. CASE ~Handle /\ ~ReplayLetter
  <2>1. UNCHANGED <<log, handled>>
    BY <1>4 DEF ConsumerNext, ConsumerStep, Connect, Receive, HandleFails, SendDlq,
                SendDlqFails, CommitOffset, Disconnect, ConsumerCrash, ReplayStart,
                ReplayExit, topicVars, consumerVars
  <2>. QED BY <1>1, <2>1, SameMessages DEF Transport!transportVars
<1>. QED BY <1>2, <1>3, <1>4

\* Relays, consumer and replay tool are a transport: an event is published after it was
\* written and handled after it was published, for any number of relays, rows and faults.
THEOREM DeliveryIsTransport == DeliverySpec => ImplementsTransport
<1>1. DeliveryInit => Transport!TransportInit
  BY DEF DeliveryInit, RelayInit, ConsumerInit, TopicInit, WrittenEvents, PublishedEvents,
         Published, ConsumedEvents, Transport!TransportInit
<1>2. DeliveryInv /\ DeliveryInv' /\ [DeliveryNext]_deliveryVars
          => [Transport!TransportNext]_Transport!transportVars
  <2>1. CASE UNCHANGED deliveryVars
    BY <2>1 DEF deliveryVars, relayVars, consumerVars, topicVars, WrittenEvents,
                PublishedEvents, Published, ConsumedEvents, Transport!transportVars
  <2>. QED BY <2>1, RelayTransports, ConsumerTransports DEF DeliveryNext
<1>. QED
  BY <1>1, <1>2, DeliveryInvariant, PTL
  DEF DeliverySpec, ImplementsTransport, Transport!TransportSpec
=============================================================================
