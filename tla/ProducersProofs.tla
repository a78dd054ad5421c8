-------------------------- MODULE ProducersProofs --------------------------
(***************************************************************************)
(* Proofs about the producers, for any webhooks, orders, simulators and    *)
(* profiles, any queue limit and any number of faults: what the gateway    *)
(* was told is accepted is durable, and the merchant reports each status   *)
(* of an order at most once and truly.                                     *)
(*                                                                         *)
(* QueueStep lists what a step can do to the queues and the topic,         *)
(* MerchantStep what it can do to an order's row, EmitterStep what it can  *)
(* do to the reports being made; the invariant's parts follow from these.  *)
(***************************************************************************)
EXTENDS Producers, SequenceTheorems, TLAPS

-----------------------------------------------------------------------------
(* Queues.                                                                 *)

Entry == [event : Published, stored : BOOLEAN]

\* r is what is left of q when entries leave it.
Subqueue(r, q) ==
  /\ r \in Seq(Entry) /\ Len(r) <= Len(q)
  /\ \E f \in [1..Len(r) -> 1..Len(q)] :
       /\ \A i, j \in 1..Len(r) : f[i] = f[j] => i = j
       /\ \A i \in 1..Len(r) : r[i] = q[f[i]]

LEMMA SubqueueEntries ==
  ASSUME NEW r, NEW q, Subqueue(r, q)
  PROVE  \A i \in 1..Len(r) : \E j \in 1..Len(q) : r[i] = q[j]
BY DEF Subqueue

LEMMA SameQueue ==
  ASSUME NEW q \in Seq(Entry)
  PROVE  Subqueue(q, q) /\ Subqueue(<<>>, q)
<1>1. Subqueue(q, q)
  <2> DEFINE f == [i \in 1..Len(q) |-> i]
  <2>1. f \in [1..Len(q) -> 1..Len(q)] /\ \A i \in 1..Len(q) : f[i] = i
    OBVIOUS
  <2> HIDE DEF f
  <2> QED
    BY <2>1 DEF Subqueue
<1>2. Subqueue(<<>>, q)
  <2> DEFINE f == [i \in 1..0 |-> i]
  <2>1. f \in [1..0 -> 1..Len(q)]
    OBVIOUS
  <2> HIDE DEF f
  <2> QED
    <3>1. <<>> \in Seq(Entry) /\ Len(<<>>) = 0 /\ Len(q) \in Nat
      BY EmptySeq, LenProperties
    <3>2. \A i \in 1..0 : FALSE
      OBVIOUS
    <3>3. 1..Len(<<>>) = 1..0
      BY <3>1
    <3>4. f \in [1..Len(<<>>) -> 1..Len(q)]
      BY <2>1, <3>3, Zenon
    <3>5. \A i \in 1..Len(<<>>) : FALSE
      BY <3>2, <3>3, Zenon
    <3>6. Len(<<>>) <= Len(q)
      BY <3>1
    <3> QED
      BY <3>1, <3>4, <3>5, <3>6, Zenon DEF Subqueue
<1> QED
  BY <1>1, <1>2

LEMMA Acknowledged ==
  ASSUME NEW q \in Seq(Entry), q # <<>>
  PROVE  Subqueue(Tail(q), q)
<1> DEFINE f == [i \in 1..Len(Tail(q)) |-> i + 1]
<1>1. Len(q) \in Nat /\ Tail(q) \in Seq(Entry) /\ Len(Tail(q)) = Len(q) - 1
      /\ Len(Tail(q)) \in Nat /\ \A i \in 1..Len(Tail(q)) : Tail(q)[i] = q[i + 1]
  BY HeadTailProperties, LenProperties, EmptySeq
<1>2. f \in [1..Len(Tail(q)) -> 1..Len(q)] /\ \A i \in 1..Len(Tail(q)) : f[i] = i + 1
  BY <1>1
<1> HIDE DEF f
<1> QED
  BY <1>1, <1>2 DEF Subqueue

\* What RemoveAt leaves, and where.
LEMMA Removed ==
  ASSUME NEW q \in Seq(Entry), NEW i \in 1..Len(q)
  PROVE  /\ RemoveAt(q, i) \in Seq(Entry) /\ Len(RemoveAt(q, i)) = Len(q) - 1
         /\ \A j \in 1..(Len(q) - 1) : RemoveAt(q, i)[j] = q[IF j < i THEN j ELSE j + 1]
<1> DEFINE a == SubSeq(q, 1, i - 1)
           b == SubSeq(q, i + 1, Len(q))
<1>1. Len(q) \in Nat /\ i \in Nat /\ \A j \in 1..Len(q) : q[j] \in Entry
  BY LenProperties, ElementOfSeq
<1>2. a \in Seq(Entry) /\ Len(a) = i - 1 /\ \A j \in 1..(i - 1) : a[j] = q[j]
  <2>1. \A j \in 1..(i - 1) : q[j] \in Entry
    BY <1>1
  <2>2. /\ a \in Seq(Entry) /\ Len(a) = (IF 1 <= i - 1 THEN (i - 1) - 1 + 1 ELSE 0)
        /\ \A j \in 1..((i - 1) - 1 + 1) : a[j] = q[1 + j - 1]
    BY <1>1, <2>1, SubSeqProperties
  <2> QED
    BY <1>1, <2>2
<1>3. b \in Seq(Entry) /\ Len(b) = Len(q) - i /\ \A j \in 1..(Len(q) - i) : b[j] = q[i + j]
  <2>1. \A j \in (i + 1)..Len(q) : q[j] \in Entry
    BY <1>1
  <2>2. /\ b \in Seq(Entry) /\ Len(b) = (IF i + 1 <= Len(q) THEN Len(q) - (i + 1) + 1 ELSE 0)
        /\ \A j \in 1..(Len(q) - (i + 1) + 1) : b[j] = q[(i + 1) + j - 1]
    BY <1>1, <2>1, SubSeqProperties
  <2> QED
    BY <1>1, <2>2
<1> HIDE DEF a, b
<1>4. /\ a \o b \in Seq(Entry) /\ Len(a \o b) = Len(a) + Len(b)
      /\ \A j \in 1..(Len(a) + Len(b)) : (a \o b)[j] = IF j <= Len(a) THEN a[j] ELSE b[j - Len(a)]
  BY <1>2, <1>3, ConcatProperties
<1>5. RemoveAt(q, i) = a \o b
  BY DEF RemoveAt, a, b
<1>6. ASSUME NEW j \in 1..(Len(q) - 1)
      PROVE  (a \o b)[j] = q[IF j < i THEN j ELSE j + 1]
  <2>1. CASE j < i
    BY <1>1, <1>2, <1>3, <1>4, <2>1
  <2>2. CASE ~(j < i)
    <3>1. j - (i - 1) \in 1..(Len(q) - i) /\ i + (j - (i - 1)) = j + 1 /\ ~(j <= i - 1)
          /\ j \in 1..(Len(a) + Len(b))
      BY <1>1, <1>2, <1>3, <2>2
    <3>2. (a \o b)[j] = b[j - (i - 1)]
      BY <1>2, <1>4, <3>1
    <3> QED
      BY <1>3, <2>2, <3>1, <3>2
  <2> QED
    BY <2>1, <2>2
<1>7. Len(a) + Len(b) = Len(q) - 1
  BY <1>1, <1>2, <1>3
<1> QED
  BY <1>4, <1>5, <1>6, <1>7

LEMMA RemovedQueue ==
  ASSUME NEW q \in Seq(Entry), NEW i \in 1..Len(q)
  PROVE  Subqueue(RemoveAt(q, i), q)
<1> DEFINE r == RemoveAt(q, i)
           f == [j \in 1..Len(r) |-> IF j < i THEN j ELSE j + 1]
<1>1. Len(q) \in Nat /\ i \in Nat
  BY LenProperties
<1>2. /\ r \in Seq(Entry) /\ Len(r) = Len(q) - 1
      /\ \A j \in 1..Len(r) : r[j] = q[IF j < i THEN j ELSE j + 1]
  BY Removed
<1> HIDE DEF r
<1>3. f \in [1..Len(r) -> 1..Len(q)] /\ \A j \in 1..Len(r) : f[j] = IF j < i THEN j ELSE j + 1
  BY <1>1, <1>2
<1> HIDE DEF f
<1>4. \A j, k \in 1..Len(r) : f[j] = f[k] => j = k
  BY <1>1, <1>3
<1>5. \A j \in 1..Len(r) : r[j] = q[f[j]]
  BY <1>2, <1>3
<1> QED
  <2>1. Len(r) <= Len(q)
    BY <1>1, <1>2
  <2>2. r \in Seq(Entry)
    BY <1>2
  <2>3. Subqueue(r, q)
    BY <2>1, <2>2, <1>3, <1>4, <1>5 DEF Subqueue
  <2> QED
    BY <2>3 DEF r

-----------------------------------------------------------------------------
(* The queues and the topic.                                               *)

\* produce() into p's queue.
Sends(p, e) == topic' = topic /\ Produce(p, e)

\* The broker takes p's message at i.
Stores(p, i) ==
  /\ ~outbox[p][i].stored
  /\ topic' = Append(topic, outbox[p][i].event)
  /\ outbox' = [outbox EXCEPT ![p][i].stored = TRUE]

QueueStep ==
  \/ topic' = topic /\ \A p \in Clients : Subqueue(outbox'[p], outbox[p])
  \/ \E w \in InScope : Sends("ingestion", w)
  \/ \E m \in Simulators : sims[m].pc = "emit" /\ sims' = [sims EXCEPT ![m].pc = "flush"]
                             /\ Sends(m, sims[m].event)
  \/ \E p \in Clients : \E i \in DOMAIN outbox[p] : Stores(p, i)

LEMMA Shortened ==
  ASSUME outbox \in [Clients -> Seq(Entry)], NEW p \in Clients, NEW r, Subqueue(r, outbox[p]),
         outbox' = [outbox EXCEPT ![p] = r], topic' = topic
  PROVE  QueueStep /\ outbox' \in [Clients -> Seq(Entry)]
<1>1. \A c \in Clients : Subqueue(outbox'[c], outbox[c])
  BY SameQueue
<1>2. r \in Seq(Entry)
  BY DEF Subqueue
<1> QED
  BY <1>1, <1>2 DEF QueueStep

LEMMA Emptied ==
  ASSUME ProducersInv, NEW p \in Clients, outbox' = [outbox EXCEPT ![p] = <<>>], topic' = topic
  PROVE  QueueStep /\ outbox' \in [Clients -> Seq(Entry)]
<1>1. outbox \in [Clients -> Seq(Entry)]
  BY DEF ProducersInv, QueuesInv, Entry
<1> QED
  BY <1>1, Shortened, SameQueue

LEMMA QueueSteps ==
  ASSUME ProducersInv, [Next]_vars
  PROVE  QueueStep /\ outbox' \in [Clients -> Seq(Entry)]
<1>1. outbox \in [Clients -> Seq(Entry)]
  BY DEF ProducersInv, QueuesInv, Entry
<1>2. (topic' = topic /\ outbox' = outbox) => QueueStep /\ outbox' \in [Clients -> Seq(Entry)]
  BY <1>1, SameQueue DEF QueueStep
<1>3. ASSUME NEW w \in Webhooks, Enqueue(w)
      PROVE  QueueStep /\ outbox' \in [Clients -> Seq(Entry)]
  <2>1. CASE UNCHANGED outbox
    BY <1>2, <1>3, <2>1 DEF Enqueue
  <2>2. CASE Produce("ingestion", w)
    <3>1. w \in InScope /\ topic' = topic
      BY <1>3 DEF Enqueue, InScope
    <3>2. QueueStep
      BY <3>1, <2>2 DEF QueueStep, Sends
    <3>3. [event |-> w, stored |-> FALSE] \in Entry /\ "ingestion" \in Clients
      BY DEF Entry, Published, Clients
    <3> QED
      BY <1>1, <3>2, <3>3, <2>2 DEF Produce
  <2> QED
    BY <1>3, <2>1, <2>2 DEF Enqueue
<1>4. ASSUME NEW m \in Simulators, Emit(m)
      PROVE  QueueStep /\ outbox' \in [Clients -> Seq(Entry)]
  <2>1. QueueStep
    BY <1>4 DEF QueueStep, Sends, Emit
  <2>2. sims[m].event \in MerchantEvents
    BY <1>4 DEF Emit, ProducersInv, SimsInv
  <2>3. [event |-> sims[m].event, stored |-> FALSE] \in Entry /\ m \in Clients
    BY <2>2 DEF Entry, Published, MerchantEvents, Clients
  <2> QED
    BY <1>1, <1>4, <2>1, <2>3 DEF Emit, Produce
<1>5. ASSUME NEW p \in Clients, Store(p)
      PROVE  QueueStep /\ outbox' \in [Clients -> Seq(Entry)]
  <2>1. PICK i \in DOMAIN outbox[p] : Stores(p, i)
    BY <1>5 DEF Store, Stores
  <2>2. QueueStep
    BY <2>1 DEF QueueStep
  <2>3. outbox[p] \in Seq(Entry) /\ i \in 1..Len(outbox[p])
    BY <1>1, LenProperties
  <2>4. outbox[p][i] \in Entry
    BY <2>3, ElementOfSeq
  <2>5. [outbox[p][i] EXCEPT !.stored = TRUE] \in Entry
    BY <2>4 DEF Entry
  <2>6. [outbox[p] EXCEPT ![i] = [outbox[p][i] EXCEPT !.stored = TRUE]] \in Seq(Entry)
    BY <2>3, <2>5, ExceptSeq
  <2>7. outbox' = [outbox EXCEPT ![p] = [outbox[p] EXCEPT ![i] = [outbox[p][i] EXCEPT !.stored = TRUE]]]
    BY <2>1 DEF Stores
  <2> QED
    BY <1>1, <2>2, <2>6, <2>7
<1>6. ASSUME NEW p \in Clients, Acknowledge(p)
      PROVE  QueueStep /\ outbox' \in [Clients -> Seq(Entry)]
  <2>1. outbox[p] \in Seq(Entry) /\ outbox[p] # <<>> /\ topic' = topic
        /\ outbox' = [outbox EXCEPT ![p] = Tail(outbox[p])]
    BY <1>1, <1>6 DEF Acknowledge
  <2>2. Subqueue(Tail(outbox[p]), outbox[p])
    BY <2>1, Acknowledged
  <2> QED
    BY <1>1, <2>1, <2>2, Shortened
<1>7. ASSUME NEW p \in Clients, FailDelivery(p)
      PROVE  QueueStep /\ outbox' \in [Clients -> Seq(Entry)]
  <2>1. PICK i \in DOMAIN outbox[p] : outbox' = [outbox EXCEPT ![p] = RemoveAt(outbox[p], i)]
    BY <1>7 DEF FailDelivery
  <2>2. outbox[p] \in Seq(Entry) /\ i \in 1..Len(outbox[p]) /\ topic' = topic
    BY <1>1, <1>7, LenProperties DEF FailDelivery
  <2>3. Subqueue(RemoveAt(outbox[p], i), outbox[p])
    BY <2>2, RemovedQueue
  <2> QED
    BY <1>1, <2>1, <2>2, <2>3, Shortened
<1>8. ASSUME CrashIngestion
      PROVE  QueueStep /\ outbox' \in [Clients -> Seq(Entry)]
  BY <1>8, Emptied DEF CrashIngestion, Clients
<1>9. ASSUME NEW m \in Simulators, PublishFails(m) \/ CrashSim(m)
      PROVE  QueueStep /\ outbox' \in [Clients -> Seq(Entry)]
  <2>1. outbox' = [outbox EXCEPT ![m] = <<>>] /\ topic' = topic /\ m \in Clients
    BY <1>9 DEF PublishFails, CrashSim, Restarted, Clients
  <2> QED
    BY <2>1, Emptied
<1>10. ASSUME NEW w \in Webhooks,
              Deliver(w) \/ Refuse(w) \/ Record(w) \/ Recorded(w) \/ Flushed(w) \/ FlushTimeout(w)
       PROVE  topic' = topic /\ outbox' = outbox
  BY <1>10 DEF Deliver, Refuse, Record, Recorded, Flushed, FlushTimeout
<1>11. ASSUME NEW m \in Simulators,
              \/ Poll(m) \/ Create(m) \/ Emitted(m) \/ Commit(m) \/ Scan(m) \/ Scanned(m)
              \/ Rebalance(m) \/ \E o \in Orders : MarkPaid(m, o)
       PROVE  topic' = topic /\ outbox' = outbox
  BY <1>11 DEF Poll, Create, Emitted, Commit, Scan, Scanned, Rebalance, MarkPaid
<1>12. ASSUME \/ \E o \in Orders : FallDue(o)
              \/ UNCHANGED vars
       PROVE  topic' = topic /\ outbox' = outbox
  BY <1>12 DEF FallDue, vars
<1> QED
  BY <1>2, <1>3, <1>4, <1>5, <1>6, <1>7, <1>8, <1>9, <1>10, <1>11, <1>12
  DEF Next, IngestionStep, SimStep

InTopicNext(e) == \E i \in DOMAIN topic' : topic'[i] = e

LEMMA Sources ==
  /\ \A w \in Webhooks : w.source = "razorpay"
  /\ \A e \in MerchantEvents : e.source = "merchant"
  /\ InScope \subseteq Webhooks
BY ProducersAssumption DEF MerchantEvents, MerchantEvent, InScope

LEMMA TopicGrows ==
  ASSUME ProducersInv, QueueStep
  PROVE  /\ topic' \in Seq(Published) /\ Len(topic) \in Nat /\ Len(topic') \in Nat
         /\ Len(topic) <= Len(topic')
         /\ DOMAIN topic = 1..Len(topic) /\ DOMAIN topic' = 1..Len(topic')
         /\ \A i \in DOMAIN topic : topic'[i] = topic[i]
         /\ \A i \in DOMAIN topic' : topic'[i] \in InScope \cup MerchantEvents
         /\ \A e : InTopic(e) => InTopicNext(e)
<1>1. topic \in Seq(Published) /\ Len(topic) \in Nat /\ DOMAIN topic = 1..Len(topic)
      /\ \A i \in DOMAIN topic : topic[i] \in InScope \cup MerchantEvents
  BY LenProperties DEF ProducersInv, TypeOK, QueuesInv
<1>2. CASE topic' = topic
  BY <1>1, <1>2 DEF InTopic, InTopicNext
<1>3. ASSUME NEW p \in Clients, NEW i \in DOMAIN outbox[p], Stores(p, i)
      PROVE  /\ topic' \in Seq(Published) /\ Len(topic') = Len(topic) + 1
             /\ DOMAIN topic' = 1..(Len(topic) + 1)
             /\ \A j \in DOMAIN topic : topic'[j] = topic[j]
             /\ topic'[Len(topic) + 1] \in InScope \cup MerchantEvents
  <2>1. outbox[p][i].event \in InScope \cup MerchantEvents
    BY DEF ProducersInv, QueuesInv
  <2>2. outbox[p][i].event \in Published
    BY <2>1 DEF InScope, MerchantEvents, Published
  <2> QED
    BY <1>1, <1>3, <2>1, <2>2 DEF Stores
<1>4. CASE \E p \in Clients : \E i \in DOMAIN outbox[p] : Stores(p, i)
  BY <1>1, <1>3, <1>4 DEF InTopic, InTopicNext
<1> QED
  BY <1>2, <1>4 DEF QueueStep, Sends

\* The entries of a queue after a step that sends or stores.
LEMMA Sent1 ==
  ASSUME outbox \in [Clients -> Seq(Entry)], NEW p \in Clients, NEW e \in Published, Sends(p, e)
  PROVE  /\ \A c \in Clients \ {p} : outbox'[c] = outbox[c]
         /\ Len(outbox[p]) \in Nat /\ Len(outbox[p]) < QueueLimit
         /\ Len(outbox'[p]) = Len(outbox[p]) + 1
         /\ DOMAIN outbox'[p] = 1..(Len(outbox[p]) + 1) /\ DOMAIN outbox[p] = 1..Len(outbox[p])
         /\ \A i \in DOMAIN outbox[p] : outbox'[p][i] = outbox[p][i]
         /\ outbox'[p][Len(outbox[p]) + 1] = [event |-> e, stored |-> FALSE]
<1>1. outbox[p] \in Seq(Entry) /\ [event |-> e, stored |-> FALSE] \in Entry
  BY DEF Entry
<1>2. outbox' = [outbox EXCEPT ![p] = Append(outbox[p], [event |-> e, stored |-> FALSE])]
      /\ Len(outbox[p]) < QueueLimit
  BY DEF Sends, Produce
<1> QED
  BY <1>1, <1>2, LenProperties

LEMMA Stored1 ==
  ASSUME outbox \in [Clients -> Seq(Entry)], NEW p \in Clients, NEW i \in DOMAIN outbox[p], Stores(p, i)
  PROVE  /\ \A c \in Clients \ {p} : outbox'[c] = outbox[c]
         /\ DOMAIN outbox'[p] = DOMAIN outbox[p] /\ Len(outbox'[p]) = Len(outbox[p])
         /\ \A j \in DOMAIN outbox[p] : j # i => outbox'[p][j] = outbox[p][j]
         /\ outbox'[p][i].event = outbox[p][i].event /\ outbox'[p][i].stored = TRUE
<1>1. outbox[p] \in Seq(Entry) /\ DOMAIN outbox[p] = 1..Len(outbox[p]) /\ i \in 1..Len(outbox[p])
  BY LenProperties
<1>2. outbox[p][i] \in Entry
  BY <1>1, ElementOfSeq
<1>3. [outbox[p][i] EXCEPT !.stored = TRUE] \in Entry
  BY <1>2 DEF Entry
<1>4. outbox' = [outbox EXCEPT ![p] = [outbox[p] EXCEPT ![i] = [outbox[p][i] EXCEPT !.stored = TRUE]]]
  BY DEF Stores
<1>5. outbox'[p] = [outbox[p] EXCEPT ![i] = [outbox[p][i] EXCEPT !.stored = TRUE]]
      /\ \A c \in Clients \ {p} : outbox'[c] = outbox[c]
  BY <1>4
<1>6. outbox'[p] \in Seq(Entry) /\ Len(outbox'[p]) = Len(outbox[p])
      /\ \A j \in 1..Len(outbox[p]) :
           outbox'[p][j] = IF j = i THEN [outbox[p][i] EXCEPT !.stored = TRUE] ELSE outbox[p][j]
  BY <1>1, <1>3, <1>5, ExceptSeq
<1>7. outbox'[p][i] = [outbox[p][i] EXCEPT !.stored = TRUE]
  BY <1>1, <1>6
<1>8. outbox'[p][i].event = outbox[p][i].event /\ outbox'[p][i].stored = TRUE
  BY <1>2, <1>7 DEF Entry
<1>9. DOMAIN outbox'[p] = 1..Len(outbox'[p])
  BY <1>6, LenProperties
<1> QED
  BY <1>1, <1>5, <1>6, <1>8, <1>9

\* What a client publishes.
Publishes(p) == IF p = "ingestion" THEN InScope ELSE MerchantEvents

LEMMA QueueKinds ==
  ASSUME ProducersInv, QueueStep
  PROVE  \/ topic' = topic /\ \A p \in Clients : Subqueue(outbox'[p], outbox[p])
         \/ \E p \in Clients : \E e \in Publishes(p) : Sends(p, e)
         \/ \E p \in Clients : \E i \in DOMAIN outbox[p] : Stores(p, i)
<1>1. ASSUME NEW m \in Simulators, sims[m].pc = "emit"
      PROVE  m \in Clients /\ sims[m].event \in Publishes(m)
  BY <1>1, ProducersAssumption DEF Clients, Publishes, ProducersInv, SimsInv
<1>2. "ingestion" \in Clients /\ Publishes("ingestion") = InScope
  BY DEF Clients, Publishes
<1> QED
  BY <1>1, <1>2 DEF QueueStep

LEMMA QueuesKept ==
  ASSUME ProducersInv, QueueStep, outbox' \in [Clients -> Seq(Entry)]
  PROVE  QueuesInv' /\ \A p \in Clients : Len(outbox'[p]) <= QueueLimit
<1>1. /\ outbox \in [Clients -> Seq(Entry)]
      /\ \A p \in Clients : Len(outbox[p]) \in Nat /\ Len(outbox[p]) <= QueueLimit
                              /\ DOMAIN outbox[p] = 1..Len(outbox[p])
      /\ \A p \in Clients : \A i \in DOMAIN outbox[p] :
           outbox[p][i].event \in Publishes(p) /\ (outbox[p][i].stored => InTopic(outbox[p][i].event))
  BY LenProperties DEF ProducersInv, TypeOK, QueuesInv, Entry, Publishes
<1>2. \A i \in DOMAIN topic' : topic'[i] \in InScope \cup MerchantEvents
  BY TopicGrows
<1>3. \A p \in Clients : Len(outbox'[p]) \in Nat /\ DOMAIN outbox'[p] = 1..Len(outbox'[p])
  BY LenProperties
<1>4. QueueLimit \in Nat
  BY ProducersAssumption
<1> SUFFICES ASSUME NEW p \in Clients
             PROVE  /\ Len(outbox'[p]) <= QueueLimit
                    /\ \A i \in DOMAIN outbox'[p] :
                         /\ outbox'[p][i].event \in Publishes(p)
                         /\ outbox'[p][i].stored => InTopicNext(outbox'[p][i].event)
  BY <1>2 DEF QueuesInv, Entry, Publishes, InTopic, InTopicNext
<1>5. \A e : InTopic(e) => InTopicNext(e)
  BY TopicGrows
<1>6. CASE topic' = topic /\ \A c \in Clients : Subqueue(outbox'[c], outbox[c])
  <2>1. Len(outbox'[p]) <= Len(outbox[p])
    BY <1>6 DEF Subqueue
  <2>2. \A i \in DOMAIN outbox'[p] : \E j \in DOMAIN outbox[p] : outbox'[p][i] = outbox[p][j]
    <3>1. \A i \in 1..Len(outbox'[p]) : \E j \in 1..Len(outbox[p]) : outbox'[p][i] = outbox[p][j]
      BY <1>6, SubqueueEntries
    <3> QED
      BY <1>1, <1>3, <3>1
  <2> QED
    BY <1>1, <1>3, <1>4, <1>5, <2>1, <2>2
<1>7. ASSUME NEW c \in Clients, NEW e \in Publishes(c), Sends(c, e)
      PROVE  /\ Len(outbox'[p]) <= QueueLimit
             /\ \A i \in DOMAIN outbox'[p] :
                  /\ outbox'[p][i].event \in Publishes(p)
                  /\ outbox'[p][i].stored => InTopicNext(outbox'[p][i].event)
  <2>1. e \in Published
    BY DEF Publishes, InScope, MerchantEvents, Published
  <2>2. CASE p # c
    <3>1. outbox'[p] = outbox[p]
      BY <1>1, <1>7, <2>1, <2>2, Sent1
    <3> QED
      BY <1>1, <1>5, <3>1
  <2>3. CASE p = c
    <3>1. Len(outbox'[p]) = Len(outbox[p]) + 1 /\ Len(outbox[p]) < QueueLimit
      BY <1>1, <1>7, <2>1, <2>3, Sent1
    <3>2. ASSUME NEW i \in DOMAIN outbox'[p]
          PROVE  /\ outbox'[p][i].event \in Publishes(p)
                 /\ outbox'[p][i].stored => InTopicNext(outbox'[p][i].event)
      <4>1. \/ i \in DOMAIN outbox[p] /\ outbox'[p][i] = outbox[p][i]
            \/ outbox'[p][i] = [event |-> e, stored |-> FALSE]
        <5>1. /\ DOMAIN outbox'[c] = 1..(Len(outbox[c]) + 1) /\ DOMAIN outbox[c] = 1..Len(outbox[c])
              /\ \A j \in DOMAIN outbox[c] : outbox'[c][j] = outbox[c][j]
              /\ outbox'[c][Len(outbox[c]) + 1] = [event |-> e, stored |-> FALSE]
              /\ Len(outbox[c]) \in Nat
          BY <1>1, <1>7, <2>1, Sent1
        <5> QED
          BY <2>3, <3>2, <5>1
      <4> QED
        BY <1>1, <1>5, <2>3, <4>1
    <3> QED
      BY <1>1, <1>4, <3>1, <3>2
  <2> QED
    BY <2>2, <2>3
<1>8. ASSUME NEW c \in Clients, NEW i \in DOMAIN outbox[c], Stores(c, i)
      PROVE  /\ Len(outbox'[p]) <= QueueLimit
             /\ \A j \in DOMAIN outbox'[p] :
                  /\ outbox'[p][j].event \in Publishes(p)
                  /\ outbox'[p][j].stored => InTopicNext(outbox'[p][j].event)
  <2>1. CASE p # c
    <3>1. outbox'[p] = outbox[p]
      BY <1>1, <1>8, <2>1, Stored1
    <3> QED
      BY <1>1, <1>5, <3>1
  <2>2. CASE p = c
    <3>1. InTopicNext(outbox[c][i].event)
      <4>1. topic \in Seq(Published) /\ outbox[c][i].event \in Published
        <5>1. outbox[c][i].event \in Publishes(c)
          BY <1>1
        <5> QED
          BY <5>1 DEF ProducersInv, TypeOK, Publishes, InScope, MerchantEvents, Published
      <4>2. topic' = Append(topic, outbox[c][i].event)
        BY <1>8 DEF Stores
      <4>3. Len(topic) + 1 \in DOMAIN topic' /\ topic'[Len(topic) + 1] = outbox[c][i].event
        BY <4>1, <4>2
      <4> QED
        BY <4>3 DEF InTopicNext
    <3>2. /\ DOMAIN outbox'[c] = DOMAIN outbox[c] /\ Len(outbox'[c]) = Len(outbox[c])
          /\ \A j \in DOMAIN outbox[c] : j # i => outbox'[c][j] = outbox[c][j]
          /\ outbox'[c][i].event = outbox[c][i].event
      BY <1>1, <1>8, Stored1
    <3>3. ASSUME NEW j \in DOMAIN outbox'[c]
          PROVE  /\ outbox'[c][j].event \in Publishes(c)
                 /\ outbox'[c][j].stored => InTopicNext(outbox'[c][j].event)
      BY <1>1, <1>5, <3>1, <3>2
    <3> QED
      BY <1>1, <2>2, <3>2, <3>3
  <2> QED
    BY <2>1, <2>2
<1> QED
  BY <1>6, <1>7, <1>8, QueueKinds

-----------------------------------------------------------------------------
(* The merchant's orders.                                                  *)

MerchantStep(o) ==
  \/ merchants'[o] = merchants[o]
  \/ merchants[o] = Null /\ \E profile \in Profiles : merchants'[o] = Tracked(profile)
  \/ /\ Pays(o) /\ merchants[o].status = "pending"
     /\ merchants'[o] = [merchants[o] EXCEPT !.status = "paid", !.next = Null]
  \/ /\ merchants[o] # Null /\ merchants[o].next = "later"
     /\ merchants'[o] = [merchants[o] EXCEPT !.next = "due"]

LEMMA SimFacts ==
  ASSUME ProducersInv, NEW m \in Simulators
  PROVE  /\ sims \in [Simulators -> SimState] /\ sims[m] \in SimState
         /\ sims[m].pc = "create" =>
              /\ sims[m].at \in DOMAIN topic /\ sims[m].at > 0
              /\ SimOrder(m) \in Orders /\ sims[m].profile \in Profiles
         /\ sims[m].due \subseteq Orders /\ \A o \in sims[m].due : Pays(o)
         /\ sims[m].at \in 0..Len(topic) /\ Len(topic) \in Nat
<1>1. sims \in [Simulators -> SimState] /\ sims[m] \in SimState
  BY DEF ProducersInv, SimsInv
<1>2. topic \in Seq(Published) /\ DOMAIN topic = 1..Len(topic) /\ Len(topic) \in Nat
  BY LenProperties DEF ProducersInv, TypeOK
<1>3. sims[m].pc = "create" =>
        /\ sims[m].at \in DOMAIN topic /\ topic[sims[m].at] \in InScope /\ sims[m].profile \in Profiles
  BY DEF ProducersInv, SimsInv
<1>4. \A w \in InScope : w.order \in Orders
  BY ProducersAssumption DEF InScope
<1>5. \A o \in sims[m].due : Pays(o)
  BY DEF ProducersInv, SimsInv
<1>6. sims[m].due \subseteq Orders /\ sims[m].at \in 0..Len(topic)
  BY DEF ProducersInv, TypeOK
<1> QED
  BY <1>1, <1>2, <1>3, <1>4, <1>5, <1>6 DEF SimOrder

LEMMA MerchantSteps ==
  ASSUME ProducersInv, [Next]_vars
  PROVE  merchants' \in [Orders -> MerchantRecord \cup {Null}] /\ \A o \in Orders : MerchantStep(o)
<1>1. merchants \in [Orders -> MerchantRecord \cup {Null}]
  BY DEF ProducersInv, TypeOK
<1>2. merchants' = merchants =>
        merchants' \in [Orders -> MerchantRecord \cup {Null}] /\ \A o \in Orders : MerchantStep(o)
  BY <1>1 DEF MerchantStep
<1>3. ASSUME NEW m \in Simulators, Create(m)
      PROVE  merchants' \in [Orders -> MerchantRecord \cup {Null}] /\ \A o \in Orders : MerchantStep(o)
  <2>1. SimOrder(m) \in Orders /\ sims[m].profile \in Profiles
    BY <1>3, SimFacts DEF Create
  <2>2. Tracked(sims[m].profile) \in MerchantRecord
    BY <2>1 DEF Tracked, MerchantRecord
  <2>3. merchants' = IF merchants[SimOrder(m)] = Null
                     THEN [merchants EXCEPT ![SimOrder(m)] = Tracked(sims[m].profile)] ELSE merchants
    BY <1>3 DEF Create
  <2> QED
    BY <1>1, <2>1, <2>2, <2>3 DEF MerchantStep
<1>4. ASSUME NEW m \in Simulators, NEW o \in Orders, MarkPaid(m, o)
      PROVE  merchants' \in [Orders -> MerchantRecord \cup {Null}]
             /\ \A x \in Orders : MerchantStep(x)
  <2>1. CASE merchants' = merchants
    BY <1>2, <2>1
  <2>2. CASE merchants' # merchants
    <3>1. merchants' = [merchants EXCEPT ![o] = [merchants[o] EXCEPT !.status = "paid", !.next = Null]]
          /\ merchants[o].status = "pending" /\ o \in sims[m].due
      BY <1>4, <2>2 DEF MarkPaid, Marked
    <3>2. Pays(o)
      BY <3>1, SimFacts
    <3>3. merchants[o] \in MerchantRecord
      BY <1>1, <3>2 DEF Pays
    <3>4. [merchants[o] EXCEPT !.status = "paid", !.next = Null] \in MerchantRecord
      BY <3>3 DEF MerchantRecord
    <3> QED
      BY <1>1, <3>1, <3>2, <3>4 DEF MerchantStep
  <2> QED
    BY <2>1, <2>2
<1>5. ASSUME NEW o \in Orders, FallDue(o)
      PROVE  merchants' \in [Orders -> MerchantRecord \cup {Null}]
             /\ \A x \in Orders : MerchantStep(x)
  <2>1. merchants[o] \in MerchantRecord
    BY <1>1, <1>5 DEF FallDue
  <2>2. [merchants[o] EXCEPT !.next = "due"] \in MerchantRecord
    BY <2>1 DEF MerchantRecord
  <2>3. merchants' = [merchants EXCEPT ![o] = [merchants[o] EXCEPT !.next = "due"]]
    BY <1>5 DEF FallDue
  <2> QED
    BY <1>1, <1>5, <2>2, <2>3 DEF MerchantStep, FallDue
<1>6. ASSUME NEW w \in Webhooks,
             \/ Deliver(w) \/ Refuse(w) \/ Record(w) \/ Recorded(w) \/ Enqueue(w) \/ Flushed(w)
             \/ FlushTimeout(w)
      PROVE  merchants' = merchants
  BY <1>6 DEF Deliver, Refuse, Record, Recorded, Enqueue, Flushed, FlushTimeout, simVars
<1>7. ASSUME NEW m \in Simulators,
             \/ Poll(m) \/ Emit(m) \/ Emitted(m) \/ Commit(m) \/ PublishFails(m) \/ CrashSim(m)
             \/ Scan(m) \/ Scanned(m) \/ Rebalance(m)
      PROVE  merchants' = merchants
  BY <1>7
  DEF Poll, Emit, Emitted, Commit, PublishFails, CrashSim, Restarted, Scan, Scanned, Rebalance
<1>8. ASSUME \/ \E p \in Clients : Store(p) \/ Acknowledge(p) \/ FailDelivery(p)
             \/ CrashIngestion \/ UNCHANGED vars
      PROVE  merchants' = merchants
  BY <1>8 DEF Store, Acknowledge, FailDelivery, CrashIngestion, simVars, vars
<1> QED
  BY <1>2, <1>3, <1>4, <1>5, <1>6, <1>7, <1>8 DEF Next, IngestionStep, SimStep

\* What a row keeps for good.
RowKept(o) ==
  /\ merchants[o] # Null =>
       /\ merchants'[o] # Null /\ merchants'[o].profile = merchants[o].profile
       /\ merchants[o].status = "paid" => merchants'[o].status = "paid"
  /\ Pays(o) => Pays(o)'
  /\ (merchants'[o] # Null /\ merchants'[o].next # Null) => Pays(o)'

LEMMA RowsKept ==
  ASSUME ProducersInv, NEW o \in Orders, MerchantStep(o)
  PROVE  RowKept(o)
<1>1. merchants[o] \in MerchantRecord \cup {Null}
  BY DEF ProducersInv, TypeOK
<1>2. Null \notin MerchantRecord
  BY NullAssumption DEF NullAssumption
<1>3. merchants[o] # Null /\ merchants[o].next # Null => Pays(o)
  BY DEF ProducersInv, SimsInv
<1>4. ASSUME NEW profile \in Profiles
      PROVE  Tracked(profile) # Null /\ (Tracked(profile).next # Null => profile \notin {"stuck", "silent"})
             /\ Tracked(profile).profile = profile
  BY <1>2, <1>4 DEF Tracked, MerchantRecord
<1>5. merchants[o] # Null =>
        /\ [merchants[o] EXCEPT !.status = "paid", !.next = Null] \in MerchantRecord
        /\ [merchants[o] EXCEPT !.next = "due"] \in MerchantRecord
  BY <1>1 DEF MerchantRecord
<1>6. CASE merchants'[o] = merchants[o]
  BY <1>3, <1>6 DEF RowKept, Pays
<1>7. CASE merchants[o] = Null /\ \E profile \in Profiles : merchants'[o] = Tracked(profile)
  BY <1>4, <1>7 DEF RowKept, Pays
<1>8. CASE /\ Pays(o) /\ merchants[o].status = "pending"
           /\ merchants'[o] = [merchants[o] EXCEPT !.status = "paid", !.next = Null]
  <2>1. merchants[o] \in MerchantRecord
    BY <1>1, <1>8 DEF Pays
  <2>2. merchants'[o].profile = merchants[o].profile /\ merchants'[o].status = "paid" /\ merchants'[o] # Null
    BY <1>2, <1>5, <1>8, <2>1 DEF MerchantRecord
  <2> QED
    BY <1>8, <2>2 DEF RowKept, Pays
<1>9. CASE /\ merchants[o] # Null /\ merchants[o].next = "later"
           /\ merchants'[o] = [merchants[o] EXCEPT !.next = "due"]
  <2>1. merchants[o] \in MerchantRecord /\ Pays(o)
    BY <1>1, <1>3, <1>9, NullAssumption DEF NullAssumption
  <2>2. merchants'[o].profile = merchants[o].profile /\ merchants'[o].status = merchants[o].status
        /\ merchants'[o] # Null
    BY <1>2, <1>5, <1>9, <2>1 DEF MerchantRecord
  <2> QED
    BY <2>1, <2>2 DEF RowKept, Pays
<1> QED
  BY <1>6, <1>7, <1>8, <1>9 DEF MerchantStep

-----------------------------------------------------------------------------
(* The simulators.                                                         *)

\* A simulator's state that is right after the step.
SimNext(r) ==
  /\ r \in SimState /\ r.at \in 0..Len(topic')
  /\ r.pc = "create" =>
       r.at \in DOMAIN topic' /\ topic'[r.at] \in InScope /\ r.profile \in Profiles
  /\ r.pc = "emit" => r.event \in MerchantEvents
  /\ \A o \in r.due : Pays(o)'

\* What the other lemmas say of the topic and of the rows.
Frames ==
  /\ Len(topic) \in Nat /\ Len(topic') \in Nat /\ Len(topic) <= Len(topic')
  /\ DOMAIN topic = 1..Len(topic) /\ DOMAIN topic' = 1..Len(topic')
  /\ \A i \in DOMAIN topic : topic'[i] = topic[i] /\ topic[i] \in InScope \cup MerchantEvents
  /\ \A o \in Orders : RowKept(o)

LEMMA FramesHold ==
  ASSUME ProducersInv, [Next]_vars
  PROVE  Frames
<1>1. \A o \in Orders : RowKept(o)
  BY MerchantSteps, RowsKept
<1> QED
  BY <1>1, QueueSteps, TopicGrows DEF Frames, ProducersInv, QueuesInv

LEMMA SimUnchanged ==
  ASSUME ProducersInv, Frames, NEW m \in Simulators
  PROVE  SimNext(sims[m]) /\ SimNext(IdleSim)
<1>1. IdleSim \in SimState /\ IdleSim.pc = "idle" /\ IdleSim.at = 0 /\ IdleSim.due = {}
  BY DEF IdleSim, SimState
<1>2. SimNext(IdleSim)
  BY <1>1 DEF SimNext, Frames
<1>3. \A o \in sims[m].due : Pays(o)'
  BY SimFacts DEF Frames, RowKept
<1>4. sims[m].pc = "create" => sims[m].at \in DOMAIN topic' /\ topic'[sims[m].at] \in InScope
                                 /\ sims[m].profile \in Profiles
  BY DEF Frames, ProducersInv, SimsInv
<1>5. sims[m].at \in 0..Len(topic')
  BY SimFacts DEF Frames
<1> QED
  BY <1>2, <1>3, <1>4, <1>5, SimFacts DEF SimNext, ProducersInv, SimsInv

\* One simulator moves.
SimMoves(m) == \E r : SimNext(r) /\ sims' = [sims EXCEPT ![m] = r]

LEMMA SimMoved ==
  ASSUME ProducersInv, Frames, NEW m \in Simulators, SimMoves(m)
  PROVE  sims' \in [Simulators -> SimState] /\ \A n \in Simulators : SimNext(sims'[n])
<1>1. sims \in [Simulators -> SimState]
  BY SimFacts
<1>2. PICK r : SimNext(r) /\ sims' = [sims EXCEPT ![m] = r]
  BY DEF SimMoves
<1>3. r \in SimState
  BY <1>2 DEF SimNext
<1>4. ASSUME NEW n \in Simulators
      PROVE  SimNext(sims'[n])
  <2>1. sims'[n] = IF n = m THEN r ELSE sims[n]
    BY <1>1, <1>2
  <2> QED
    BY <1>2, <2>1, SimUnchanged
<1> QED
  BY <1>1, <1>2, <1>3, <1>4

\* A new state that differs in the counter, the event, the flag or some orders.
LEMMA SimEdited ==
  ASSUME ProducersInv, Frames, NEW m \in Simulators, NEW r \in SimState,
         r.at = sims[m].at, r.due \subseteq sims[m].due,
         r.pc # "create", r.pc = "emit" => r.event \in MerchantEvents
  PROVE  SimNext(r)
<1>1. SimNext(sims[m])
  BY SimUnchanged
<1> QED
  BY <1>1 DEF SimNext

LEMMA PollMoves ==
  ASSUME ProducersInv, Frames, NEW m \in Simulators, Poll(m)
  PROVE  SimMoves(m)
<1>1. committed + 1 \in DOMAIN topic /\ committed + 1 \in Nat /\ topic' = topic
  <2>1. committed \in 0..Len(topic)
    BY DEF ProducersInv, TypeOK
  <2>2. committed < Len(topic) /\ topic' = topic
    BY DEF Poll
  <2> QED
    BY <2>1, <2>2 DEF Frames
<1>2. topic[committed + 1] \in InScope \cup MerchantEvents
  BY <1>1 DEF Frames
<1>3. CASE IsCapture(topic[committed + 1])
  <2>1. topic[committed + 1] \in InScope
    BY <1>2, <1>3, Sources DEF IsCapture
  <2>2. PICK profile \in Profiles :
          sims' = [sims EXCEPT ![m] =
                     [IdleSim EXCEPT !.pc = "create", !.at = committed + 1, !.profile = profile]]
    BY <1>3 DEF Poll
  <2> DEFINE r == [IdleSim EXCEPT !.pc = "create", !.at = committed + 1, !.profile = profile]
  <2>3. /\ r \in SimState /\ r.pc = "create" /\ r.at = committed + 1 /\ r.profile = profile
        /\ r.due = {}
    BY <1>1 DEF IdleSim, SimState
  <2> HIDE DEF r
  <2>4. SimNext(r)
    BY <1>1, <2>1, <2>3 DEF SimNext, Frames
  <2>5. sims' = [sims EXCEPT ![m] = r]
    BY <2>2 DEF r
  <2> QED
    BY <2>4, <2>5 DEF SimMoves
<1>4. CASE ~IsCapture(topic[committed + 1])
  <2> DEFINE r == [IdleSim EXCEPT !.pc = "commit", !.at = committed + 1]
  <2>1. r \in SimState /\ r.pc = "commit" /\ r.at = committed + 1 /\ r.due = {}
    BY <1>1 DEF IdleSim, SimState
  <2>2. sims' = [sims EXCEPT ![m] = r]
    BY <1>4 DEF Poll
  <2> HIDE DEF r
  <2>3. SimNext(r)
    BY <1>1, <2>1 DEF SimNext, Frames
  <2> QED
    BY <2>2, <2>3 DEF SimMoves
<1> QED
  BY <1>3, <1>4

LEMMA CreateMoves ==
  ASSUME ProducersInv, Frames, NEW m \in Simulators, Create(m)
  PROVE  SimMoves(m)
<1> DEFINE o == SimOrder(m)
           e == MerchantEvent(o, "pending")
           a == [sims[m] EXCEPT !.pc = "emit", !.event = e]
           b == [sims[m] EXCEPT !.pc = "commit"]
<1>1. o \in Orders /\ sims[m] \in SimState
  BY SimFacts DEF Create
<1>2. e \in MerchantEvents /\ e \in Published
  BY <1>1 DEF MerchantEvents, Published
<1> HIDE DEF e
<1>3. a \in SimState /\ a.at = sims[m].at /\ a.due = sims[m].due /\ a.pc = "emit" /\ a.event = e
  BY <1>1, <1>2 DEF SimState
<1>4. b \in SimState /\ b.at = sims[m].at /\ b.due = sims[m].due /\ b.pc = "commit"
  BY <1>1 DEF SimState
<1>5. sims' = [sims EXCEPT ![m] = a] \/ sims' = [sims EXCEPT ![m] = b]
  BY DEF Create, e
<1> HIDE DEF a, b
<1>6. SimNext(a) /\ SimNext(b)
  BY <1>2, <1>3, <1>4, SimEdited
<1> QED
  BY <1>5, <1>6 DEF SimMoves

LEMMA EmitMoves ==
  ASSUME ProducersInv, Frames, NEW m \in Simulators, Emit(m) \/ Emitted(m)
  PROVE  SimMoves(m)
<1> DEFINE a == [sims[m] EXCEPT !.pc = "flush"]
           b == [sims[m] EXCEPT !.pc = "commit", !.event = Null]
           c == [sims[m] EXCEPT !.pc = "scan", !.event = Null]
<1>1. sims[m] \in SimState
  BY SimFacts
<1>2. a \in SimState /\ a.at = sims[m].at /\ a.due = sims[m].due /\ a.pc = "flush"
  BY <1>1 DEF SimState
<1>3. b \in SimState /\ b.at = sims[m].at /\ b.due = sims[m].due /\ b.pc = "commit"
  BY <1>1 DEF SimState
<1>4. c \in SimState /\ c.at = sims[m].at /\ c.due = sims[m].due /\ c.pc = "scan"
  BY <1>1 DEF SimState
<1>5. \/ sims' = [sims EXCEPT ![m] = a] \/ sims' = [sims EXCEPT ![m] = b]
      \/ sims' = [sims EXCEPT ![m] = c]
  BY DEF Emit, Emitted
<1> HIDE DEF a, b, c
<1>6. SimNext(a) /\ SimNext(b) /\ SimNext(c)
  BY <1>2, <1>3, <1>4, SimEdited
<1> QED
  BY <1>5, <1>6 DEF SimMoves

LEMMA ScanMoves ==
  ASSUME ProducersInv, Frames, NEW m \in Simulators, Scan(m)
  PROVE  SimMoves(m)
<1> DEFINE due == {o \in Orders : merchants[o] # Null /\ merchants[o].next = "due"}
           r   == [IdleSim EXCEPT !.pc = "scan", !.due = due]
<1>1. \A o \in due : Pays(o)
  BY NullAssumption DEF NullAssumption, ProducersInv, SimsInv
<1>2. \A o \in due : Pays(o)'
  BY <1>1 DEF Frames, RowKept
<1>3. due \subseteq Orders
  OBVIOUS
<1>4. sims' = [sims EXCEPT ![m] = r]
  BY DEF Scan
<1> HIDE DEF due
<1>5. r \in SimState /\ r.pc = "scan" /\ r.due = due /\ r.at = 0
  BY <1>3 DEF IdleSim, SimState
<1> HIDE DEF r
<1>6. SimNext(r)
  BY <1>2, <1>5 DEF SimNext, Frames
<1> QED
  BY <1>4, <1>6 DEF SimMoves

LEMMA MarkPaidMoves ==
  ASSUME ProducersInv, Frames, NEW m \in Simulators, NEW o \in Orders, MarkPaid(m, o)
  PROVE  SimMoves(m)
<1> DEFINE e   == MerchantEvent(o, "paid")
           due == sims[m].due \ {o}
           a   == [sims[m] EXCEPT !.pc = "emit", !.event = e, !.due = due]
           b   == [sims[m] EXCEPT !.due = due]
<1>1. sims[m] \in SimState /\ sims[m].pc = "scan" /\ due \subseteq sims[m].due /\ due \subseteq Orders
  BY SimFacts DEF MarkPaid
<1>2. e \in MerchantEvents /\ e \in Published
  BY DEF MerchantEvents, Published
<1>3. sims' = [sims EXCEPT ![m] = a] \/ sims' = [sims EXCEPT ![m] = b]
  BY SimFacts DEF MarkPaid
<1> HIDE DEF e, due
<1>4. a \in SimState /\ a.at = sims[m].at /\ a.due = due /\ a.pc = "emit" /\ a.event = e
  BY <1>1, <1>2 DEF SimState
<1>5. b \in SimState /\ b.at = sims[m].at /\ b.due = due /\ b.pc = "scan"
  BY <1>1 DEF SimState
<1> HIDE DEF a, b
<1>6. SimNext(a) /\ SimNext(b)
  BY <1>1, <1>2, <1>4, <1>5, SimEdited
<1> QED
  BY <1>3, <1>6 DEF SimMoves

LEMMA RestMoves ==
  ASSUME ProducersInv, Frames, NEW m \in Simulators,
         Commit(m) \/ Scanned(m) \/ PublishFails(m) \/ CrashSim(m)
  PROVE  SimMoves(m)
BY SimUnchanged DEF Commit, Scanned, PublishFails, CrashSim, Restarted, SimMoves

LEMMA FailMoves ==
  ASSUME ProducersInv, Frames, NEW p \in Clients, FailDelivery(p), sims' # sims
  PROVE  p \in Simulators /\ sims[p].pc = "flush" /\ SimMoves(p)
         /\ sims' = [sims EXCEPT ![p].failed = TRUE]
<1>1. p \in Simulators /\ sims[p].pc = "flush" /\ sims' = [sims EXCEPT ![p].failed = TRUE]
  BY DEF FailDelivery
<1> DEFINE r == [sims[p] EXCEPT !.failed = TRUE]
<1>2. sims[p] \in SimState
  BY <1>1, SimFacts
<1>3. r \in SimState /\ r.at = sims[p].at /\ r.due = sims[p].due /\ r.pc = "flush"
  BY <1>1, <1>2 DEF SimState
<1>4. sims' = [sims EXCEPT ![p] = r]
  BY <1>1
<1> HIDE DEF r
<1>5. SimNext(r)
  BY <1>1, <1>3, SimEdited
<1> QED
  BY <1>1, <1>4, <1>5 DEF SimMoves

LEMMA SimsStill ==
  ASSUME [Next]_vars
  PROVE  \/ sims' = sims
         \/ \E m \in Simulators :
              \/ Poll(m) \/ Create(m) \/ Emit(m) \/ Emitted(m) \/ Commit(m) \/ Scan(m) \/ Scanned(m)
              \/ PublishFails(m) \/ CrashSim(m) \/ \E o \in Orders : MarkPaid(m, o)
         \/ \E p \in Clients : FailDelivery(p)
<1>1. ASSUME NEW w \in Webhooks,
             \/ Deliver(w) \/ Refuse(w) \/ Record(w) \/ Recorded(w) \/ Enqueue(w) \/ Flushed(w)
             \/ FlushTimeout(w)
      PROVE  sims' = sims
  BY <1>1 DEF Deliver, Refuse, Record, Recorded, Enqueue, Flushed, FlushTimeout, simVars
<1>2. ASSUME \/ \E p \in Clients : Store(p) \/ Acknowledge(p)
             \/ \E m \in Simulators : Rebalance(m)
             \/ \E o \in Orders : FallDue(o)
             \/ CrashIngestion \/ UNCHANGED vars
      PROVE  sims' = sims
  BY <1>2 DEF Store, Acknowledge, Rebalance, FallDue, CrashIngestion, simVars, vars
<1> QED
  BY <1>1, <1>2 DEF Next, IngestionStep, SimStep

LEMMA SimsKept ==
  ASSUME ProducersInv, [Next]_vars
  PROVE  /\ SimsInv'
         /\ \A m \in Simulators :
              /\ sims'[m].pc \in {"idle", "create", "emit", "flush", "commit", "scan"}
              /\ sims'[m].at \in 0..Len(topic') /\ sims'[m].due \subseteq Orders
<1>1. Frames
  BY FramesHold
<1>2. sims' \in [Simulators -> SimState] /\ \A m \in Simulators : SimNext(sims'[m])
  <2>1. CASE sims' = sims
    BY <1>1, <2>1, SimUnchanged, SimFacts DEF ProducersInv, SimsInv
  <2>2. CASE \E m \in Simulators : SimMoves(m)
    BY <1>1, <2>2, SimMoved
  <2>3. CASE \E p \in Clients : FailDelivery(p)
    BY <1>1, <2>1, <2>2, <2>3, FailMoves
  <2>4. ASSUME NEW m \in Simulators,
              \/ Poll(m) \/ Create(m) \/ Emit(m) \/ Emitted(m) \/ Commit(m) \/ Scan(m) \/ Scanned(m)
              \/ PublishFails(m) \/ CrashSim(m) \/ \E o \in Orders : MarkPaid(m, o)
        PROVE  SimMoves(m)
    BY <1>1, <2>4, PollMoves, CreateMoves, EmitMoves, ScanMoves, MarkPaidMoves, RestMoves
  <2> QED
    BY <2>1, <2>2, <2>3, <2>4, SimsStill
<1>3. \A o \in Orders : merchants'[o] # Null /\ merchants'[o].next # Null => Pays(o)'
  BY <1>1 DEF Frames, RowKept
<1>4. SimsInv'
  BY <1>2, <1>3 DEF SimsInv, SimNext
<1>5. \A m \in Simulators : sims'[m] \in SimState /\ sims'[m].at \in 0..Len(topic')
  BY <1>2 DEF SimNext
<1> QED
  BY <1>4, <1>5 DEF SimState

-----------------------------------------------------------------------------
(* The webhook handler.                                                    *)

\* w is the newest in the queue.
Newest(w) ==
  outbox["ingestion"] # <<>> /\ outbox["ingestion"][Len(outbox["ingestion"])].event = w

LEMMA IngestionQueue ==
  ASSUME ProducersInv
  PROVE  LET q == outbox["ingestion"] IN
         /\ "ingestion" \in Clients /\ "ingestion" \notin Simulators
         /\ q \in Seq(Entry) /\ Len(q) \in Nat /\ DOMAIN q = 1..Len(q)
         /\ q # <<>> <=> Len(q) > 0
         /\ \A i \in 1..Len(q) : q[i].stored => InTopic(q[i].event)
<1>1. "ingestion" \in Clients /\ "ingestion" \notin Simulators
  BY ProducersAssumption DEF Clients
<1>2. outbox["ingestion"] \in Seq(Entry)
  BY <1>1 DEF ProducersInv, QueuesInv, Entry
<1>3. \A i \in DOMAIN outbox["ingestion"] :
        outbox["ingestion"][i].stored => InTopic(outbox["ingestion"][i].event)
  BY <1>1 DEF ProducersInv, QueuesInv
<1> QED
  BY <1>1, <1>2, <1>3, EmptySeq, LenProperties

\* While the handler waits and is not told of a failure, its event stays in the
\* queue until it is stored.
LEMMA StillAwaited ==
  ASSUME ProducersInv, [Next]_vars, web.pc = "flush", web' = web, ~web.failed
  PROVE  InTopicNext(web.webhook) \/ Newest(web.webhook)'
<1> DEFINE q == outbox["ingestion"]
           w == web.webhook
<1>1. /\ "ingestion" \in Clients /\ "ingestion" \notin Simulators
      /\ q \in Seq(Entry) /\ Len(q) \in Nat /\ DOMAIN q = 1..Len(q)
      /\ q # <<>> <=> Len(q) > 0
      /\ \A i \in 1..Len(q) : q[i].stored => InTopic(q[i].event)
  BY IngestionQueue
<1>2. \A e : InTopic(e) => InTopicNext(e)
  BY QueueSteps, TopicGrows
<1>3. InTopic(w) \/ (Len(q) > 0 /\ q[Len(q)].event = w)
  BY <1>1 DEF ProducersInv, HandlerInv
<1>4. CASE InTopic(w)
  BY <1>2, <1>4
<1>5. CASE Len(q) > 0 /\ q[Len(q)].event = w
  <2>1. CASE outbox'["ingestion"] = outbox["ingestion"]
    BY <1>1, <1>5, <2>1 DEF Newest
  <2>2. CASE Store("ingestion")
    <3>1. PICK i \in DOMAIN q : Stores("ingestion", i)
      BY <2>2 DEF Store, Stores
    <3>2. outbox \in [Clients -> Seq(Entry)]
      BY DEF ProducersInv, QueuesInv, Entry
    <3>3. /\ Len(outbox'["ingestion"]) = Len(q)
          /\ \A j \in DOMAIN q : j # i => outbox'["ingestion"][j] = q[j]
          /\ outbox'["ingestion"][i].event = q[i].event
      BY <1>1, <3>1, <3>2, Stored1
    <3>4. outbox'["ingestion"][Len(q)].event = w
      BY <1>1, <1>5, <3>3
    <3>5. outbox'["ingestion"] # <<>>
      BY <1>5, <3>3, EmptySeq
    <3> QED
      BY <3>3, <3>4, <3>5 DEF Newest
  <2>3. CASE Acknowledge("ingestion")
    <3>1. outbox'["ingestion"] = Tail(q) /\ q # <<>> /\ Head(q).stored
      BY <1>1, <2>3 DEF Acknowledge, ProducersInv, QueuesInv
    <3>2. Tail(q) \in Seq(Entry) /\ Len(Tail(q)) = Len(q) - 1
          /\ \A i \in 1..Len(Tail(q)) : Tail(q)[i] = q[i + 1]
      BY <1>1, <3>1, HeadTailProperties
    <3>3. CASE Len(q) = 1
      <4>1. Head(q) = q[1]
        BY <1>1, <3>1
      <4> QED
        BY <1>1, <1>2, <1>5, <3>1, <3>3, <4>1
    <3>4. CASE Len(q) # 1
      <4> DEFINE n == Len(q)
                 t == Tail(q)
      <4>1. n \in Nat /\ n > 0 /\ n # 1 /\ Len(t) = n - 1 /\ t \in Seq(Entry)
            /\ \A i \in 1..Len(t) : t[i] = q[i + 1]
        BY <1>1, <1>5, <3>2, <3>4
      <4>2. outbox'["ingestion"] = t /\ q[n].event = w
        BY <1>5, <3>1
      <4> HIDE DEF n, t, q
      <4>3. n - 1 \in 1..Len(t) /\ (n - 1) + 1 = n
        BY <4>1
      <4>4. t[Len(t)] = q[n]
        BY <4>1, <4>3
      <4>5. t # <<>>
        BY <4>1, <4>3, EmptySeq
      <4> QED
        BY <4>2, <4>4, <4>5 DEF Newest
    <3> QED
      BY <3>3, <3>4
  <2>4. CASE FailDelivery("ingestion")
    <3>1. PICK i \in DOMAIN q :
            /\ outbox' = [outbox EXCEPT !["ingestion"] = RemoveAt(q, i)]
            /\ web' = IF web.pc = "flush" /\ i = Len(q) THEN [web EXCEPT !.failed = TRUE] ELSE web
      BY <2>4 DEF FailDelivery, Awaited
    <3>2. outbox'["ingestion"] = RemoveAt(q, i)
      BY <1>1, <3>1 DEF ProducersInv, QueuesInv
    <3>3. i # Len(q)
      <4>1. web \in [pc : {"idle", "check", "recorded", "flush"}, webhook : Webhooks \cup {Null},
                     failed : BOOLEAN]
        BY DEF ProducersInv, TypeOK
      <4>2. [web EXCEPT !.failed = TRUE].failed = TRUE
        BY <4>1
      <4> QED
        BY <3>1, <4>2
    <3>4. /\ RemoveAt(q, i) \in Seq(Entry) /\ Len(RemoveAt(q, i)) = Len(q) - 1
          /\ \A j \in 1..(Len(q) - 1) : RemoveAt(q, i)[j] = q[IF j < i THEN j ELSE j + 1]
      BY <1>1, Removed
    <3>5. Len(q) - 1 \in 1..(Len(q) - 1) /\ ~(Len(q) - 1 < i) /\ (Len(q) - 1) + 1 = Len(q)
      BY <1>1, <1>5, <3>3
    <3>6. RemoveAt(q, i)[Len(q) - 1] = q[Len(q)]
      BY <3>4, <3>5
    <3>7. RemoveAt(q, i) # <<>>
      BY <3>4, <3>5, EmptySeq
    <3> QED
      BY <1>5, <3>2, <3>4, <3>6, <3>7 DEF Newest
  <2>5. ASSUME NEW x \in Webhooks,
               \/ Deliver(x) \/ Refuse(x) \/ Record(x) \/ Recorded(x) \/ Enqueue(x) \/ Flushed(x)
               \/ FlushTimeout(x)
        PROVE  outbox' = outbox
    BY <2>5 DEF Deliver, Refuse, Record, Recorded, Enqueue, Flushed, FlushTimeout
  <2>6. ~CrashIngestion
    BY DEF CrashIngestion, IdleWeb
  <2>7. ASSUME NEW m \in Simulators,
               \/ Poll(m) \/ Create(m) \/ Emitted(m) \/ Commit(m)
               \/ Scan(m) \/ Scanned(m) \/ Rebalance(m) \/ \E o \in Orders : MarkPaid(m, o)
        PROVE  outbox' = outbox
    BY <2>7 DEF Poll, Create, Emitted, Commit, Scan, Scanned, Rebalance, MarkPaid
  <2>8. ASSUME NEW m \in Simulators, Emit(m) \/ PublishFails(m) \/ CrashSim(m)
        PROVE  outbox'["ingestion"] = outbox["ingestion"]
    <3>1. outbox \in [Clients -> Seq(Entry)] /\ m # "ingestion"
      BY <1>1 DEF ProducersInv, QueuesInv, Entry
    <3> QED
      BY <1>1, <2>8, <3>1 DEF Emit, Produce, PublishFails, CrashSim, Restarted
  <2>9. ASSUME NEW p \in Clients, p # "ingestion", Store(p) \/ Acknowledge(p) \/ FailDelivery(p)
        PROVE  outbox'["ingestion"] = outbox["ingestion"]
    <3>1. outbox \in [Clients -> Seq(Entry)]
      BY DEF ProducersInv, QueuesInv, Entry
    <3> QED
      BY <1>1, <2>9, <3>1 DEF Store, Acknowledge, FailDelivery
  <2>10. ASSUME (\E o \in Orders : FallDue(o)) \/ UNCHANGED vars
         PROVE  outbox' = outbox
    BY <2>10 DEF FallDue, vars
  <2> QED
    BY <2>1, <2>2, <2>3, <2>4, <2>5, <2>6, <2>7, <2>8, <2>9, <2>10
    DEF Next, IngestionStep, SimStep
<1> QED
  BY <1>3, <1>4, <1>5

LEMMA WebFacts ==
  ASSUME ProducersInv
  PROVE  /\ web.pc \in {"idle", "check", "recorded", "flush"} /\ web.failed \in BOOLEAN
         /\ web = [pc |-> web.pc, webhook |-> web.webhook, failed |-> web.failed]
         /\ outOfScope \in [Webhooks -> Nat] /\ answered \subseteq Webhooks
         /\ \A w \in Webhooks : outOfScope[w] <= 1 /\ (w \in Forged => outOfScope[w] = 0)
BY DEF ProducersInv, TypeOK, HandlerInv, OutOfScopeCountedOnce, AcceptedIsDurable

\* What a step can do to the handler, apart from the queue.
WebStep ==
  \/ web' = web /\ answered' = answered /\ outOfScope' = outOfScope
  \/ web' = IdleWeb /\ answered' = answered /\ outOfScope' = outOfScope
  \/ \E w \in Webhooks :
       /\ web' = [pc |-> "check", webhook |-> w, failed |-> FALSE]
       /\ answered' = answered /\ outOfScope' = outOfScope
  \/ \E w \in Webhooks : Record(w)
  \/ \E w \in InScope :
       /\ web' = [pc |-> "flush", webhook |-> w, failed |-> FALSE] /\ Newest(w)'
       /\ answered' = answered /\ outOfScope' = outOfScope
  \/ /\ web.pc = "flush" /\ web' = [web EXCEPT !.failed = TRUE]
     /\ answered' = answered /\ outOfScope' = outOfScope
  \/ /\ \/ web.pc = "recorded"
        \/ web.pc = "flush" /\ ~web.failed /\ outbox["ingestion"] = <<>>
     /\ web' = IdleWeb /\ answered' = answered \cup {web.webhook} /\ outOfScope' = outOfScope

LEMMA WebSteps ==
  ASSUME ProducersInv, [Next]_vars
  PROVE  WebStep
<1>1. ASSUME NEW w \in Webhooks, Deliver(w)
      PROVE  WebStep
  BY <1>1 DEF Deliver, IdleWeb, WebStep
<1>2. ASSUME NEW w \in Webhooks, Refuse(w) \/ Recorded(w) \/ Flushed(w) \/ FlushTimeout(w) \/ CrashIngestion
      PROVE  WebStep
  BY <1>2 DEF Refuse, Recorded, Flushed, FlushTimeout, CrashIngestion, Answer, WebStep
<1>3. ASSUME CrashIngestion
      PROVE  WebStep
  BY <1>3 DEF CrashIngestion, WebStep
<1>4. ASSUME NEW w \in Webhooks, Record(w)
      PROVE  WebStep
  BY <1>4 DEF WebStep
<1>5. ASSUME NEW w \in Webhooks, Enqueue(w)
      PROVE  WebStep
  <2>1. CASE UNCHANGED outbox /\ Answer(w, FALSE)
    BY <1>5, <2>1 DEF Enqueue, Answer, WebStep
  <2>2. CASE Produce("ingestion", w) /\ web' = [web EXCEPT !.pc = "flush"] /\ answered' = answered
    <3>1. w \in InScope /\ web.pc = "check" /\ web.webhook = w /\ outOfScope' = outOfScope
          /\ topic' = topic
      BY <1>5 DEF Enqueue, InScope
    <3>2. web.failed = FALSE
      BY <3>1 DEF ProducersInv, HandlerInv
    <3>3. web' = [pc |-> "flush", webhook |-> w, failed |-> FALSE]
      BY <2>2, <3>1, <3>2, WebFacts
    <3>4. /\ Len(outbox["ingestion"]) \in Nat
          /\ Len(outbox'["ingestion"]) = Len(outbox["ingestion"]) + 1
          /\ outbox'["ingestion"][Len(outbox["ingestion"]) + 1] = [event |-> w, stored |-> FALSE]
      <4>1. outbox \in [Clients -> Seq(Entry)] /\ w \in Published /\ "ingestion" \in Clients
        BY <3>1 DEF ProducersInv, QueuesInv, Entry, Published, InScope, Clients
      <4>2. Sends("ingestion", w)
        BY <2>2, <3>1 DEF Sends
      <4> QED
        BY <4>1, <4>2, Sent1
    <3>5. outbox'["ingestion"] # <<>>
      BY <3>4, EmptySeq
    <3>6. Newest(w)'
      BY <3>4, <3>5 DEF Newest
    <3> QED
      BY <2>2, <3>1, <3>3, <3>6 DEF WebStep
  <2> QED
    BY <1>5, <2>1, <2>2 DEF Enqueue
<1>6. ASSUME NEW p \in Clients, FailDelivery(p)
      PROVE  WebStep
  BY <1>6 DEF FailDelivery, WebStep
<1>7. ASSUME NEW m \in Simulators, SimStep(m) \/ CrashSim(m) \/ Rebalance(m)
      PROVE  UNCHANGED webVars
  BY <1>7
  DEF SimStep, Poll, Create, Emit, Emitted, Commit, PublishFails, CrashSim, Restarted, Scan, Scanned,
      MarkPaid, Rebalance
<1>8. ASSUME \/ \E p \in Clients : Store(p) \/ Acknowledge(p)
             \/ \E o \in Orders : FallDue(o)
             \/ UNCHANGED vars
      PROVE  UNCHANGED webVars
  BY <1>8 DEF Store, Acknowledge, FallDue, vars, webVars
<1>9. UNCHANGED webVars => WebStep
  BY DEF webVars, WebStep
<1> QED
  BY <1>1, <1>2, <1>3, <1>4, <1>5, <1>6, <1>7, <1>8, <1>9 DEF Next, IngestionStep

LEMMA Counted ==
  ASSUME ProducersInv, WebStep
  PROVE  /\ outOfScope' \in [Webhooks -> Nat]
         /\ \A w \in Webhooks :
              /\ outOfScope'[w] <= 1 /\ (w \in Forged => outOfScope'[w] = 0)
              /\ outOfScope[w] > 0 => outOfScope'[w] > 0
<1>1. CASE outOfScope' = outOfScope
  BY <1>1, WebFacts
<1>2. ASSUME NEW w \in Webhooks, Record(w)
      PROVE  /\ outOfScope' \in [Webhooks -> Nat]
             /\ \A x \in Webhooks :
                  /\ outOfScope'[x] <= 1 /\ (x \in Forged => outOfScope'[x] = 0)
                  /\ outOfScope[x] > 0 => outOfScope'[x] > 0
  BY <1>2, WebFacts DEF Record
<1> QED
  BY <1>1, <1>2 DEF WebStep

\* The handler's part of the invariant after a step.
LEMMA HandlerKept ==
  ASSUME ProducersInv, [Next]_vars
  PROVE  /\ HandlerInv'
         /\ web' \in [pc : {"idle", "check", "recorded", "flush"}, webhook : Webhooks \cup {Null},
                      failed : BOOLEAN]
<1>1. WebStep /\ \A e : InTopic(e) => InTopicNext(e)
  BY WebSteps, QueueSteps, TopicGrows
<1>2. outOfScope' \in [Webhooks -> Nat] /\ \A w \in Webhooks : outOfScope[w] > 0 => outOfScope'[w] > 0
  BY <1>1, Counted
<1>3. web \in [pc : {"idle", "check", "recorded", "flush"}, webhook : Webhooks \cup {Null},
               failed : BOOLEAN]
  BY DEF ProducersInv, TypeOK
<1> DEFINE
      Typed == web' \in [pc : {"idle", "check", "recorded", "flush"}, webhook : Webhooks \cup {Null},
                         failed : BOOLEAN]
      Known == /\ web'.pc # "idle" => web'.webhook \in Webhooks
               /\ web'.pc = "recorded" =>
                    /\ web'.webhook \notin Forged /\ web'.webhook.order = Null
                    /\ outOfScope'[web'.webhook] > 0
      Fresh == web'.pc = "check" => ~web'.failed
      Waits == web'.pc = "flush" =>
                 /\ web'.webhook \in InScope
                 /\ web'.failed \/ InTopicNext(web'.webhook) \/ Newest(web.webhook)'
      Goal  == Typed /\ Known /\ Fresh /\ Waits
<1>4. ASSUME web' = web
      PROVE  Goal
  <2>1. web.pc = "flush" /\ ~web.failed => InTopicNext(web.webhook) \/ Newest(web.webhook)'
    BY <1>4, StillAwaited
  <2>2. Typed
    BY <1>3, <1>4
  <2>3. Known
    BY <1>2, <1>4 DEF ProducersInv, HandlerInv
  <2>4. Fresh
    BY <1>4, Zenon DEF ProducersInv, HandlerInv
  <2>5. web.pc = "flush" => web.webhook \in InScope
    BY DEF ProducersInv, HandlerInv
  <2>6. Waits
    BY <1>4, <2>1, <2>5, Zenon
  <2> QED
    BY <2>2, <2>3, <2>4, <2>6
<1>5. ASSUME web' = IdleWeb
      PROVE  Goal
  <2>1. Typed /\ web'.pc = "idle"
    BY <1>5 DEF IdleWeb
  <2> QED
    BY <2>1
<1>6. ASSUME NEW w \in Webhooks, web' = [pc |-> "check", webhook |-> w, failed |-> FALSE]
      PROVE  Goal
  <2>1. Typed /\ web'.pc = "check" /\ web'.webhook = w /\ web'.failed = FALSE
    BY <1>6
  <2> QED
    BY <2>1
<1>7. ASSUME NEW w \in Webhooks, Record(w)
      PROVE  Goal
  <2>1. web.pc = "check" /\ web.webhook = w /\ w \notin Forged /\ w.order = Null
        /\ web' = [web EXCEPT !.pc = "recorded"]
    BY <1>7 DEF Record
  <2>2. outOfScope'[w] > 0
    BY <1>7, WebFacts DEF Record
  <2>3. Typed /\ web'.pc = "recorded" /\ web'.webhook = w
    BY <1>3, <2>1
  <2> QED
    BY <2>1, <2>2, <2>3
<1>8. ASSUME NEW w \in InScope, web' = [pc |-> "flush", webhook |-> w, failed |-> FALSE], Newest(w)'
      PROVE  Goal
  <2>1. Typed /\ web'.pc = "flush" /\ web'.webhook = w
    BY <1>8, Sources
  <2>2. Newest(web.webhook)'
    BY <1>8, <2>1 DEF Newest
  <2> QED
    BY <2>1, <2>2, Sources
<1>9. ASSUME web.pc = "flush" /\ web' = [web EXCEPT !.failed = TRUE]
      PROVE  Goal
  <2>1. Typed /\ web'.pc = "flush" /\ web'.webhook = web.webhook /\ web'.failed = TRUE
    BY <1>3, <1>9
  <2>2. web.webhook \in InScope
    BY <1>9 DEF ProducersInv, HandlerInv
  <2> QED
    BY <2>1, <2>2, Sources
<1> HIDE DEF Typed, Known, Fresh, Waits
<1>10. Goal
  BY <1>1, <1>4, <1>5, <1>6, <1>7, <1>8, <1>9 DEF WebStep
<1> QED
  BY <1>2, <1>10 DEF HandlerInv, Newest, InTopic, InTopicNext, Typed, Known, Fresh, Waits

\* A 2xx is given for what is recorded or stored.
LEMMA DurableKept ==
  ASSUME ProducersInv, [Next]_vars
  PROVE  AcceptedIsDurable' /\ OutOfScopeCountedOnce' /\ answered' \subseteq Webhooks
<1>1. WebStep
  BY WebSteps
<1>2. /\ \A e : InTopic(e) => InTopicNext(e)
      /\ \A i \in DOMAIN topic' : topic'[i] \in InScope \cup MerchantEvents
  BY QueueSteps, TopicGrows
<1>3. \A w \in Forged : ~InTopicNext(w)
  <2>1. \A w \in Forged : w \in Webhooks /\ w \notin InScope /\ w \notin MerchantEvents
    BY Sources, ProducersAssumption DEF InScope
  <2> QED
    BY <1>2, <2>1 DEF InTopicNext
<1>4. /\ outOfScope' \in [Webhooks -> Nat]
      /\ \A w \in Webhooks :
           /\ outOfScope'[w] <= 1 /\ (w \in Forged => outOfScope'[w] = 0)
           /\ outOfScope[w] > 0 => outOfScope'[w] > 0
  BY <1>1, Counted
<1> DEFINE Done(w) == w \notin Forged /\ (IF w.order = Null THEN outOfScope'[w] > 0 ELSE InTopicNext(w))
<1>5. \A w \in answered : w \in Webhooks /\ Done(w)
  BY <1>2, <1>4 DEF ProducersInv, TypeOK, AcceptedIsDurable
<1>6. CASE /\ \/ web.pc = "recorded"
              \/ web.pc = "flush" /\ ~web.failed /\ outbox["ingestion"] = <<>>
           /\ answered' = answered \cup {web.webhook}
  <2>1. web.webhook \in Webhooks
    BY <1>6 DEF ProducersInv, HandlerInv
  <2>2. ASSUME web.pc = "recorded"
        PROVE  Done(web.webhook)
    <3>1. /\ web.webhook \notin Forged /\ web.webhook.order = Null
          /\ outOfScope[web.webhook] > 0
      BY <2>2 DEF ProducersInv, HandlerInv
    <3>2. outOfScope'[web.webhook] > 0
      BY <1>4, <2>1, <3>1
    <3> QED
      BY <3>1, <3>2
  <2>3. ASSUME web.pc = "flush" /\ ~web.failed /\ outbox["ingestion"] = <<>>
        PROVE  Done(web.webhook)
    <3>1. web.webhook \in InScope /\ InTopic(web.webhook)
      BY <2>3 DEF ProducersInv, HandlerInv
    <3>2. InTopicNext(web.webhook)
      BY <1>2, <3>1
    <3> QED
      BY <3>1, <3>2 DEF InScope
  <2> HIDE DEF Done
  <2>4. \A w \in answered' : w \in Webhooks /\ Done(w)
    BY <1>5, <1>6, <2>1, <2>2, <2>3
  <2> USE DEF Done
  <2> QED
    BY <1>3, <1>4, <2>4 DEF AcceptedIsDurable, OutOfScopeCountedOnce, InTopic, InTopicNext
<1>7. CASE answered' = answered
  BY <1>3, <1>4, <1>5, <1>7 DEF AcceptedIsDurable, OutOfScopeCountedOnce, InTopic, InTopicNext
<1>8. ASSUME NEW w \in Webhooks, Record(w)
      PROVE  answered' = answered
  BY <1>8 DEF Record
<1> QED
  BY <1>1, <1>6, <1>7, <1>8 DEF WebStep

-----------------------------------------------------------------------------
(* The merchant's reports.                                                 *)

LEMMA EventsDiffer ==
  ASSUME NEW o, NEW x, NEW s, NEW t, MerchantEvent(o, s) = MerchantEvent(x, t)
  PROVE  o = x /\ s = t
<1>1. MerchantEvent(o, s).order = o /\ MerchantEvent(x, t).order = x
  BY DEF MerchantEvent
<1>2. MerchantEvent(o, s).id = <<"merch", o, s>> /\ MerchantEvent(x, t).id = <<"merch", x, t>>
  BY DEF MerchantEvent
<1> QED
  BY <1>1, <1>2

\* What the record has to say for a report.
RowSays(o, s) ==
  /\ merchants[o] # Null /\ merchants[o].profile # "silent"
  /\ s = "paid" => merchants[o].status = "paid"

\* What a step can do to the reports that are being made.
EmitterStep(o, s) ==
  LET e == MerchantEvent(o, s) IN
  \/ Emitters(e)' \subseteq Emitters(e)
  \/ /\ topic' = topic /\ outbox' = outbox /\ ~Reported(e) /\ RowSays(o, s)'
     /\ \E m \in Simulators : Emitters(e)' \subseteq {m}

LEMMA Silenced ==
  ASSUME ProducersInv, NEW m \in Simulators, NEW e,
         \A n \in Simulators \ {m} : sims'[n] = sims[n],
         sims'[m].pc = "emit" => sims'[m].event # e
  PROVE  Emitters(e)' \subseteq Emitters(e)
BY DEF Emitters

LEMMA CreateEmits ==
  ASSUME ProducersInv, NEW m \in Simulators, Create(m),
         NEW o \in Orders, NEW s \in {"pending", "paid"}
  PROVE  EmitterStep(o, s)
<1> DEFINE x == SimOrder(m)
           e == MerchantEvent(o, s)
           f == MerchantEvent(x, "pending")
<1>1. x \in Orders /\ sims[m] \in SimState /\ sims[m].profile \in Profiles
      /\ sims \in [Simulators -> SimState]
  BY SimFacts DEF Create
<1>2. topic' = topic /\ outbox' = outbox
  BY DEF Create
<1>3. \A n \in Simulators \ {m} : sims'[n] = sims[n]
  BY <1>1 DEF Create
<1>4. CASE merchants[x] = Null /\ sims[m].profile # "silent" /\ f = e
  <2>1. o = x /\ s = "pending"
    BY <1>4, EventsDiffer
  <2>2. ~Reported(e)
    BY <1>4, <2>1, NullAssumption DEF ProducersInv, ReportsInv
  <2>3. merchants'[o] = Tracked(sims[m].profile)
    <3>1. merchants \in [Orders -> MerchantRecord \cup {Null}]
      BY DEF ProducersInv, TypeOK
    <3>2. merchants' = [merchants EXCEPT ![x] = Tracked(sims[m].profile)]
      BY <1>4 DEF Create
    <3> QED
      BY <1>1, <2>1, <3>1, <3>2
  <2>4. Tracked(sims[m].profile) # Null /\ Tracked(sims[m].profile).profile = sims[m].profile
    BY <1>1, NullAssumption DEF NullAssumption, Tracked, MerchantRecord
  <2>5. RowSays(o, s)'
    BY <1>4, <2>1, <2>3, <2>4 DEF RowSays
  <2>6. Emitters(e)' \subseteq {m}
    BY <1>3, <2>2 DEF Reported, Emitters
  <2> QED
    BY <1>2, <2>2, <2>5, <2>6 DEF EmitterStep
<1>5. CASE ~(merchants[x] = Null /\ sims[m].profile # "silent" /\ f = e)
  <2>1. \/ sims'[m] = [sims[m] EXCEPT !.pc = "commit"]
        \/ f # e /\ sims'[m] = [sims[m] EXCEPT !.pc = "emit", !.event = f]
    BY <1>1, <1>5 DEF Create
  <2> HIDE DEF f, e
  <2>2. sims'[m].pc = "emit" => sims'[m].event # e
    BY <1>1, <2>1 DEF SimState
  <2>3. Emitters(e)' \subseteq Emitters(e)
    BY <1>3, <2>2, Silenced
  <2> QED
    BY <2>3 DEF EmitterStep, e
<1> QED
  BY <1>4, <1>5

LEMMA MarkPaidEmits ==
  ASSUME ProducersInv, NEW m \in Simulators, NEW x \in Orders, MarkPaid(m, x),
         NEW o \in Orders, NEW s \in {"pending", "paid"}
  PROVE  EmitterStep(o, s)
<1> DEFINE e == MerchantEvent(o, s)
           f == MerchantEvent(x, "paid")
<1>1. sims[m] \in SimState /\ sims \in [Simulators -> SimState] /\ Pays(x) /\ sims[m].pc = "scan"
  BY SimFacts DEF MarkPaid
<1>2. topic' = topic /\ outbox' = outbox
  BY DEF MarkPaid
<1>3. \A n \in Simulators \ {m} : sims'[n] = sims[n]
  BY <1>1 DEF MarkPaid
<1>4. CASE merchants[x].status = "pending" /\ f = e
  <2>1. o = x /\ s = "paid"
    BY <1>4, EventsDiffer
  <2>2. ~Reported(e)
    BY <1>4, <2>1 DEF ProducersInv, ReportsInv
  <2>3. merchants[x] \in MerchantRecord
    BY <1>1 DEF ProducersInv, TypeOK, Pays
  <2>4. merchants'[x] = [merchants[x] EXCEPT !.status = "paid", !.next = Null]
    BY <1>4 DEF MarkPaid, Marked, ProducersInv, TypeOK
  <2>5. merchants'[x] \in MerchantRecord /\ merchants'[x].profile = merchants[x].profile
        /\ merchants'[x].status = "paid"
    BY <2>3, <2>4 DEF MerchantRecord
  <2>6. RowSays(o, s)'
    BY <1>1, <2>1, <2>5, NullAssumption DEF NullAssumption, RowSays, Pays
  <2>7. Emitters(e)' \subseteq {m}
    BY <1>3, <2>2 DEF Reported, Emitters
  <2> QED
    BY <1>2, <2>2, <2>6, <2>7 DEF EmitterStep
<1>5. CASE ~(merchants[x].status = "pending" /\ f = e)
  <2>1. \/ sims'[m].pc = "scan"
        \/ f # e /\ sims'[m].event = f
    BY <1>1, <1>5 DEF MarkPaid, SimState
  <2> HIDE DEF f, e
  <2>2. Emitters(e)' \subseteq Emitters(e)
    BY <1>3, <2>1, Silenced
  <2> QED
    BY <2>2 DEF EmitterStep, e
<1> QED
  BY <1>4, <1>5

LEMMA EmitterSteps ==
  ASSUME ProducersInv, [Next]_vars, NEW o \in Orders, NEW s \in {"pending", "paid"}
  PROVE  EmitterStep(o, s)
<1> DEFINE e == MerchantEvent(o, s)
<1>1. sims \in [Simulators -> SimState]
  BY DEF ProducersInv, SimsInv
<1>2. ASSUME NEW m \in Simulators, \A n \in Simulators \ {m} : sims'[n] = sims[n], sims'[m].pc # "emit"
      PROVE  EmitterStep(o, s)
  BY <1>2, Silenced DEF EmitterStep
<1>3. CASE sims' = sims
  BY <1>3 DEF EmitterStep, Emitters
<1>4. ASSUME NEW m \in Simulators, Poll(m)
      PROVE  EmitterStep(o, s)
  <2>1. sims'[m].pc # "emit" /\ \A n \in Simulators \ {m} : sims'[n] = sims[n]
    BY <1>1, <1>4 DEF Poll, IdleSim
  <2> QED
    BY <1>2, <2>1
<1>5. ASSUME NEW m \in Simulators,
             Emit(m) \/ Emitted(m) \/ Commit(m) \/ Scan(m) \/ Scanned(m) \/ PublishFails(m) \/ CrashSim(m)
      PROVE  EmitterStep(o, s)
  <2>1. sims[m] \in SimState
    BY <1>1
  <2>2. sims'[m].pc # "emit" /\ \A n \in Simulators \ {m} : sims'[n] = sims[n]
    <3>1. CASE Emit(m)
      BY <1>1, <2>1, <3>1 DEF Emit, SimState
    <3>2. CASE Emitted(m)
      BY <1>1, <2>1, <3>2 DEF Emitted, SimState
    <3>3. CASE Scan(m)
      BY <1>1, <3>3 DEF Scan, IdleSim
    <3>4. CASE Commit(m) \/ Scanned(m) \/ PublishFails(m) \/ CrashSim(m)
      <4>1. sims' = [sims EXCEPT ![m] = IdleSim] /\ IdleSim.pc = "idle"
        BY <3>4 DEF Commit, Scanned, PublishFails, CrashSim, Restarted, IdleSim
      <4> QED
        BY <1>1, <4>1
    <3> QED
      BY <1>5, <3>1, <3>2, <3>3, <3>4
  <2> QED
    BY <1>2, <2>2
<1>6. ASSUME NEW p \in Clients, FailDelivery(p), sims' # sims
      PROVE  EmitterStep(o, s)
  <2>1. p \in Simulators /\ sims[p].pc = "flush" /\ sims' = [sims EXCEPT ![p].failed = TRUE]
    BY <1>6 DEF FailDelivery
  <2>2. sims[p] \in SimState
    BY <1>1, <2>1
  <2>3. sims'[p].pc # "emit" /\ \A n \in Simulators \ {p} : sims'[n] = sims[n]
    BY <1>1, <2>1, <2>2 DEF SimState
  <2> QED
    BY <1>2, <2>1, <2>3
<1> QED
  BY <1>3, <1>4, <1>5, <1>6, CreateEmits, MarkPaidEmits, SimsStill

\* What becomes of the reports in the queues.
LEMMA SentThin ==
  ASSUME outbox \in [Clients -> Seq(Entry)], outbox' \in [Clients -> Seq(Entry)],
         NEW p \in Clients, NEW e, Subqueue(outbox'[p], outbox[p])
  PROVE  \E f : /\ \A i \in Sent(p, e)' : f[i] \in Sent(p, e)
                /\ \A i, j \in Sent(p, e)' : f[i] = f[j] => i = j
<1>1. DOMAIN outbox'[p] = 1..Len(outbox'[p]) /\ DOMAIN outbox[p] = 1..Len(outbox[p])
  BY LenProperties
<1>2. PICK f \in [1..Len(outbox'[p]) -> 1..Len(outbox[p])] :
        /\ \A i, j \in 1..Len(outbox'[p]) : f[i] = f[j] => i = j
        /\ \A i \in 1..Len(outbox'[p]) : outbox'[p][i] = outbox[p][f[i]]
  BY DEF Subqueue
<1>3. \A i \in Sent(p, e)' : i \in 1..Len(outbox'[p]) /\ outbox'[p][i].event = e /\ ~outbox'[p][i].stored
  BY <1>1 DEF Sent
<1>4. \A i \in Sent(p, e)' : f[i] \in Sent(p, e)
  BY <1>1, <1>2, <1>3 DEF Sent
<1> QED
  BY <1>2, <1>3, <1>4

LEMMA ThinReports ==
  ASSUME outbox \in [Clients -> Seq(Entry)], outbox' \in [Clients -> Seq(Entry)], topic' = topic,
         NEW e, OneReport(e), Emitters(e)' \subseteq Emitters(e),
         \A p \in Clients : Subqueue(outbox'[p], outbox[p])
  PROVE  OneReport(e)' /\ (Reported(e)' => Reported(e))
<1>1. At(e)' = At(e)
  BY DEF At
<1>2. \A p \in Clients : Sent(p, e)' # {} => Sent(p, e) # {}
  BY SentThin
<1>3. ASSUME NEW p \in Clients, NEW q \in Clients, NEW i \in Sent(p, e)', NEW j \in Sent(q, e)'
      PROVE  p = q /\ i = j
  <2>1. PICK f : /\ \A k \in Sent(p, e)' : f[k] \in Sent(p, e)
                 /\ \A k, l \in Sent(p, e)' : f[k] = f[l] => k = l
    BY SentThin
  <2>2. PICK g : \A k \in Sent(q, e)' : g[k] \in Sent(q, e)
    BY SentThin
  <2>3. p = q
    BY <1>3, <2>1, <2>2 DEF OneReport
  <2>4. f[i] = f[j]
    BY <1>3, <2>1, <2>3 DEF OneReport
  <2> QED
    BY <1>3, <2>1, <2>3, <2>4
<1> QED
  BY <1>1, <1>2, <1>3 DEF OneReport, Reported

LEMMA OtherSent ==
  ASSUME outbox \in [Clients -> Seq(Entry)], NEW p \in Clients, NEW x \in Published, Sends(p, x),
         NEW e, x # e, NEW c \in Clients
  PROVE  Sent(c, e)' = Sent(c, e) /\ At(e)' = At(e)
<1>1. At(e)' = At(e)
  BY DEF At, Sends
<1>2. CASE c # p
  <2>1. outbox'[c] = outbox[c]
    BY <1>2, Sent1
  <2> QED
    BY <1>1, <2>1 DEF Sent
<1>3. CASE c = p
  <2>1. /\ Len(outbox[p]) \in Nat
        /\ DOMAIN outbox'[p] = 1..(Len(outbox[p]) + 1) /\ DOMAIN outbox[p] = 1..Len(outbox[p])
        /\ \A i \in DOMAIN outbox[p] : outbox'[p][i] = outbox[p][i]
        /\ outbox'[p][Len(outbox[p]) + 1] = [event |-> x, stored |-> FALSE]
    BY Sent1
  <2>4. outbox'[p][Len(outbox[p]) + 1].event # e
    BY <2>1
  <2>2. \A i \in DOMAIN outbox'[p] : i \in DOMAIN outbox[p] \/ i = Len(outbox[p]) + 1
    BY <2>1
  <2>3. DOMAIN outbox[p] \subseteq DOMAIN outbox'[p]
    BY <2>1
  <2> QED
    BY <1>1, <1>3, <2>1, <2>2, <2>3, <2>4 DEF Sent
<1> QED
  BY <1>2, <1>3

LEMMA OwnSent ==
  ASSUME outbox \in [Clients -> Seq(Entry)], NEW p \in Clients, NEW e \in Published, Sends(p, e),
         \A c \in Clients : Sent(c, e) = {}
  PROVE  /\ \A c \in Clients \ {p} : Sent(c, e)' = {}
         /\ Sent(p, e)' \subseteq {Len(outbox[p]) + 1}
         /\ At(e)' = At(e)
<1>1. /\ \A c \in Clients \ {p} : outbox'[c] = outbox[c]
      /\ Len(outbox[p]) \in Nat
      /\ DOMAIN outbox'[p] = 1..(Len(outbox[p]) + 1) /\ DOMAIN outbox[p] = 1..Len(outbox[p])
      /\ \A i \in DOMAIN outbox[p] : outbox'[p][i] = outbox[p][i]
  BY Sent1
<1>2. \A c \in Clients \ {p} : Sent(c, e)' = {}
  BY <1>1 DEF Sent
<1>3. \A i \in DOMAIN outbox'[p] : i \in DOMAIN outbox[p] \/ i = Len(outbox[p]) + 1
  BY <1>1
<1>4. Sent(p, e)' \subseteq {Len(outbox[p]) + 1}
  BY <1>1, <1>3 DEF Sent
<1>5. At(e)' = At(e)
  BY DEF At, Sends
<1> QED
  BY <1>2, <1>4, <1>5

LEMMA StoredSent ==
  ASSUME outbox \in [Clients -> Seq(Entry)], NEW p \in Clients, NEW i \in DOMAIN outbox[p],
         Stores(p, i), topic \in Seq(Published), outbox[p][i].event \in Published, NEW e
  PROVE  /\ \A c \in Clients : Sent(c, e)' \subseteq Sent(c, e)
         /\ outbox[p][i].event # e => At(e)' = At(e)
         /\ outbox[p][i].event = e =>
              /\ i \in Sent(p, e) /\ i \notin Sent(p, e)'
              /\ At(e)' \subseteq At(e) \cup {Len(topic) + 1}
<1>1. /\ \A c \in Clients \ {p} : outbox'[c] = outbox[c]
      /\ DOMAIN outbox'[p] = DOMAIN outbox[p]
      /\ \A j \in DOMAIN outbox[p] : j # i => outbox'[p][j] = outbox[p][j]
      /\ outbox'[p][i].event = outbox[p][i].event /\ outbox'[p][i].stored = TRUE
  BY Stored1
<1>2. ~outbox[p][i].stored /\ topic' = Append(topic, outbox[p][i].event)
  BY DEF Stores
<1>3. i \notin Sent(p, e)'
  BY <1>1 DEF Sent
<1>4. ASSUME NEW c \in Clients
      PROVE  Sent(c, e)' \subseteq Sent(c, e)
  <2>1. CASE c # p
    BY <1>1, <2>1 DEF Sent
  <2>2. CASE c = p
    <3>1. ASSUME NEW j \in Sent(p, e)'
          PROVE  j \in Sent(p, e)
      <4>1. j \in DOMAIN outbox[p] /\ j # i /\ outbox'[p][j].event = e /\ ~outbox'[p][j].stored
        BY <1>1, <1>3, <3>1 DEF Sent
      <4>2. outbox'[p][j] = outbox[p][j]
        BY <1>1, <4>1
      <4> QED
        BY <4>1, <4>2 DEF Sent
    <3> QED
      BY <2>2, <3>1
  <2> QED
    BY <2>1, <2>2
<1>5. /\ Len(topic) \in Nat /\ DOMAIN topic = 1..Len(topic) /\ DOMAIN topic' = 1..(Len(topic) + 1)
      /\ \A j \in DOMAIN topic : topic'[j] = topic[j]
      /\ topic'[Len(topic) + 1] = outbox[p][i].event
  BY <1>2, LenProperties
<1>6. /\ \A j \in DOMAIN topic' : j \in DOMAIN topic \/ j = Len(topic) + 1
      /\ DOMAIN topic \subseteq DOMAIN topic'
  BY <1>5
<1>7. At(e)' \subseteq At(e) \cup {Len(topic) + 1} /\ At(e) \subseteq At(e)'
  BY <1>5, <1>6 DEF At
<1>8. outbox[p][i].event # e => At(e)' = At(e)
  BY <1>5, <1>7 DEF At
<1>9. outbox[p][i].event = e => i \in Sent(p, e)
  BY <1>2 DEF Sent
<1> QED
  BY <1>3, <1>4, <1>7, <1>8, <1>9

\* One report stays one report, and there is none where there was none unless it
\* was just made.
LEMMA ReportStep ==
  ASSUME ProducersInv, [Next]_vars, NEW o \in Orders, NEW s \in {"pending", "paid"}
  PROVE  LET e == MerchantEvent(o, s) IN
         OneReport(e)' /\ (Reported(e)' => Reported(e) \/ RowSays(o, s)')
<1> DEFINE e == MerchantEvent(o, s)
<1>1. /\ outbox \in [Clients -> Seq(Entry)] /\ outbox' \in [Clients -> Seq(Entry)]
      /\ topic \in Seq(Published) /\ QueueStep /\ OneReport(e)
      /\ \A p \in Clients : \A i \in DOMAIN outbox[p] : outbox[p][i].event \in Published
  <2>1. outbox \in [Clients -> Seq(Entry)] /\ topic \in Seq(Published)
    BY DEF ProducersInv, TypeOK, QueuesInv, Entry
  <2>2. OneReport(e)
    BY DEF ProducersInv, ReportsInv
  <2>3. \A p \in Clients : \A i \in DOMAIN outbox[p] : outbox[p][i].event \in InScope \cup MerchantEvents
    BY DEF ProducersInv, QueuesInv
  <2>4. InScope \cup MerchantEvents \subseteq Published
    BY DEF InScope, MerchantEvents, Published
  <2> QED
    BY QueueSteps, <2>1, <2>2, <2>3, <2>4
<1>2. e \in MerchantEvents /\ e \in Published
  BY DEF MerchantEvents, Published
<1>3. EmitterStep(o, s)
  BY EmitterSteps
<1> HIDE DEF e
<1>4. CASE topic' = topic /\ outbox' = outbox /\ ~Reported(e) /\ RowSays(o, s)'
           /\ \E m \in Simulators : Emitters(e)' \subseteq {m}
  <2>1. At(e)' = {} /\ \A p \in Clients : Sent(p, e)' = {}
    BY <1>4 DEF Reported, At, Sent
  <2> QED
    BY <1>4, <2>1 DEF OneReport, e
<1>5. CASE Emitters(e)' \subseteq Emitters(e)
  <2>1. CASE topic' = topic /\ \A p \in Clients : Subqueue(outbox'[p], outbox[p])
    BY <1>1, <1>5, <2>1, ThinReports DEF e
  <2>2. ASSUME NEW p \in Clients, NEW x \in Published, x # e, Sends(p, x)
        PROVE  OneReport(e)' /\ (Reported(e)' => Reported(e))
    <3>1. At(e)' = At(e) /\ \A c \in Clients : Sent(c, e)' = Sent(c, e)
      BY <1>1, <2>2, OtherSent
    <3> QED
      BY <1>1, <1>5, <3>1 DEF OneReport, Reported
  <2>3. ASSUME NEW w \in InScope, Sends("ingestion", w)
        PROVE  OneReport(e)' /\ (Reported(e)' => Reported(e))
    <3>1. w # e /\ w \in Published /\ "ingestion" \in Clients
      BY <1>2, Sources DEF Published, Clients
    <3> QED
      BY <2>2, <2>3, <3>1
  <2>4. ASSUME NEW m \in Simulators, sims[m].pc = "emit", sims' = [sims EXCEPT ![m].pc = "flush"],
               Sends(m, sims[m].event)
        PROVE  OneReport(e)' /\ (Reported(e)' => Reported(e))
    <3>1. m \in Clients /\ sims[m].event \in Published
      BY <2>4 DEF Clients, ProducersInv, SimsInv, MerchantEvents, Published
    <3>2. CASE sims[m].event # e
      BY <2>2, <2>4, <3>1, <3>2
    <3>3. CASE sims[m].event = e
      <4>1. m \in Emitters(e)
        BY <2>4, <3>3 DEF Emitters
      <4>2. At(e) = {} /\ \A c \in Clients : Sent(c, e) = {}
        BY <1>1, <4>1 DEF OneReport
      <4>3. m \notin Emitters(e)'
        <5>1. sims'[m].pc = "flush"
          BY <2>4, SimFacts DEF SimState
        <5> QED
          BY <5>1 DEF Emitters
      <4>4. Emitters(e)' = {}
        BY <1>1, <1>5, <4>1, <4>3 DEF OneReport
      <4>5. /\ \A c \in Clients \ {m} : Sent(c, e)' = {}
            /\ Sent(m, e)' \subseteq {Len(outbox[m]) + 1} /\ At(e)' = {}
        BY <1>1, <1>2, <2>4, <3>1, <3>3, <4>2, OwnSent
      <4>6. Reported(e)
        BY <4>1 DEF Reported
      <4> QED
        BY <4>4, <4>5, <4>6 DEF OneReport
    <3> QED
      BY <3>2, <3>3
  <2>5. ASSUME NEW p \in Clients, NEW i \in DOMAIN outbox[p], Stores(p, i)
        PROVE  OneReport(e)' /\ (Reported(e)' => Reported(e))
    <3>1. outbox[p][i].event \in Published /\ topic \in Seq(Published)
      BY <1>1
    <3>2. /\ \A c \in Clients : Sent(c, e)' \subseteq Sent(c, e)
          /\ outbox[p][i].event # e => At(e)' = At(e)
          /\ outbox[p][i].event = e =>
               /\ i \in Sent(p, e) /\ i \notin Sent(p, e)'
               /\ At(e)' \subseteq At(e) \cup {Len(topic) + 1}
      BY <1>1, <2>5, <3>1, StoredSent
    <3>3. CASE outbox[p][i].event # e
      BY <1>1, <1>5, <3>2, <3>3 DEF OneReport, Reported
    <3>4. CASE outbox[p][i].event = e
      <4>1. At(e) = {} /\ Emitters(e) = {} /\ Reported(e)
        BY <1>1, <3>2, <3>4 DEF OneReport, Reported
      <4>2. \A c \in Clients : Sent(c, e)' = {}
        BY <1>1, <3>2, <3>4 DEF OneReport
      <4> QED
        BY <1>5, <3>2, <3>4, <4>1, <4>2 DEF OneReport
    <3> QED
      BY <3>3, <3>4
  <2> QED
    BY <1>1, <2>1, <2>3, <2>4, <2>5 DEF QueueStep, e
<1> QED
  BY <1>3, <1>4, <1>5 DEF EmitterStep, e

LEMMA ReportsKept ==
  ASSUME ProducersInv, [Next]_vars
  PROVE  ReportsInv'
<1> SUFFICES ASSUME NEW o \in Orders, NEW s \in {"pending", "paid"}
             PROVE  OneReport(MerchantEvent(o, s))'
                    /\ (Reported(MerchantEvent(o, s))' => RowSays(o, s)')
  BY DEF ReportsInv, RowSays
<1> DEFINE e == MerchantEvent(o, s)
<1>1. OneReport(e)' /\ (Reported(e)' => Reported(e) \/ RowSays(o, s)')
  BY ReportStep
<1>2. RowKept(o)
  BY MerchantSteps, RowsKept
<1>3. Reported(e) => RowSays(o, s)
  BY DEF ProducersInv, ReportsInv, RowSays
<1>4. RowSays(o, s) => RowSays(o, s)'
  BY <1>2 DEF RowKept, RowSays
<1> QED
  BY <1>1, <1>3, <1>4

-----------------------------------------------------------------------------
(* The theorems.                                                           *)

LEMMA ProducersInit ==
  Init => ProducersInv
<1> SUFFICES ASSUME Init
             PROVE  ProducersInv
  OBVIOUS
<1>1. /\ topic = <<>> /\ outbox = [p \in Clients |-> <<>>] /\ Len(<<>>) = 0
      /\ \A S : <<>> \in Seq(S)
      /\ DOMAIN <<>> = 1..0 /\ \A i \in 1..0 : FALSE
  BY EmptySeq DEF Init
<1>2. \A e : ~InTopic(e) /\ At(e) = {}
  BY <1>1 DEF InTopic, At
<1>3. \A p \in Clients : outbox[p] = <<>> /\ \A e : Sent(p, e) = {}
  BY <1>1 DEF Sent
<1>4. sims = [m \in Simulators |-> IdleSim] /\ IdleSim \in SimState
      /\ IdleSim.pc = "idle" /\ IdleSim.at = 0 /\ IdleSim.due = {}
  BY DEF Init, IdleSim, SimState
<1>5. \A m \in Simulators : sims[m].pc = "idle" /\ sims[m].at = 0 /\ sims[m].due = {}
  BY <1>4
<1>6. \A e : Emitters(e) = {}
  BY <1>5 DEF Emitters
<1>7. web = IdleWeb /\ answered = {} /\ outOfScope = [w \in Webhooks |-> 0]
      /\ merchants = [o \in Orders |-> Null] /\ owner \in Simulators /\ committed = 0
  BY DEF Init
<1>8. IdleWeb \in [pc : {"idle", "check", "recorded", "flush"}, webhook : Webhooks \cup {Null},
                   failed : BOOLEAN]
      /\ IdleWeb.pc = "idle"
  BY DEF IdleWeb
<1>9. TypeOK
  <2>1. answered \subseteq Webhooks /\ topic \in Seq(Published) /\ owner \in Simulators
        /\ committed \in 0..Len(topic)
    BY <1>1, <1>7
  <2>2. web \in [pc : {"idle", "check", "recorded", "flush"}, webhook : Webhooks \cup {Null},
                 failed : BOOLEAN]
    BY <1>7, <1>8
  <2>3. \A p \in Clients : outbox[p] \in Seq([event : Published, stored : BOOLEAN])
                             /\ Len(outbox[p]) <= QueueLimit
    BY <1>1, <1>3, ProducersAssumption
  <2>4. merchants \in [Orders -> MerchantRecord \cup {Null}]
    BY <1>7
  <2>5. \A m \in Simulators :
          /\ sims[m].pc \in {"idle", "create", "emit", "flush", "commit", "scan"}
          /\ sims[m].at \in 0..Len(topic) /\ sims[m].due \subseteq Orders
    BY <1>1, <1>5
  <2> QED
    BY <2>1, <2>2, <2>3, <2>4, <2>5 DEF TypeOK
<1>10. AcceptedIsDurable /\ OutOfScopeCountedOnce
  BY <1>2, <1>7 DEF AcceptedIsDurable, OutOfScopeCountedOnce
<1>11. QueuesInv
  <2>1. outbox \in [Clients -> Seq([event : Published, stored : BOOLEAN])]
    BY <1>1
  <2>2. \A p \in Clients : DOMAIN outbox[p] = 1..0
    BY <1>1, <1>3
  <2> QED
    BY <1>1, <2>1, <2>2 DEF QueuesInv
<1>12. HandlerInv
  BY <1>7, <1>8 DEF HandlerInv
<1>13. SimsInv
  BY <1>4, <1>5, <1>7 DEF SimsInv
<1>14. ReportsInv
  BY <1>2, <1>3, <1>6 DEF ReportsInv, OneReport, Reported
<1> QED
  BY <1>9, <1>10, <1>11, <1>12, <1>13, <1>14 DEF ProducersInv

LEMMA OwnerKept ==
  ASSUME ProducersInv, [Next]_vars
  PROVE  owner' \in Simulators /\ committed' \in 0..Len(topic')
<1>1. owner \in Simulators /\ committed \in 0..Len(topic)
  BY DEF ProducersInv, TypeOK
<1>2. Len(topic) \in Nat /\ Len(topic') \in Nat /\ Len(topic) <= Len(topic')
  BY QueueSteps, TopicGrows
<1>3. UNCHANGED <<owner, committed>> => owner' \in Simulators /\ committed' \in 0..Len(topic')
  BY <1>1, <1>2
<1>4. ASSUME NEW m \in Simulators, Commit(m)
      PROVE  owner' \in Simulators /\ committed' \in 0..Len(topic')
  <2>1. sims[m].at \in 0..Len(topic)
    BY SimFacts
  <2> QED
    BY <1>1, <1>2, <1>4, <2>1 DEF Commit
<1>5. ASSUME NEW m \in Simulators, Rebalance(m)
      PROVE  owner' \in Simulators /\ committed' \in 0..Len(topic')
  BY <1>1, <1>2, <1>5 DEF Rebalance
<1>6. ASSUME NEW w \in Webhooks,
             \/ Deliver(w) \/ Refuse(w) \/ Record(w) \/ Recorded(w) \/ Enqueue(w) \/ Flushed(w)
             \/ FlushTimeout(w)
      PROVE  UNCHANGED <<owner, committed>>
  BY <1>6 DEF Deliver, Refuse, Record, Recorded, Enqueue, Flushed, FlushTimeout, simVars
<1>7. ASSUME NEW m \in Simulators,
             \/ Poll(m) \/ Create(m) \/ Emit(m) \/ Emitted(m) \/ PublishFails(m) \/ CrashSim(m)
             \/ Scan(m) \/ Scanned(m) \/ \E o \in Orders : MarkPaid(m, o)
      PROVE  UNCHANGED <<owner, committed>>
  BY <1>7
  DEF Poll, Create, Emit, Emitted, PublishFails, CrashSim, Restarted, Scan, Scanned, MarkPaid
<1>8. ASSUME \/ \E p \in Clients : Store(p) \/ Acknowledge(p) \/ FailDelivery(p)
             \/ \E o \in Orders : FallDue(o)
             \/ CrashIngestion \/ UNCHANGED vars
      PROVE  UNCHANGED <<owner, committed>>
  BY <1>8 DEF Store, Acknowledge, FailDelivery, FallDue, CrashIngestion, simVars, vars
<1> QED
  BY <1>3, <1>4, <1>5, <1>6, <1>7, <1>8 DEF Next, IngestionStep, SimStep

LEMMA ProducersNext ==
  ProducersInv /\ [Next]_vars => ProducersInv'
<1> SUFFICES ASSUME ProducersInv, [Next]_vars
             PROVE  ProducersInv'
  OBVIOUS
<1>1. QueueStep /\ outbox' \in [Clients -> Seq(Entry)]
  BY QueueSteps
<1>2. topic' \in Seq(Published)
  BY <1>1, TopicGrows
<1>3. QueuesInv' /\ \A p \in Clients : Len(outbox'[p]) <= QueueLimit
  BY <1>1, QueuesKept
<1>4. \A p \in Clients : outbox'[p] \in Seq([event : Published, stored : BOOLEAN])
  BY <1>1 DEF Entry
<1>5. TypeOK'
  BY <1>2, <1>3, <1>4, HandlerKept, DurableKept, MerchantSteps, OwnerKept, SimsKept DEF TypeOK
<1> QED
  BY <1>3, <1>5, HandlerKept, DurableKept, SimsKept, ReportsKept DEF ProducersInv

\* The inductive invariant of the producers.
THEOREM ProducersInvariance == Spec => []ProducersInv
BY ProducersInit, ProducersNext, PTL DEF Spec

\* In every behaviour the handler's, the queues' and the simulators' state has its
\* type, and no client queue holds more than the limit. (publisher.py, simulator.py)
THEOREM ProducersTypeCorrect == Spec => []TypeOK
<1>1. ProducersInv => TypeOK
  BY DEF ProducersInv
<1> QED
  BY <1>1, ProducersInvariance, PTL

\* A webhook answered with success is in the topic or in the out-of-scope table,
\* and a forged one is in neither, whatever times out, fails or dies
\* (publisher.py:3-5).
THEOREM AcceptedStays == Spec => []AcceptedIsDurable
<1>1. ProducersInv => AcceptedIsDurable
  BY DEF ProducersInv
<1> QED
  BY <1>1, ProducersInvariance, PTL

\* An event without an order has at most one row, however often it is delivered
\* (out_of_scope.py:3-5).
THEOREM CountedOnce == Spec => []OutOfScopeCountedOnce
<1>1. ProducersInv => OutOfScopeCountedOnce
  BY DEF ProducersInv
<1> QED
  BY <1>1, ProducersInvariance, PTL

\* The merchant reports each status of an order at most once, and only what its
\* row says, for any number of simulators, crashes and rebalances (store.py:27,
\* simulator.py:196).
THEOREM OneTrueReport == Spec => []ReportedOnce
<1>1. ProducersInv => ReportedOnce
  BY DEF ProducersInv, ReportsInv, OneReport, Reported, At, ReportedOnce
<1> QED
  BY <1>1, ProducersInvariance, PTL

=============================================================================
