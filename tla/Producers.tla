----------------------------- MODULE Producers -----------------------------
(***************************************************************************)
(* The two services that write the lifecycle topic: webhook ingestion      *)
(* (ingestion/) and the merchant simulator (merchant_sim/), which reads    *)
(* the captures from the topic and answers on it.  Both publish through    *)
(* KafkaLifecyclePublisher: produce into the client's queue, flush, and    *)
(* take a flush that times out for a failure, although the queue keeps     *)
(* the message and may deliver it later.                                   *)
(*                                                                         *)
(* The webhook handler runs on the event loop and blocks it, so a process  *)
(* handles one request at a time.  The topic is one partition; the         *)
(* idempotent producer neither repeats nor reorders what it delivers.      *)
(***************************************************************************)
EXTENDS Integers, Sequences, SequencesExt

CONSTANTS
  Null, Orders,
  Webhooks,     \* the events the gateway has to deliver, some without an order
  Forged,       \* those that fail the signature, id header or JSON checks
  Simulators,   \* processes of the merchant-sim group
  Profiles,     \* the behaviour profiles that may be picked
  QueueLimit,   \* messages the client queue takes before BufferError
  MaxFaults     \* bound: crashes, timeouts, failed deliveries, lost answers

VARIABLES
  answered,    \* the webhooks the gateway got a 2xx for; it retries the others
  web,         \* the webhook handler
  outOfScope,  \* out_of_scope_events: rows per event id
  topic,       \* the partition
  outbox,      \* client queues: [Clients -> Seq([event, stored])]
  merchants,   \* merchant_orders: [Orders -> record or Null]
  owner,       \* the simulator the partition is assigned to
  committed,   \* the merchant-sim group's offset
  sims,        \* simulator-local state
  faults

vars == <<answered, web, outOfScope, topic, outbox, merchants, owner, committed, sims, faults>>
webVars == <<answered, web, outOfScope>>
simVars == <<merchants, owner, committed, sims>>

Clients == {"ingestion"} \cup Simulators

ASSUME ProducersAssumption ==
  /\ \A w \in Webhooks : w.source = "razorpay" /\ w.order \in Orders \cup {Null}
  /\ Forged \subseteq Webhooks
  /\ Profiles \subseteq {"immediate", "lagging", "stuck", "silent"}
  /\ Simulators # {} /\ "ingestion" \notin Simulators
  /\ QueueLimit \in Nat \ {0} /\ MaxFaults \in Nat

\* The statuses and the behaviour of an order of the merchant's.
MerchantRecord ==
  [profile : Profiles, status : {"pending", "paid"}, next : {"later", "due", Null}]

\* NULL is none of the values of the columns that may be NULL.
NullAssumption == Null \notin Orders \cup {"later", "due"} \cup MerchantRecord
ASSUME NullAssumption

\* merchant_envelope: the id is made of the order and the status.
MerchantEvent(o, status) ==
  [id |-> <<"merch", o, status>>, source |-> "merchant", type |-> "other", order |-> o]

\* What build_envelope publishes; the rest of a payload is left out.
Published == Webhooks \cup {MerchantEvent(o, s) : o \in Orders, s \in {"pending", "paid"}}

\* failed: whether this publication's delivery callback got an error.
IdleWeb == [pc |-> "idle", webhook |-> Null, failed |-> FALSE]
IdleSim == [pc |-> "idle", at |-> 0, profile |-> Null, event |-> Null, due |-> {}, failed |-> FALSE]

Init ==
  /\ answered = {}
  /\ web = IdleWeb /\ outOfScope = [w \in Webhooks |-> 0]
  /\ topic = <<>> /\ outbox = [p \in Clients |-> <<>>]
  /\ merchants = [o \in Orders |-> Null]
  /\ owner \in Simulators /\ committed = 0
  /\ sims = [m \in Simulators |-> IdleSim]
  /\ faults = 0

Fault == faults < MaxFaults /\ faults' = faults + 1

-----------------------------------------------------------------------------
(* publish(): the client's queue and the broker.                           *)

\* A queue with no limit.
ProduceUnbounded(p, event) ==
  outbox' = [outbox EXCEPT ![p] = Append(@, [event |-> event, stored |-> FALSE])]

\* produce(); the queue may be full.
Produce(p, event) ==
  /\ Len(outbox[p]) < QueueLimit
  /\ outbox' = [outbox EXCEPT ![p] = Append(@, [event |-> event, stored |-> FALSE])]

\* The broker writes the oldest message it does not have.
Store(p) ==
  \E i \in DOMAIN outbox[p] :
    /\ ~outbox[p][i].stored /\ \A j \in 1..(i - 1) : outbox[p][j].stored
    /\ topic' = Append(topic, outbox[p][i].event)
    /\ outbox' = [outbox EXCEPT ![p][i].stored = TRUE]
    /\ UNCHANGED <<webVars, simVars, faults>>

\* Its acknowledgement reaches the client.
Acknowledge(p) ==
  /\ outbox[p] # <<>> /\ Head(outbox[p]).stored
  /\ outbox' = [outbox EXCEPT ![p] = Tail(@)]
  /\ UNCHANGED <<webVars, topic, simVars, faults>>

\* The message whose callback the process p still waits for is the last one.
Awaited(p, i) == i = Len(outbox[p])

\* The broker refuses a message, or it expires: the callback reports an error,
\* to the publication that sent it.
FailDelivery(p) ==
  /\ Fault
  /\ \E i \in DOMAIN outbox[p] :
       /\ ~outbox[p][i].stored
       /\ outbox' = [outbox EXCEPT ![p] = RemoveAt(@, i)]
       /\ web' = IF p = "ingestion" /\ web.pc = "flush" /\ Awaited(p, i)
                 THEN [web EXCEPT !.failed = TRUE] ELSE web
       /\ sims' = IF p \in Simulators /\ sims[p].pc = "flush" /\ Awaited(p, i)
                  THEN [sims EXCEPT ![p].failed = TRUE] ELSE sims
  /\ UNCHANGED <<answered, outOfScope, topic, merchants, owner, committed>>

-----------------------------------------------------------------------------
(* POST /webhook                                                           *)

\* The answer: 2xx ends the retries unless it is lost; anything else does not.
Answer(w, ok) ==
  /\ web' = IdleWeb
  /\ \/ answered' = (IF ok THEN answered \cup {w} ELSE answered) /\ UNCHANGED faults
     \/ ok /\ Fault /\ UNCHANGED answered

\* The next delivery of a webhook not yet answered with success.
Deliver(w) ==
  /\ web.pc = "idle" /\ w \notin answered
  /\ web' = [IdleWeb EXCEPT !.pc = "check", !.webhook = w]
  /\ UNCHANGED <<answered, outOfScope, topic, outbox, simVars, faults>>

\* 401 and 400.
Refuse(w) ==
  /\ web.pc = "check" /\ web.webhook = w /\ w \in Forged
  /\ Answer(w, FALSE)
  /\ UNCHANGED <<outOfScope, topic, outbox, simVars>>

\* A record that counts every delivery.
RecordAgain(w) ==
  /\ web.pc = "check" /\ web.webhook = w /\ w \notin Forged /\ w.order = Null
  /\ outOfScope' = [outOfScope EXCEPT ![w] = @ + 1]
  /\ web' = [web EXCEPT !.pc = "recorded"]
  /\ UNCHANGED <<answered, topic, outbox, simVars, faults>>

\* An insert that fails on the row an earlier delivery left: 500.
RecordRaising(w) ==
  /\ web.pc = "check" /\ web.webhook = w /\ w \notin Forged /\ w.order = Null
  /\ IF outOfScope[w] > 0 THEN web' = IdleWeb /\ UNCHANGED outOfScope
     ELSE web' = [web EXCEPT !.pc = "recorded"] /\ outOfScope' = [outOfScope EXCEPT ![w] = 1]
  /\ UNCHANGED <<answered, topic, outbox, simVars, faults>>

\* No order id: one row per event id.
Record(w) ==
  /\ web.pc = "check" /\ web.webhook = w /\ w \notin Forged /\ w.order = Null
  /\ outOfScope' = IF outOfScope[w] > 0 THEN outOfScope ELSE [outOfScope EXCEPT ![w] = 1]
  /\ web' = [web EXCEPT !.pc = "recorded"]
  /\ UNCHANGED <<answered, topic, outbox, simVars, faults>>

\* 200 out_of_scope.
Recorded(w) ==
  /\ web.pc = "recorded" /\ web.webhook = w /\ Answer(w, TRUE)
  /\ UNCHANGED <<outOfScope, topic, outbox, simVars>>

\* In scope: into the client's queue, or 503 when it is full.
Enqueue(w) ==
  /\ web.pc = "check" /\ web.webhook = w /\ w \notin Forged /\ w.order # Null
  /\ \/ /\ Produce("ingestion", w)
        /\ web' = [web EXCEPT !.pc = "flush"]
        /\ UNCHANGED <<answered, faults>>
     \/ /\ Len(outbox["ingestion"]) >= QueueLimit
        /\ Answer(w, FALSE) /\ UNCHANGED outbox
  /\ UNCHANGED <<outOfScope, topic, simVars>>

\* A publish that does not wait for the flush.
FlushedAtOnce(w) ==
  /\ web.pc = "flush" /\ web.webhook = w
  /\ Answer(w, ~web.failed)
  /\ UNCHANGED <<outOfScope, topic, outbox, simVars>>

\* The flush is over: 202, or 503 when the delivery failed.
Flushed(w) ==
  /\ web.pc = "flush" /\ web.webhook = w /\ outbox["ingestion"] = <<>>
  /\ Answer(w, ~web.failed)
  /\ UNCHANGED <<outOfScope, topic, outbox, simVars>>

\* The flush times out with messages outstanding, this one or an earlier one:
\* 503, and the queue still holds them.
FlushTimeout(w) ==
  /\ web.pc = "flush" /\ web.webhook = w /\ outbox["ingestion"] # <<>>
  /\ Fault /\ web' = IdleWeb
  /\ UNCHANGED <<answered, outOfScope, topic, outbox, simVars>>

\* The process dies with its queue; the gateway gets no answer.
CrashIngestion ==
  /\ Fault /\ (web.pc # "idle" \/ outbox["ingestion"] # <<>>)
  /\ web' = IdleWeb /\ outbox' = [outbox EXCEPT !["ingestion"] = <<>>]
  /\ UNCHANGED <<answered, outOfScope, topic, simVars>>

IngestionStep ==
  \E w \in Webhooks :
    Deliver(w) \/ Refuse(w) \/ Record(w) \/ Recorded(w) \/ Enqueue(w) \/ Flushed(w)

-----------------------------------------------------------------------------
(* The merchant simulator: poll, handle, commit, scan.                     *)

IsCapture(e) == e.source = "razorpay" /\ e.type = "capture"

\* A consumer whose offset moves as soon as the message is polled.
PollCommitting(m) ==
  /\ owner = m /\ sims[m].pc = "idle" /\ committed < Len(topic)
  /\ committed' = committed + 1
  /\ \E profile \in Profiles :
       sims' = [sims EXCEPT ![m] =
                  [IdleSim EXCEPT !.pc = IF IsCapture(topic[committed']) THEN "create" ELSE "commit",
                                  !.at = committed', !.profile = profile]]
  /\ UNCHANGED <<webVars, topic, outbox, merchants, owner, faults>>

\* _handle_message up to its first write: a message that is not a capture is
\* passed over, a capture gets a profile.
Poll(m) ==
  /\ owner = m /\ sims[m].pc = "idle" /\ committed < Len(topic)
  /\ IF IsCapture(topic[committed + 1])
     THEN \E profile \in Profiles :
            sims' = [sims EXCEPT ![m] =
                       [IdleSim EXCEPT !.pc = "create", !.at = committed + 1, !.profile = profile]]
     ELSE sims' = [sims EXCEPT ![m] = [IdleSim EXCEPT !.pc = "commit", !.at = committed + 1]]
  /\ UNCHANGED <<webVars, topic, outbox, merchants, owner, committed, faults>>

\* The row of a new order: whether the merchant will pay by itself.
Tracked(profile) ==
  [profile |-> profile, status |-> "pending",
   next |-> IF profile \in {"stuck", "silent"} THEN Null ELSE "later"]

\* The message's order, or the one being reported.
SimOrder(m) == topic[sims[m].at].order

\* A create that takes an order already tracked for a new one.
CreateAlways(m) ==
  LET o == SimOrder(m) IN
  /\ sims[m].pc = "create"
  /\ merchants' = IF merchants[o] = Null
                  THEN [merchants EXCEPT ![o] = Tracked(sims[m].profile)] ELSE merchants
  /\ sims' = [sims EXCEPT ![m] =
                IF sims[m].profile # "silent"
                THEN [@ EXCEPT !.pc = "emit", !.event = MerchantEvent(o, "pending")]
                ELSE [@ EXCEPT !.pc = "commit"]]
  /\ UNCHANGED <<webVars, topic, outbox, owner, committed, faults>>

\* create_if_absent, committed before anything is emitted.
Create(m) ==
  LET o   == SimOrder(m)
      new == merchants[o] = Null
  IN
  /\ sims[m].pc = "create"
  /\ merchants' = IF new THEN [merchants EXCEPT ![o] = Tracked(sims[m].profile)] ELSE merchants
  /\ sims' = [sims EXCEPT ![m] =
                IF new /\ sims[m].profile # "silent"
                THEN [@ EXCEPT !.pc = "emit", !.event = MerchantEvent(o, "pending")]
                ELSE [@ EXCEPT !.pc = "commit"]]
  /\ UNCHANGED <<webVars, topic, outbox, owner, committed, faults>>

\* _emit: the event goes into the queue.
Emit(m) ==
  /\ sims[m].pc = "emit" /\ Produce(m, sims[m].event)
  /\ sims' = [sims EXCEPT ![m].pc = "flush"]
  /\ UNCHANGED <<webVars, topic, merchants, owner, committed, faults>>

\* The flush is over: on with the message, or with the scan.
Emitted(m) ==
  /\ sims[m].pc = "flush" /\ outbox[m] = <<>> /\ ~sims[m].failed
  /\ sims' = [sims EXCEPT ![m] =
                [@ EXCEPT !.pc = IF sims[m].at > 0 THEN "commit" ELSE "scan", !.event = Null]]
  /\ UNCHANGED <<webVars, topic, outbox, merchants, owner, committed, faults>>

\* The offset commit; a process that lost the partition is refused and stops.
Commit(m) ==
  /\ sims[m].pc = "commit"
  /\ committed' = IF owner = m THEN sims[m].at ELSE committed
  /\ sims' = [sims EXCEPT ![m] = IdleSim]
  /\ UNCHANGED <<webVars, topic, outbox, merchants, owner, faults>>

\* _maybe_scan: the orders whose transition is due.
Scan(m) ==
  LET due == {o \in Orders : merchants[o] # Null /\ merchants[o].next = "due"} IN
  /\ sims[m].pc = "idle" /\ due # {}
  /\ sims' = [sims EXCEPT ![m] = [IdleSim EXCEPT !.pc = "scan", !.due = due]]
  /\ UNCHANGED <<webVars, topic, outbox, merchants, owner, committed, faults>>

Marked(o) == [merchants EXCEPT ![o] = [@ EXCEPT !.status = "paid", !.next = Null]]

\* A mark_paid that does not look at the status, or at how many rows it changed.
MarkPaidAgain(m, o) ==
  /\ sims[m].pc = "scan" /\ o \in sims[m].due
  /\ merchants' = Marked(o)
  /\ sims' = [sims EXCEPT ![m] =
       [@ EXCEPT !.pc = "emit", !.event = MerchantEvent(o, "paid"), !.due = sims[m].due \ {o}]]
  /\ UNCHANGED <<webVars, topic, outbox, owner, committed, faults>>

\* mark_paid, committed before the event is emitted; only one scanner gets the row.
MarkPaid(m, o) ==
  /\ sims[m].pc = "scan" /\ o \in sims[m].due
  /\ IF merchants[o].status = "pending"
     THEN /\ merchants' = Marked(o)
          /\ sims' = [sims EXCEPT ![m] =
               [@ EXCEPT !.pc = "emit", !.event = MerchantEvent(o, "paid"),
                         !.due = sims[m].due \ {o}]]
     ELSE sims' = [sims EXCEPT ![m].due = @ \ {o}] /\ UNCHANGED merchants
  /\ UNCHANGED <<webVars, topic, outbox, owner, committed, faults>>

Scanned(m) ==
  /\ sims[m].pc = "scan" /\ sims[m].due = {}
  /\ sims' = [sims EXCEPT ![m] = IdleSim]
  /\ UNCHANGED <<webVars, topic, outbox, merchants, owner, committed, faults>>

\* A PublishError (queue full, flush timed out, delivery failed) that nothing
\* catches, or a kill: the container starts the process again, from the
\* committed offset and with an empty queue.
Restarted(m) ==
  /\ sims' = [sims EXCEPT ![m] = IdleSim] /\ outbox' = [outbox EXCEPT ![m] = <<>>]
  /\ UNCHANGED <<webVars, topic, merchants, owner, committed>>

PublishFails(m) == sims[m].pc = "flush" /\ outbox[m] = <<>> /\ sims[m].failed
                     /\ Restarted(m) /\ UNCHANGED faults
CrashSim(m)     == Fault /\ (sims[m].pc # "idle" \/ outbox[m] # <<>>) /\ Restarted(m)

\* The group gives the partition to another process; the old owner goes on with
\* the message in hand.
Rebalance(m) ==
  /\ Fault /\ owner # m /\ sims[m].pc = "idle" /\ owner' = m
  /\ UNCHANGED <<webVars, topic, outbox, merchants, committed, sims>>

\* A merchant's payment falls due.
FallDue(o) ==
  /\ merchants[o] # Null /\ merchants[o].next = "later"
  /\ merchants' = [merchants EXCEPT ![o].next = "due"]
  /\ UNCHANGED <<webVars, topic, outbox, owner, committed, sims, faults>>

SimStep(m) ==
  \/ Poll(m) \/ Create(m) \/ Emit(m) \/ Emitted(m) \/ Commit(m) \/ PublishFails(m)
  \/ Scan(m) \/ Scanned(m) \/ \E o \in Orders : MarkPaid(m, o)

-----------------------------------------------------------------------------
Next ==
  \/ IngestionStep \/ CrashIngestion \/ \E w \in Webhooks : FlushTimeout(w)
  \/ \E p \in Clients : Store(p) \/ Acknowledge(p) \/ FailDelivery(p)
  \/ \E m \in Simulators : SimStep(m) \/ CrashSim(m) \/ Rebalance(m)
  \/ \E o \in Orders : FallDue(o)

Spec == Init /\ [][Next]_vars

\* The services run, the broker answers, the gateway retries every webhook and
\* payments fall due.
Fairness ==
  /\ \A w \in Webhooks :
       /\ SF_vars(Deliver(w))
       /\ WF_vars(Refuse(w) \/ Record(w) \/ Recorded(w) \/ Enqueue(w) \/ Flushed(w))
  /\ \A p \in Clients : WF_vars(Store(p)) /\ WF_vars(Acknowledge(p))
  /\ \A m \in Simulators : WF_vars(SimStep(m))
  /\ \A o \in Orders : WF_vars(FallDue(o))

FairSpec == Spec /\ Fairness

-----------------------------------------------------------------------------
InTopic(e) == \E i \in DOMAIN topic : topic[i] = e

TypeOK ==
  /\ answered \subseteq Webhooks
  /\ web \in [pc : {"idle", "check", "recorded", "flush"}, webhook : Webhooks \cup {Null},
              failed : BOOLEAN]
  /\ topic \in Seq(Published)
  /\ \A p \in Clients : /\ outbox[p] \in Seq([event : Published, stored : BOOLEAN])
                         /\ Len(outbox[p]) <= QueueLimit
  /\ merchants \in [Orders -> MerchantRecord \cup {Null}]
  /\ owner \in Simulators /\ committed \in 0..Len(topic)
  /\ \A m \in Simulators :
       /\ sims[m].pc \in {"idle", "create", "emit", "flush", "commit", "scan"}
       /\ sims[m].at \in 0..Len(topic) /\ sims[m].due \subseteq Orders

\* "accepted means durably enqueued": whatever times out, dies or answers late,
\* an event the gateway was told is accepted is in the topic, or recorded as out
\* of scope, and a forged one never is. (publisher.py:3-5)
AcceptedIsDurable ==
  \A w \in Webhooks :
    /\ w \in answered => IF w.order = Null THEN outOfScope[w] > 0 ELSE InTopic(w)
    /\ w \in Forged => w \notin answered /\ ~InTopic(w) /\ outOfScope[w] = 0

\* However often the gateway repeats itself, an event without an order is
\* counted once. (out_of_scope.py:3-5)
OutOfScopeCountedOnce == \A w \in Webhooks : outOfScope[w] <= 1

\* The merchant reports each status of an order at most once, and only what its
\* record says, although captures are redelivered and two scanners may be at
\* work. (store.py:27, simulator.py:196)
ReportedOnce ==
  \A o \in Orders : \A s \in {"pending", "paid"} :
    LET at == {i \in DOMAIN topic : topic[i] = MerchantEvent(o, s)} IN
    /\ \A i, j \in at : i = j
    /\ at # {} => /\ merchants[o] # Null /\ merchants[o].profile # "silent"
                   /\ s = "paid" => merchants[o].status = "paid"

\* Every genuine webhook is in the end answered with success, because
\* the gateway goes on until it is.
WebhooksAnswered == \A w \in Webhooks \ Forged : <>(w \in answered)

\* Every capture in the topic is tracked in the end: no crash or rebalance
\* makes the simulator pass one over. (simulator.py:127-128)
CapturesTracked ==
  \A w \in {x \in Webhooks : IsCapture(x) /\ x.order # Null} :
    InTopic(w) ~> merchants[w.order] # Null

\* "immediate -> emit 'pending' now, 'paid' a beat later": an order that is
\* tracked with this profile has its paid event in the topic in the end.
PaymentsReported ==
  \A o \in Orders :
    (merchants[o] # Null /\ merchants[o].profile = "immediate")
      ~> InTopic(MerchantEvent(o, "paid"))

-----------------------------------------------------------------------------
(* What the safety properties rest on.                                     *)

SimState ==
  [pc : {"idle", "create", "emit", "flush", "commit", "scan"}, at : Nat,
   profile : Profiles \cup {Null}, event : Published \cup {Null}, due : SUBSET Orders,
   failed : BOOLEAN]

MerchantEvents == {MerchantEvent(o, s) : o \in Orders, s \in {"pending", "paid"}}

\* The webhooks the handler publishes.
InScope == {w \in Webhooks \ Forged : w.order # Null}

\* What the topic and the queues hold; a message marked as stored is stored.
QueuesInv ==
  /\ \A i \in DOMAIN topic : topic[i] \in InScope \cup MerchantEvents
  /\ outbox \in [Clients -> Seq([event : Published, stored : BOOLEAN])]
  /\ \A p \in Clients : \A i \in DOMAIN outbox[p] :
       /\ outbox[p][i].event \in (IF p = "ingestion" THEN InScope ELSE MerchantEvents)
       /\ outbox[p][i].stored => InTopic(outbox[p][i].event)

\* The handler works on what its checks let through. While it waits for the
\* flush, its event is the newest in the queue, or stored, or reported as failed.
HandlerInv ==
  /\ outOfScope \in [Webhooks -> Nat]
  /\ web.pc # "idle" => web.webhook \in Webhooks
  /\ web.pc = "check" => ~web.failed
  /\ web.pc = "recorded" =>
       /\ web.webhook \notin Forged /\ web.webhook.order = Null
       /\ outOfScope[web.webhook] > 0
  /\ web.pc = "flush" =>
       /\ web.webhook \in InScope
       /\ LET queue == outbox["ingestion"] IN
          \/ web.failed \/ InTopic(web.webhook)
          \/ queue # <<>> /\ queue[Len(queue)].event = web.webhook

\* An order of a profile that pays.
Pays(o) == merchants[o] # Null /\ merchants[o].profile \notin {"stuck", "silent"}

\* A simulator creates orders of captures, scans orders that pay and emits events
\* of its own.
SimsInv ==
  /\ sims \in [Simulators -> SimState]
  /\ \A m \in Simulators :
       /\ sims[m].pc = "create" =>
            sims[m].at \in DOMAIN topic /\ topic[sims[m].at] \in InScope
            /\ sims[m].profile \in Profiles
       /\ sims[m].pc = "emit" => sims[m].event \in MerchantEvents
       /\ \A o \in sims[m].due : Pays(o)
  /\ \A o \in Orders : merchants[o] # Null /\ merchants[o].next # Null => Pays(o)

\* Where a report is: in the topic, in a queue and not stored, or about to be sent.
At(e)      == {i \in DOMAIN topic : topic[i] = e}
Sent(p, e) == {i \in DOMAIN outbox[p] : outbox[p][i].event = e /\ ~outbox[p][i].stored}
Emitters(e) == {m \in Simulators : sims[m].pc = "emit" /\ sims[m].event = e}

OneReport(e) ==
  /\ \A i, j \in At(e) : i = j
  /\ \A p, q \in Clients : \A i \in Sent(p, e), j \in Sent(q, e) : p = q /\ i = j
  /\ \A m, n \in Emitters(e) : m = n
  /\ Emitters(e) # {} => At(e) = {}
  /\ (\E p \in Clients : Sent(p, e) # {}) => At(e) = {} /\ Emitters(e) = {}

Reported(e) == At(e) # {} \/ Emitters(e) # {} \/ \E p \in Clients : Sent(p, e) # {}

\* Wherever it is, there is one of it and it says what the record says.
ReportsInv ==
  \A o \in Orders : \A s \in {"pending", "paid"} :
    /\ OneReport(MerchantEvent(o, s))
    /\ Reported(MerchantEvent(o, s)) =>
         /\ merchants[o] # Null /\ merchants[o].profile # "silent"
         /\ s = "paid" => merchants[o].status = "paid"

ProducersInv ==
  /\ TypeOK /\ AcceptedIsDurable /\ OutOfScopeCountedOnce
  /\ QueuesInv /\ HandlerInv /\ SimsInv /\ ReportsInv
=============================================================================
