---------------------------- MODULE LiteService ----------------------------
(***************************************************************************)
(* Lite mode (lite/): the dashboard's Postgres-only deployment.  There is  *)
(* no Kafka, no Redis and no long-running process: a submit request puts   *)
(* its orders' events through reconcile_event itself, and everything that  *)
(* is due later waits for a tick.  Both run as serverless functions, many  *)
(* at a time, so two events of one order may be reconciled at once and     *)
(* nothing but two advisory locks keeps requests and ticks apart.          *)
(*                                                                         *)
(* The statements and the resolver are Pipeline's: requests and ticks are  *)
(* its Consumers (through ReadRow, ReadView and Apply), ticks its          *)
(* Resolvers.  log holds every event the plans can produce and never       *)
(* changes; raising, queue, seen, committed and owner are not used.        *)
(*                                                                         *)
(* The optimistic guard.  updated_at is when the writer's transaction      *)
(* began, and two functions may have one order in hand: the one that       *)
(* begins first can write last, and the row then looks as if it had not    *)
(* been written.  Which of them began first is not kept; early holds those *)
(* that may have begun before the last write of their order's row, and     *)
(* what such a function writes is seen as a later write, or is not.  The   *)
(* resolvers write under a claim, and begin after it was committed.        *)
(*                                                                         *)
(* Time.  A tick compares the deadlines it finds, so none may reach the    *)
(* cut-off before a tick has seen to it: Elapse stops at MaxLate.  A       *)
(* function's own clock is read once, at its start; left is the time to    *)
(* the deadline it would arm.                                              *)
(***************************************************************************)
EXTENDS PipelineProps, Envelopes, FiniteSetsExt, SequencesExt

CONSTANTS
  Submitters, Tickers,  \* function instances serving submits and ticks
  Demands,         \* the scenarios asked for: functions [Orders -> Scenarios or Null]
  ImmediateDelay,  \* DASHBOARD_LIVE_IMMEDIATE_SECONDS
  LagDelay,        \* DASHBOARD_LIVE_LAG_SECONDS
  TickLimit,       \* DASHBOARD_LIVE_TICK_LIMIT
  MaxLiveOrders,   \* DASHBOARD_LIVE_MAX_ORDERS
  MaxBusy          \* bound: how long a function may run

VARIABLES
  scenario,  \* what is, or will be, submitted
  merchant,  \* merchant_orders: [Orders -> [status, next] or Null]
  capLock,   \* the request that holds the cap lock, or Null
  tickLock,  \* the tick that holds the tick lock, or Null
  request,   \* submit_orders in progress
  pass,      \* tick in progress
  early      \* functions whose transaction may be older than their row's last write

liteVars == <<vars, scenario, merchant, capLock, tickLock, request, pass, early>>

\* A merchant_orders row; its times count like the rows' deadlines.
MerchantRecord == [status : {"pending", "paid"}, next : Int \cup {Null}]

ASSUME LiteAssumption ==
  /\ Consumers = Submitters \cup Tickers /\ Resolvers = Tickers
  /\ Submitters \cap Tickers = {} /\ Null \notin Submitters \cup Tickers
  /\ SweepGrace = 0
  /\ ImmediateDelay \in Nat /\ LagDelay \in Nat /\ MaxBusy \in Nat
  /\ ImmediateDelay <= RecheckDelay /\ RecheckDelay < LagDelay
  /\ MaxLiveOrders \in Nat /\ IsFiniteSet(Orders) /\ Null \notin MerchantRecord
  /\ MaxBusy <= ImmediateDelay + MaxLate

Scenarios ==
  {"normal", "lagging", "stuck", "silent", "risky_drift", "reversal", "correlation_failure"}

-----------------------------------------------------------------------------
(* The plans.  An order's amount is 2; the mismatched capture and the      *)
(* refund are smaller.                                                     *)

\* _gateway, _refund and _merchant: ids are made of the order and the step.
Gateway(o, status, amount) ==
  RazorpayEnvelope(<<o, status>>, IF status = "captured" THEN "capture" ELSE "other", o,
    "payment", [id |-> o, status |-> status, amount |-> amount, currency |-> "INR"])
Refund(o) ==
  RazorpayEnvelope(<<o, "refund">>, "reversal", o,
    "refund", [id |-> o, status |-> "processed", amount |-> 1, currency |-> "INR"])
Merchant(o, status) == MerchantEnvelope(o, status, 2, "INR")

\* build_plan: what is reconciled at once, in this order.
Plan(o, s) ==
  LET captured == Gateway(o, "captured", 2)
      pending  == Merchant(o, "pending")
      paid     == Merchant(o, "paid")
  IN CASE s \in {"normal", "lagging", "stuck"} -> <<captured, pending>>
       [] s = "silent"              -> <<captured>>
       [] s = "risky_drift"         -> <<Gateway(o, "failed", 2), paid>>
       [] s = "reversal"            -> <<captured, paid, Refund(o)>>
       [] s = "correlation_failure" -> <<Gateway(o, "authorized", 2), Gateway(o, "captured", 1)>>

\* build_plan: when the merchant pays by itself, and whether it has already.
Timer(s) ==
  CASE s = "normal"  -> ImmediateDelay
    [] s = "lagging" -> LagDelay
    [] OTHER         -> Null
PaidNow(s) == s \in {"risky_drift", "reversal"}

\* Every event of an order: its plan's, then the one the merchant's timer adds.
EventsOf(o, s) ==
  LET envelopes == Plan(o, s) \o (IF Timer(s) = Null THEN <<>> ELSE <<Merchant(o, "paid")>>)
  IN IF s = Null THEN <<>> ELSE [i \in DOMAIN envelopes |-> EnvelopeToEvent(envelopes[i])]
EventLog(demand) == FlattenSeq([i \in 1..Cardinality(Orders) |->
                      LET o == SetToSeq(Orders)[i] IN EventsOf(o, demand[o])])

\* A demand is for scenarios, and every message an event can be made of.
ASSUME DemandsAssumption ==
  /\ Null \notin Scenarios
  /\ \A demand \in Demands :
       demand \in [Orders -> Scenarios \cup {Null}] /\ EventLog(demand) \in Logs \cap Seq(Event)

PlanAt(o) ==
  {i \in DOMAIN log : \E j \in DOMAIN Plan(o, scenario[o]) :
                        log[i] = EnvelopeToEvent(Plan(o, scenario[o])[j])}
PaidAt(o) == CHOOSE i \in DOMAIN log : log[i] = EnvelopeToEvent(Merchant(o, "paid"))

\* expected_tag.
Expected(s) ==
  CASE s = "normal" -> "RESOLVED_NATURALLY"
    [] s \in {"lagging", "stuck"} -> "RESOLVED_AUTOCORRECTED"
    [] s = "silent"               -> "DEAD_LETTER"
    [] s = "risky_drift"          -> "FLAGGED_UNSAFE_DRIFT"
    [] s = "reversal"             -> "DISPUTED"
    [] s = "correlation_failure"  -> "FLAGGED_AMOUNT_MISMATCH"

\* classify: the pointer's status, or the first review reason that has a tag.
Tag(o) ==
  LET reasons == {v.reason : v \in {x \in reviews : x.order = o}} IN
  CASE Status(o) # Null                -> Status(o)
    [] Status(o) = Null /\ reasons = {} -> "NO_ACTION"
    [] Status(o) = Null /\ "unsafe_drift" \in reasons    -> "FLAGGED_UNSAFE_DRIFT"
    [] Status(o) = Null /\ "amount_mismatch" \in reasons -> "FLAGGED_AMOUNT_MISMATCH"
    [] OTHER -> "FLAGGED"

-----------------------------------------------------------------------------
IdleRequest == [pc |-> "idle", left |-> RecheckDelay, batch |-> {}, live |-> 0, todo |-> {}]
IdlePass    == [pc |-> "idle", left |-> RecheckDelay, late |-> FALSE, due |-> {}]

LiteInit ==
  /\ Init
  /\ scenario \in Demands /\ log = EventLog(scenario)
  /\ merchant = [o \in Orders |-> Null] /\ capLock = Null /\ tickLock = Null
  /\ request = [s \in Submitters |-> IdleRequest]
  /\ pass = [t \in Tickers |-> IdlePass] /\ early = {}

Unused == UNCHANGED <<redisVars, kafkaVars, scenario, early>>

\* process_event begins: the i-th event, with the clock of its function.
Handling(i, left) == [IdleHandler EXCEPT !.pc = "row", !.at = i, !.left = left]

\* Between two events: none is in hand, or the last one is reconciled.
Free(p) == cons[p].pc \in {"idle", "mark"}

\* The transaction on an event is open; the functions that have it so for an order in S.
InHand(p)   == cons[p].pc \in {"row", "view", "apply"}
Handlers(S) == {p \in Consumers : InHand(p) /\ OrderAt(p) \in S}

\* reconcile_event, as in the worker; newer: whether what it writes is taken for
\* a later write by those that read the row before.
Reconcile(p) ==
  /\ \/ (ReadRow(p) \/ ReadView(p)) /\ UNCHANGED early
     \/ /\ \E newer \in BOOLEAN : (p \notin early => newer) /\ ApplyAs(p, newer)
        /\ early' = (early \cup Handlers({OrderAt(p)})) \ {p}
  /\ UNCHANGED <<scenario, merchant, capLock, tickLock, request, pass>>

\* The same for what the resolver and the sweep write.
TellEarly == early' = early \cup Handlers({o \in Orders : rows'[o] # rows[o]})

-----------------------------------------------------------------------------
(* submit_orders                                                           *)

\* The clock is read before the lock is waited for.
Submit(s) ==
  \E batch \in SUBSET {o \in Orders : scenario[o] # Null /\ merchant[o] = Null} :
    /\ request[s].pc = "idle" /\ batch # {}
    /\ \A q \in Submitters : request[q].batch \cap batch = {}
    /\ request' = [request EXCEPT ![s] = [IdleRequest EXCEPT !.pc = "count", !.batch = batch]]
    /\ Unused /\ UNCHANGED <<dbVars, merchant, cons, res, faults, capLock, tickLock, pass>>

Live == {o \in Orders : merchant[o] # Null}

\* A count that does not wait for the lock.
CountUnlocked(s) ==
  /\ request[s].pc = "count"
  /\ request' = [request EXCEPT ![s] = [@ EXCEPT !.pc = "insert", !.live = Cardinality(Live)]]
  /\ Unused /\ UNCHANGED <<dbVars, merchant, cons, res, faults, capLock, tickLock, pass>>

\* The cap lock, then the count of live orders.
Count(s) ==
  /\ request[s].pc = "count" /\ capLock = Null
  /\ capLock' = s
  /\ request' = [request EXCEPT ![s] = [@ EXCEPT !.pc = "insert", !.live = Cardinality(Live)]]
  /\ Unused /\ UNCHANGED <<dbVars, merchant, cons, res, faults, tickLock, pass>>

\* The merchant record an order starts with: timers count from the request's clock.
NewMerchant(o, left) ==
  LET timer == Timer(scenario[o]) IN
  IF PaidNow(scenario[o]) THEN [status |-> "paid", next |-> Null]
  ELSE [status |-> "pending", next |-> IF timer = Null THEN Null ELSE timer + left - RecheckDelay]

\* CapExceeded, or every merchant row at once; the lock goes with the transaction.
Insert(s) ==
  LET batch == request[s].batch IN
  /\ request[s].pc = "insert" /\ capLock' = IF capLock = s THEN Null ELSE capLock
  /\ \/ /\ request[s].live + Cardinality(batch) > MaxLiveOrders
        /\ request' = [request EXCEPT ![s] = IdleRequest]
        /\ UNCHANGED merchant
     \/ /\ request[s].live + Cardinality(batch) <= MaxLiveOrders
        /\ merchant' = [o \in Orders |->
                          IF o \in batch THEN NewMerchant(o, request[s].left) ELSE merchant[o]]
        /\ request' = [request EXCEPT ![s] =
                         [@ EXCEPT !.pc = "events", !.todo = UNION {PlanAt(o) : o \in batch}]]
  /\ Unused /\ UNCHANGED <<dbVars, cons, res, faults, tickLock, pass>>

\* The next envelope of the plans, or the answer.
NextEnvelope(s) ==
  LET todo == request[s].todo IN
  /\ request[s].pc = "events" /\ Free(s)
  /\ IF todo = {}
     THEN request' = [request EXCEPT ![s] = IdleRequest] /\ cons' = [cons EXCEPT ![s] = IdleHandler]
     ELSE /\ request' = [request EXCEPT ![s].todo = todo \ {Min(todo)}]
          /\ cons' = [cons EXCEPT ![s] = Handling(Min(todo), request[s].left)]
  /\ Unused /\ UNCHANGED <<dbVars, merchant, res, faults, capLock, tickLock, pass>>

-----------------------------------------------------------------------------
(* tick: due merchant transitions no later than the armed recheck, the     *)
(* sweep pass, then the transitions due after it.                          *)

Begin(t) ==
  /\ pass[t].pc = "idle"
  /\ pass' = [pass EXCEPT ![t] = [IdlePass EXCEPT !.pc = "lock"]]
  /\ Unused /\ UNCHANGED <<dbVars, merchant, cons, res, faults, capLock, tickLock, request>>

\* A tick that does not look whether another one is running.
TryLockAlways(t) ==
  /\ pass[t].pc = "lock" /\ pass' = [pass EXCEPT ![t].pc = "due"] /\ UNCHANGED tickLock
  /\ Unused /\ UNCHANGED <<dbVars, merchant, cons, res, faults, capLock, request>>

\* pg_try_advisory_xact_lock; a tick that does not get it returns at once.
TryLock(t) ==
  /\ pass[t].pc = "lock"
  /\ IF tickLock = Null
     THEN tickLock' = t /\ pass' = [pass EXCEPT ![t].pc = "due"]
     ELSE pass' = [pass EXCEPT ![t] = IdlePass] /\ UNCHANGED tickLock
  /\ Unused /\ UNCHANGED <<dbVars, merchant, cons, res, faults, capLock, request>>

\* Time since the tick read its clock.
Elapsed(t) == RecheckDelay - pass[t].left

\* The first TickLimit elements of S by a function that gives their deadlines; ties in any order.
FirstDue(S, deadline) ==
  {T \in SUBSET S : /\ Cardinality(T) = IF Cardinality(S) < TickLimit THEN Cardinality(S) ELSE TickLimit
                    /\ \A x \in T, y \in S \ T : deadline[x] <= deadline[y]}

\* due_transitions, against the tick's own clock.
ListDue(t) ==
  LET next(o) == merchant[o].next
      ready   == {o \in Orders : /\ merchant[o] # Null /\ merchant[o].status = "pending"
                                 /\ next(o) # Null /\ next(o) + Elapsed(t) <= 0}
  IN /\ pass[t].pc = "due"
     /\ \E due \in FirstDue(ready, [o \in ready |-> next(o)]) :
          pass' = [pass EXCEPT ![t] = [@ EXCEPT !.pc = "armed", !.due = due]]
     /\ Unused /\ UNCHANGED <<dbVars, merchant, cons, res, faults, capLock, tickLock, request>>

\* A first pass that takes every due transition.
KeepEverything(t, o) == ~pass[t].late

\* The filter on _ARMED_RECHECKS: a transition of an order that is not armed, or
\* due no later than its recheck, belongs to the first pass, any other to the last.
Keep(t, o) ==
  pass[t].late <=> ~(Status(o) # "PENDING_RECHECK" \/ rows[o].recheck = Null
                     \/ merchant[o].next = Null \/ merchant[o].next <= rows[o].recheck)

FilterDue(t) ==
  /\ pass[t].pc = "armed"
  /\ pass' = [pass EXCEPT ![t] = [@ EXCEPT !.pc = "pay", !.due = {o \in pass[t].due : Keep(t, o)}]]
  /\ Unused /\ UNCHANGED <<dbVars, merchant, cons, res, faults, capLock, tickLock, request>>

\* mark_paid, committed on its own; then the event, unless the row was paid.
Pay(t, o) ==
  /\ pass[t].pc = "pay" /\ Free(t) /\ o \in pass[t].due
  /\ IF merchant[o].status = "pending"
     THEN /\ merchant' = [merchant EXCEPT ![o] = [status |-> "paid", next |-> Null]]
          /\ cons' = [cons EXCEPT ![t] = Handling(PaidAt(o), pass[t].left)]
     ELSE cons' = [cons EXCEPT ![t] = IdleHandler] /\ UNCHANGED merchant
  /\ pass' = [pass EXCEPT ![t].due = @ \ {o}]
  /\ Unused /\ UNCHANGED <<dbVars, res, faults, capLock, tickLock, request>>

\* The tick's answer; its transaction ends and the lock goes with it.
EndPass(t) ==
  /\ pass' = [pass EXCEPT ![t] = IdlePass]
  /\ tickLock' = IF tickLock = t THEN Null ELSE tickLock

Paid(t) ==
  /\ pass[t].pc = "pay" /\ Free(t) /\ pass[t].due = {}
  /\ cons' = [cons EXCEPT ![t] = IdleHandler]
  /\ IF pass[t].late THEN EndPass(t)
     ELSE pass' = [pass EXCEPT ![t].pc = "reclaim"] /\ UNCHANGED tickLock
  /\ Unused /\ UNCHANGED <<dbVars, merchant, res, faults, capLock, request>>

\* The stuck sweep.
Reclaim(t) ==
  /\ pass[t].pc = "reclaim" /\ ReclaimStuck
  /\ pass' = [pass EXCEPT ![t].pc = "orphans"] /\ TellEarly
  /\ UNCHANGED <<redisVars, kafkaVars, scenario, merchant, res, faults, capLock, tickLock, request>>

\* The pending sweep's list, against the database's clock.
ListArmed(t) ==
  LET orphans == {o \in Orders : Orphaned(rows[o])} IN
  /\ pass[t].pc = "orphans"
  /\ \E batch \in FirstDue(orphans, [o \in orphans |-> rows[o].recheck]) :
       res' = [res EXCEPT ![t] =
                 Turn([IdleResolution EXCEPT !.batch = batch, !.left = pass[t].left])]
  /\ pass' = [pass EXCEPT ![t].pc = "resolve"]
  /\ Unused /\ UNCHANGED <<dbVars, merchant, cons, faults, capLock, tickLock, request>>

\* resolve_order, as in the runner.
ResolveOne(t) ==
  /\ pass[t].pc = "resolve"
  /\ \/ \E o \in Orders : Claim(t, o)
     \/ ReadOrder(t) \/ FinishStolen(t) \/ FinishResolved(t) \/ FinishUnresolved(t)
     \/ FailResolution(t)
  /\ TellEarly /\ UNCHANGED <<scenario, merchant, capLock, tickLock, request, pass>>

\* NoopDelayQueue: the push or removal that ends an order's turn does nothing.
NextOrder(t) ==
  /\ pass[t].pc = "resolve" /\ res[t].pc \in {"requeue", "drop"}
  /\ res' = [res EXCEPT ![t] = Turn(@)]
  /\ Unused
  /\ UNCHANGED <<dbVars, merchant, cons, faults, capLock, tickLock, request, pass>>

\* The second look at the merchant's transitions.
Resolved(t) ==
  /\ pass[t].pc = "resolve" /\ res[t].pc = "idle"
  /\ pass' = [pass EXCEPT ![t].pc = "due", ![t].late = TRUE]
  /\ Unused /\ UNCHANGED <<dbVars, merchant, cons, res, faults, capLock, tickLock, request>>

\* The budget runs out: the stage in progress ends at its next item and the
\* later ones are not started.
OutOfTime(t) ==
  /\ \/ pass[t].pc = "due" \/ (pass[t].pc = "pay" /\ Free(t))
     \/ pass[t].pc = "reclaim" \/ pass[t].pc = "orphans"
     \/ (pass[t].pc = "resolve" /\ res[t].pc \in {"idle", "claim"})
  /\ EndPass(t)
  /\ cons' = [cons EXCEPT ![t] = IdleHandler] /\ res' = [res EXCEPT ![t] = IdleResolution]
  /\ Unused /\ UNCHANGED <<dbVars, merchant, faults, capLock, request>>

-----------------------------------------------------------------------------
(* Time and failures.                                                      *)

Busy(p) == IF p \in Submitters THEN request[p].pc # "idle" ELSE pass[p].pc # "idle"
Clock(p) == IF p \in Submitters THEN request[p].left ELSE pass[p].left

\* A function runs for MaxBusy at most, and no deadline is missed by more than
\* MaxLate before a tick has seen to it.
MayElapse ==
  /\ \A p \in Consumers : Busy(p) => Clock(p) > RecheckDelay - MaxBusy
  /\ \A o \in Orders :
       /\ Status(o) = "PENDING_RECHECK" => rows[o].recheck > -MaxLate
       /\ merchant[o] # Null => (merchant[o].next # Null => merchant[o].next > -MaxLate)

Elapse ==
  /\ MayElapse /\ TimePasses
  /\ merchant' = [o \in Orders |->
       IF merchant[o] = Null THEN Null ELSE [merchant[o] EXCEPT !.next = Sooner(@)]]
  /\ request' = [s \in Submitters |->
       IF Busy(s) THEN [request[s] EXCEPT !.left = Sooner(@)] ELSE request[s]]
  /\ pass' = [t \in Tickers |-> IF Busy(t) THEN [pass[t] EXCEPT !.left = Sooner(@)] ELSE pass[t]]
  /\ Unused /\ UNCHANGED <<faults, capLock, tickLock>>

\* The platform kills a submit: its locks and its open transaction go.
KillSubmit(s) ==
  /\ Fault /\ Busy(s)
  /\ request' = [request EXCEPT ![s] = IdleRequest] /\ cons' = [cons EXCEPT ![s] = IdleHandler]
  /\ capLock' = (IF capLock = s THEN Null ELSE capLock) /\ early' = early \ {s}
  /\ UNCHANGED <<dbVars, redisVars, kafkaVars, scenario, merchant, res, tickLock, pass>>

\* The platform kills a tick, or an exception ends it: a claim it holds stays.
KillTick(t) ==
  /\ Fault /\ Busy(t) /\ EndPass(t) /\ early' = early \ {t}
  /\ cons' = [cons EXCEPT ![t] = IdleHandler] /\ res' = [res EXCEPT ![t] = IdleResolution]
  /\ UNCHANGED <<dbVars, redisVars, kafkaVars, scenario, merchant, capLock, request>>

\* The tick's lock connection, idle while the work runs in others, is dropped.
LoseTickLock ==
  /\ Fault /\ tickLock # Null /\ tickLock' = Null
  /\ Unused /\ UNCHANGED <<dbVars, merchant, cons, res, capLock, request, pass>>

LiteNext ==
  \/ \E s \in Submitters :
       Submit(s) \/ Count(s) \/ Insert(s) \/ NextEnvelope(s) \/ KillSubmit(s)
  \/ \E t \in Tickers :
       \/ Begin(t) \/ TryLock(t) \/ ListDue(t) \/ FilterDue(t) \/ Paid(t) \/ Reclaim(t)
       \/ ListArmed(t) \/ ResolveOne(t) \/ NextOrder(t) \/ Resolved(t) \/ OutOfTime(t)
       \/ KillTick(t) \/ \E o \in Orders : Pay(t, o)
  \/ \E p \in Consumers : Reconcile(p)
  \/ Elapse \/ LoseTickLock

LiteSpec == LiteInit /\ [][LiteNext]_liteVars

-----------------------------------------------------------------------------
LiteTypeOK ==
  /\ TypeOK
  /\ merchant \in [Orders -> [status : {"pending", "paid"},
                              next : -MaxLate..LagDelay \cup {Null}] \cup {Null}]
  /\ capLock \in Submitters \cup {Null} /\ tickLock \in Tickers \cup {Null}
  /\ request \in [Submitters -> [pc : {"idle", "count", "insert", "events"}, left : TimeLeft,
                                 batch : SUBSET Orders, live : 0..Cardinality(Orders),
                                 todo : SUBSET DOMAIN log]]
  /\ pass \in [Tickers -> [pc : {"idle", "lock", "due", "armed", "pay", "reclaim", "orphans", "resolve"},
                           left : TimeLeft, late : BOOLEAN, due : SUBSET Orders]]
  /\ early \subseteq Consumers

\* Racing submits never overshoot the cap on live orders. (service.py:126-128)
CapNeverExceeded == Cardinality(Live) <= MaxLiveOrders

\* Nothing is left to do for an order: its events are reconciled, its merchant's
\* timer has fired, its recheck is over and no tick is at work on it.
Settled(o) ==
  /\ merchant[o] # Null
  /\ merchant[o].status = "pending" => merchant[o].next = Null
  /\ \A s \in Submitters : o \notin request[s].batch
  /\ \A p \in Consumers : cons[p].pc # "idle" => OrderAt(p) # o
  /\ Status(o) \notin {"PENDING_RECHECK", "PROCESSING"}

\* Whatever the interleaving of requests and ticks and however late a tick
\* comes, an order ends with the outcome its scenario is said to have, as long
\* as no function dies. (scenarios.py:37-83)
ScenarioOutcome ==
  faults = 0 => \A o \in Orders : Settled(o) => Tag(o) = Expected(scenario[o])

\* A recheck is not claimed while a payment of the order's merchant that was due
\* no later is still to be marked, or marked and still to be reconciled: what
\* happened first is seen first, however late the tick. (service.py:184-186,
\* processor.py:137-141)
PaymentFirst(o) ==
  IF merchant[o].next # Null THEN merchant[o].next > rows[o].recheck
  ELSE Timer(scenario[o]) # Null => Audited(Merchant(o, "paid").id)

ChronologicalPerOrder ==
  [][faults = 0 => \A o \in Orders :
       (Status(o) = "PENDING_RECHECK" /\ Status(o)' = "PROCESSING") => PaymentFirst(o)]_liteVars

-----------------------------------------------------------------------------
(* What the cap rests on.                                                  *)

Request ==
  [pc : {"idle", "count", "insert", "events"}, left : Int, batch : SUBSET Orders,
   live : Nat, todo : SUBSET DOMAIN log]
Pass ==
  [pc : {"idle", "lock", "due", "armed", "pay", "reclaim", "orphans", "resolve"},
   left : Int, late : BOOLEAN, due : SUBSET Orders]

\* A request that has counted holds the lock until it inserts, and no order has
\* come to life since; a tick pays for orders that live.
CapInv ==
  /\ merchant \in [Orders -> MerchantRecord \cup {Null}]
  /\ request \in [Submitters -> Request] /\ pass \in [Tickers -> Pass]
  /\ \A s \in Submitters :
       request[s].pc = "insert" => capLock = s /\ Cardinality(Live) <= request[s].live
  /\ \A t \in Tickers : \A o \in pass[t].due : merchant[o] # Null
  /\ CapNeverExceeded

-----------------------------------------------------------------------------
(* What the rest rests on: no two functions have events of one order in    *)
(* hand, as long as they are prompt.                                       *)

\* The merchant pays the order by itself, in time.
Timed(o) == Timer(scenario[o]) # Null

\* A submit reconciles the plans of its own orders, which are no other's.
OwnPlans ==
  \A s \in Submitters :
    /\ \A o \in request[s].batch : scenario[o] # Null
    /\ \A q \in Submitters : q # s => request[q].batch \cap request[s].batch = {}
    /\ request[s].todo \subseteq UNION {PlanAt(o) : o \in request[s].batch}
    /\ cons[s].pc # "idle" =>
         /\ request[s].pc = "events"
         /\ \E o \in request[s].batch : cons[s].at \in PlanAt(o)

\* A tick reconciles the payments of orders that are paid in time.
OwnPayments ==
  /\ \A o \in Orders : (merchant[o] # Null /\ ~Timed(o)) => merchant[o].next = Null
  /\ \A t \in Tickers :
       /\ \A o \in pass[t].due : Timed(o)
       /\ cons[t].pc # "idle" =>
            \E o \in Orders : Timed(o) /\ log[cons[t].at] = EnvelopeToEvent(Merchant(o, "paid"))

\* No reversal is on the books of an order that is paid in time.
Plain(v) == v.reversals = {} /\ v.rp # "refunded"
ViewsPlain ==
  /\ \A o \in Orders : (Timed(o) /\ views[o] # Null) => Plain(views[o])
  /\ \A p \in Consumers :
       (cons[p].pc = "apply" /\ Timed(OrderAt(p))) => Plain(cons[p].view)

\* A submit that read no row will find none, a function that read one knows its
\* status unless it was told otherwise.
ReadsHold ==
  \A p \in Consumers :
    cons[p].pc \in {"view", "apply"} =>
      IF cons[p].status = Null THEN p \in Submitters => rows[OrderAt(p)] = Null
      ELSE /\ rows[OrderAt(p)] # Null
           /\ cons[p].moved \/ cons[p].status = rows[OrderAt(p)].status

\* Every function's clock is of less than MaxBusy ago.
ClocksRecent == \A p \in Consumers : Busy(p) => Clock(p) >= RecheckDelay - MaxBusy

\* A function answers before the shortest of the merchant's timers fires.
Prompt == MaxBusy < ImmediateDelay

\* A submit that has a plan to reconcile inserted its orders at its own clock, and
\* the merchant has not paid them by itself yet.
PlansFirst ==
  \A s \in Submitters : \A o \in request[s].batch :
    /\ request[s].pc \in {"count", "insert"} => merchant[o] = Null
    /\ (request[s].pc = "events" /\ Timed(o)) =>
         /\ merchant[o] # Null /\ merchant[o].status = "pending"
         /\ merchant[o].next = Timer(scenario[o]) + request[s].left - RecheckDelay

\* What a tick is about to pay was due when it looked, or is paid by now; what it
\* has in hand is paid.
PaidInTime ==
  \A t \in Tickers :
    /\ \A o \in pass[t].due :
         merchant[o].status = "pending" => merchant[o].next # Null /\ merchant[o].next + Elapsed(t) <= 0
    /\ InHand(t) => merchant[OrderAt(t)] # Null /\ merchant[OrderAt(t)].status = "paid"

\* No two functions have events of one order in hand, so none writes a row that
\* another has read.
EventsAlone ==
  \A p, q \in Consumers : (p # q /\ InHand(p) /\ InHand(q)) => OrderAt(p) # OrderAt(q)

LiteInv ==
  /\ LiteTypeOK /\ log = EventLog(scenario) /\ scenario \in Demands
  /\ CapInv /\ StoreInv /\ RecordInv /\ HandlersHaveEvents
  /\ OwnPlans /\ OwnPayments /\ ViewsPlain /\ ReadsHold /\ ClocksRecent
  /\ PlansFirst /\ PaidInTime /\ EventsAlone
=============================================================================
