----------------------------- MODULE LiteProofs -----------------------------
(***************************************************************************)
(* The cap on live orders of lite mode, and its inductive invariant:       *)
(* fencing, the records, the terminal lock and the abstract lifecycle, for *)
(* any orders, scenarios, number of functions serving requests and ticks,  *)
(* delays, limits and faults.  All but the cap need Prompt: a submit that  *)
(* outlasts a merchant's timer shares its order with the tick that pays    *)
(* it, and the optimistic guard does not tell their writes apart.          *)
(***************************************************************************)
EXTENDS LiteService, PipelineRecords

\* What a step of a submit leaves alone.
LEMMA LiveFinite ==
  /\ IsFiniteSet(Live) /\ Cardinality(Live) \in Nat
  /\ \A S \in SUBSET Orders : IsFiniteSet(S) /\ Cardinality(S) \in Nat
<1>1. \A S \in SUBSET Orders : IsFiniteSet(S) /\ Cardinality(S) \in Nat
  BY LiteAssumption, FS_Subset, FS_CardinalityType
<1> QED
  BY <1>1 DEF Live

\* No order comes to life in a step other than an insertion.
NoneBorn ==
  /\ merchant' \in [Orders -> MerchantRecord \cup {Null}]
  /\ \A o \in Orders : merchant'[o] = Null <=> merchant[o] = Null

LEMMA NothingBorn ==
  ASSUME CapInv, merchant' = merchant
  PROVE  NoneBorn
BY DEF CapInv, NoneBorn

LEMMA SameLive ==
  ASSUME NoneBorn
  PROVE  Live' = Live
BY DEF NoneBorn, Live

LEMMA IdleRecords == IdleRequest \in Request /\ IdlePass \in Pass
                       /\ IdleRequest.pc = "idle" /\ IdlePass.due = {} /\ IdlePass.pc = "idle"
BY PipelineAssumption DEF IdleRequest, IdlePass, Request, Pass

\* A step by which no order is born keeps the cap, if the requests that have
\* counted keep their lock and their count.
LEMMA CapKept ==
  ASSUME CapInv, NoneBorn, log' = log,
         request' \in [Submitters -> Request], pass' \in [Tickers -> Pass],
         \A s \in Submitters : request'[s].pc = "insert" =>
           capLock' = s /\ Cardinality(Live) <= request'[s].live,
         \A t \in Tickers : \A o \in pass'[t].due : merchant[o] # Null
  PROVE  CapInv'
<1>1. Live' = Live
  BY SameLive
<1>2. Request' = Request /\ Pass' = Pass
  BY DEF Request, Pass
<1>3. \A t \in Tickers : pass'[t].due \subseteq Orders
  BY DEF Pass
<1>4. \A t \in Tickers : \A o \in pass'[t].due : merchant'[o] # Null
  BY <1>3 DEF NoneBorn
<1>5. CapNeverExceeded'
  BY <1>1 DEF CapInv, CapNeverExceeded
<1> QED
  BY <1>1, <1>2, <1>4, <1>5 DEF CapInv, NoneBorn

-----------------------------------------------------------------------------
(* submit_orders.                                                          *)

LEMMA RequestTurns ==
  ASSUME CapInv, NEW s \in Submitters, NEW r \in Request,
         request' = [request EXCEPT ![s] = r],
         capLock' \in {capLock, s} \/ (capLock' = Null /\ r.pc # "insert" /\ capLock = s),
         capLock' = s /\ capLock # s => capLock = Null,
         r.pc = "insert" => capLock' = s /\ Cardinality(Live) <= r.live,
         merchant' = merchant, log' = log, pass' = pass
  PROVE  CapInv'
<1>1. request \in [Submitters -> Request]
  BY DEF CapInv
<1>2. Null \notin Submitters
  BY LiteAssumption
<1>3. ASSUME NEW q \in Submitters, request'[q].pc = "insert"
      PROVE  capLock' = q /\ Cardinality(Live) <= request'[q].live
  <2>1. CASE q = s
    BY <1>1, <1>3, <2>1
  <2>2. CASE q # s
    <3>1. request'[q] = request[q]
      BY <1>1, <2>2
    <3>2. capLock = q /\ Cardinality(Live) <= request[q].live
      BY <1>3, <3>1 DEF CapInv
    <3> QED
      BY <1>2, <2>2, <3>1, <3>2
  <2> QED
    BY <2>1, <2>2
<1>4. request' \in [Submitters -> Request]
  BY <1>1
<1> QED
  BY <1>3, <1>4, CapKept, NothingBorn DEF CapInv

LEMMA SubmitCap ==
  ASSUME CapInv, NEW s \in Submitters, Submit(s) \/ Count(s) \/ NextEnvelope(s) \/ KillSubmit(s)
  PROVE  CapInv'
<1>1. request \in [Submitters -> Request] /\ request[s] \in Request
  BY DEF CapInv
<1>2. CASE Submit(s)
  <2>1. PICK batch \in SUBSET Orders :
          request' = [request EXCEPT ![s] = [IdleRequest EXCEPT !.pc = "count", !.batch = batch]]
    BY <1>2 DEF Submit
  <2> DEFINE r == [IdleRequest EXCEPT !.pc = "count", !.batch = batch]
  <2>2. r \in Request /\ r.pc = "count"
    BY IdleRecords DEF Request
  <2>3. capLock' = capLock /\ merchant' = merchant /\ log' = log /\ pass' = pass
    BY <1>2 DEF Submit, Unused, kafkaVars
  <2>4. request' = [request EXCEPT ![s] = r]
    BY <2>1
  <2> HIDE DEF r
  <2> QED
    BY <2>2, <2>3, <2>4, RequestTurns
<1>3. CASE Count(s)
  <2> DEFINE r == [request[s] EXCEPT !.pc = "insert", !.live = Cardinality(Live)]
  <2>1. r \in Request /\ r.pc = "insert" /\ r.live = Cardinality(Live)
    BY <1>1, LiveFinite DEF Request
  <2>2. /\ capLock = Null /\ capLock' = s /\ merchant' = merchant /\ log' = log /\ pass' = pass
        /\ request' = [request EXCEPT ![s] = r]
    BY <1>3 DEF Count, Unused, kafkaVars
  <2> HIDE DEF r
  <2>3. Cardinality(Live) <= r.live
    BY <2>1, LiveFinite
  <2> QED
    BY <2>1, <2>2, <2>3, RequestTurns
<1>4. CASE NextEnvelope(s)
  <2> DEFINE todo == request[s].todo
             r    == IF todo = {} THEN IdleRequest ELSE [request[s] EXCEPT !.todo = todo \ {Min(todo)}]
  <2>1. request[s].pc = "events"
    BY <1>4 DEF NextEnvelope
  <2>2. r \in Request /\ r.pc # "insert"
    BY <1>1, <2>1, IdleRecords DEF Request
  <2>3. /\ capLock' = capLock /\ merchant' = merchant /\ log' = log /\ pass' = pass
        /\ request' = [request EXCEPT ![s] = r]
    BY <1>4 DEF NextEnvelope, Unused, kafkaVars
  <2> HIDE DEF r
  <2> QED
    BY <2>2, <2>3, RequestTurns
<1>5. CASE KillSubmit(s)
  <2>1. /\ capLock' = (IF capLock = s THEN Null ELSE capLock) /\ merchant' = merchant /\ log' = log
        /\ pass' = pass /\ request' = [request EXCEPT ![s] = IdleRequest]
    BY <1>5 DEF KillSubmit, Unused, kafkaVars
  <2> QED
    BY <2>1, IdleRecords, LiteAssumption, RequestTurns
<1> QED
  BY <1>2, <1>3, <1>4, <1>5

LEMMA NewMerchantType ==
  ASSUME NEW o \in Orders, NEW left \in Int
  PROVE  NewMerchant(o, left) \in MerchantRecord
<1>1. Timer(scenario[o]) \in Int \cup {Null}
  BY LiteAssumption DEF Timer
<1>2. RecheckDelay \in Int
  BY PipelineAssumption
<1> QED
  BY <1>1, <1>2 DEF NewMerchant, MerchantRecord

\* The insertion: the count is of now, and the batch fits.
LEMMA InsertCap ==
  ASSUME CapInv, NEW s \in Submitters, Insert(s)
  PROVE  CapInv'
<1> DEFINE batch == request[s].batch
<1>1. /\ request \in [Submitters -> Request] /\ request[s] \in Request /\ batch \in SUBSET Orders
      /\ request[s].pc = "insert" /\ capLock = s /\ Cardinality(Live) <= request[s].live
      /\ request[s].live \in Nat /\ request[s].left \in Int
  BY DEF CapInv, Insert, Request
<1>2. log' = log /\ pass' = pass /\ capLock' = Null
  BY <1>1 DEF Insert, Unused, kafkaVars
<1>3. CASE request' = [request EXCEPT ![s] = IdleRequest] /\ merchant' = merchant
  BY <1>1, <1>2, <1>3, IdleRecords, RequestTurns
<1>4. CASE /\ request[s].live + Cardinality(batch) <= MaxLiveOrders
           /\ merchant' = [o \in Orders |->
                IF o \in batch THEN NewMerchant(o, request[s].left) ELSE merchant[o]]
           /\ request' = [request EXCEPT ![s] =
                [@ EXCEPT !.pc = "events", !.todo = UNION {PlanAt(o) : o \in batch}]]
  <2> DEFINE r == [request[s] EXCEPT !.pc = "events", !.todo = UNION {PlanAt(o) : o \in batch}]
  <2>1. UNION {PlanAt(o) : o \in batch} \in SUBSET DOMAIN log
    BY DEF PlanAt
  <2>2. r \in Request /\ r.pc = "events" /\ request' = [request EXCEPT ![s] = r]
    BY <1>1, <1>4, <2>1 DEF Request
  <2> HIDE DEF r
  <2>3. request' \in [Submitters -> Request]
    BY <1>1, <2>2
  <2>4. merchant' \in [Orders -> MerchantRecord \cup {Null}]
    BY <1>1, <1>4, NewMerchantType DEF CapInv
  <2>5. \A o \in Orders : merchant'[o] = Null => merchant[o] = Null
    BY <1>1, <1>4, NewMerchantType, LiteAssumption
  <2>6. Live' \subseteq Live \cup batch
    BY <1>4 DEF Live
  <2>7. CapNeverExceeded'
    <3>1. IsFiniteSet(Live \cup batch) /\ Cardinality(Live \cup batch) <= Cardinality(Live) + Cardinality(batch)
      <4>1. IsFiniteSet(Live) /\ IsFiniteSet(batch) /\ Cardinality(Live) \in Nat /\ Cardinality(batch) \in Nat
            /\ Cardinality(Live \cap batch) \in Nat
        BY <1>1, LiveFinite DEF Live
      <4>2. IsFiniteSet(Live \cup batch)
            /\ Cardinality(Live \cup batch) = Cardinality(Live) + Cardinality(batch) - Cardinality(Live \cap batch)
        BY <4>1, FS_Union
      <4> QED
        BY <4>1, <4>2
    <3>2. Cardinality(Live') <= Cardinality(Live \cup batch)
      BY <2>6, <3>1, FS_Subset
    <3>3. /\ Cardinality(Live) \in Nat /\ Cardinality(batch) \in Nat /\ Cardinality(Live') \in Nat
          /\ Cardinality(Live \cup batch) \in Nat /\ MaxLiveOrders \in Nat
      <4>1. Live \cup batch \in SUBSET Orders /\ Live' \in SUBSET Orders
        BY <1>1 DEF Live
      <4> QED
        BY <1>1, <4>1, LiveFinite, LiteAssumption
    <3> QED
      BY <1>1, <1>4, <3>1, <3>2, <3>3 DEF CapNeverExceeded
  <2>8. \A q \in Submitters : request'[q].pc # "insert"
    <3>1. \A q \in Submitters : q # s => request[q].pc # "insert"
      BY <1>1 DEF CapInv
    <3> QED
      BY <1>1, <2>2, <3>1
  <2>9. \A t \in Tickers : \A o \in pass'[t].due : merchant'[o] # Null
    <3>1. \A t \in Tickers : pass[t].due \subseteq Orders
      BY DEF CapInv, Pass
    <3> QED
      BY <1>2, <2>5, <3>1 DEF CapInv
  <2>10. Request' = Request /\ Pass' = Pass
    BY <1>2 DEF Request, Pass
  <2> QED
    BY <1>2, <2>3, <2>4, <2>7, <2>8, <2>9, <2>10 DEF CapInv
<1> QED
  BY <1>3, <1>4 DEF Insert

-----------------------------------------------------------------------------
(* tick.                                                                   *)

LEMMA PassTurns ==
  ASSUME CapInv, NoneBorn, NEW t \in Tickers, NEW r \in Pass, pass' = [pass EXCEPT ![t] = r],
         \A o \in r.due : merchant[o] # Null,
         request' = request, capLock' = capLock, log' = log
  PROVE  CapInv'
<1>1. pass \in [Tickers -> Pass] /\ pass' \in [Tickers -> Pass]
  BY DEF CapInv
<1>2. \A u \in Tickers : pass'[u] = IF u = t THEN r ELSE pass[u]
  BY <1>1
<1>3. \A u \in Tickers : \A o \in pass'[u].due : merchant[o] # Null
  BY <1>2 DEF CapInv
<1> QED
  BY <1>1, <1>3, CapKept DEF CapInv

\* A pass that goes on with the orders it has, or fewer of them.
LEMMA PassGoesOn ==
  ASSUME CapInv, merchant' = merchant, NEW t \in Tickers, NEW r \in Pass,
         pass' = [pass EXCEPT ![t] = r], r.due \subseteq pass[t].due,
         request' = request, capLock' = capLock, log' = log
  PROVE  CapInv'
BY NothingBorn, PassTurns DEF CapInv

LEMMA TickCap ==
  ASSUME CapInv, NEW t \in Tickers,
         \/ Begin(t) \/ TryLock(t) \/ FilterDue(t) \/ Paid(t) \/ Reclaim(t)
         \/ ListArmed(t) \/ Resolved(t) \/ OutOfTime(t) \/ KillTick(t)
  PROVE  CapInv'
<1> DEFINE p == pass[t]
           a == [IdlePass EXCEPT !.pc = "lock"]
           b == [p EXCEPT !.pc = "due"]
           c == [p EXCEPT !.pc = "pay", !.due = {o \in p.due : Keep(t, o)}]
           d == [p EXCEPT !.pc = "reclaim"]
           e == [p EXCEPT !.pc = "orphans"]
           f == [p EXCEPT !.pc = "resolve"]
           g == [p EXCEPT !.pc = "due", !.late = TRUE]
<1>1. pass \in [Tickers -> Pass] /\ p \in Pass
  BY DEF CapInv
<1>2. a \in Pass /\ a.due = {}
  BY IdleRecords DEF Pass
<1>3. /\ b \in Pass /\ b.due = p.due /\ d \in Pass /\ d.due = p.due /\ e \in Pass /\ e.due = p.due
      /\ f \in Pass /\ f.due = p.due
  BY <1>1 DEF Pass
<1>4. g \in Pass /\ g.due = p.due
  BY <1>1 DEF Pass
<1>5. c \in Pass /\ c.due \subseteq p.due
  <2> DEFINE S == {o \in p.due : Keep(t, o)}
  <2>1. S \subseteq p.due /\ p.due \in SUBSET Orders
    BY <1>1 DEF Pass
  <2>2. c = [p EXCEPT !.pc = "pay", !.due = S]
    OBVIOUS
  <2> HIDE DEF S
  <2> QED
    BY <1>1, <2>1, <2>2 DEF Pass
<1>6. merchant' = merchant /\ request' = request /\ capLock' = capLock /\ log' = log
  BY DEF Begin, TryLock, FilterDue, Paid, Reclaim, ListArmed, Resolved, OutOfTime, KillTick, EndPass,
         Unused, ReclaimStuck, kafkaVars
<1> DEFINE Turned == \/ pass' = pass
                     \/ \E r \in {a, b, c, d, e, f, g, IdlePass} : pass' = [pass EXCEPT ![t] = r]
<1>7. Turned
  <2>1. CASE Begin(t)
    BY <2>1 DEF Begin
  <2>2. CASE TryLock(t)
    <3>1. pass' = [pass EXCEPT ![t] = b] \/ pass' = [pass EXCEPT ![t] = IdlePass]
      BY <2>2 DEF TryLock
    <3> QED
      BY <3>1
  <2>3. CASE FilterDue(t)
    <3>1. pass' = [pass EXCEPT ![t] = c]
      BY <2>3 DEF FilterDue
    <3> QED
      BY <3>1
  <2>4. CASE Paid(t)
    <3>1. pass' = [pass EXCEPT ![t] = d] \/ pass' = [pass EXCEPT ![t] = IdlePass]
      BY <2>4 DEF Paid, EndPass
    <3> QED
      BY <3>1
  <2>5. CASE Reclaim(t)
    <3>1. pass' = [pass EXCEPT ![t] = e]
      BY <2>5 DEF Reclaim
    <3> QED
      BY <3>1
  <2>6. CASE ListArmed(t)
    <3>1. pass' = [pass EXCEPT ![t] = f]
      BY <2>6 DEF ListArmed
    <3> QED
      BY <3>1
  <2>7. CASE Resolved(t)
    <3>1. pass' = [pass EXCEPT ![t].pc = "due", ![t].late = TRUE]
      BY <2>7 DEF Resolved
    <3>2. pass' = [pass EXCEPT ![t] = g]
      BY <1>1, <3>1
    <3> QED
      BY <3>2
  <2>8. CASE OutOfTime(t) \/ KillTick(t)
    BY <2>8 DEF OutOfTime, KillTick, EndPass
  <2> QED
    BY <2>1, <2>2, <2>3, <2>4, <2>5, <2>6, <2>7, <2>8
<1> HIDE DEF a, b, c, d, e, f, g
<1>8. \A r \in {a, b, c, d, e, f, g, IdlePass} : r \in Pass /\ r.due \subseteq p.due
  BY <1>2, <1>3, <1>4, <1>5, IdleRecords
<1>9. CASE pass' = pass
  BY <1>6, <1>9, CapKept, NothingBorn DEF CapInv
<1>10. CASE \E r \in {a, b, c, d, e, f, g, IdlePass} : pass' = [pass EXCEPT ![t] = r]
  BY <1>6, <1>8, <1>10, PassGoesOn
<1> QED
  BY <1>7, <1>9, <1>10

LEMMA ListCap ==
  ASSUME CapInv, NEW t \in Tickers, ListDue(t)
  PROVE  CapInv'
<1> DEFINE ready == {o \in Orders : /\ merchant[o] # Null /\ merchant[o].status = "pending"
                                    /\ merchant[o].next # Null /\ merchant[o].next + Elapsed(t) <= 0}
<1>1. PICK due \in SUBSET ready : pass' = [pass EXCEPT ![t] = [@ EXCEPT !.pc = "armed", !.due = due]]
  BY DEF ListDue, FirstDue
<1>2. due \subseteq Orders /\ \A o \in due : merchant[o] # Null
  BY <1>1
<1> HIDE DEF ready
<1> DEFINE r == [pass[t] EXCEPT !.pc = "armed", !.due = due]
<1>3. r \in Pass /\ r.due = due /\ pass' = [pass EXCEPT ![t] = r]
  BY <1>1, <1>2 DEF CapInv, Pass
<1> HIDE DEF r
<1>4. merchant' = merchant /\ request' = request /\ capLock' = capLock /\ log' = log
  BY DEF ListDue, Unused, kafkaVars
<1> QED
  BY <1>2, <1>3, <1>4, PassTurns, NothingBorn

LEMMA PayCap ==
  ASSUME CapInv, NEW t \in Tickers, NEW o \in Orders, Pay(t, o)
  PROVE  CapInv'
<1>1. o \in pass[t].due /\ merchant[o] # Null /\ pass[t] \in Pass
  BY DEF Pay, CapInv
<1>2. NoneBorn
  <2>1. CASE merchant' = merchant
    BY <2>1, NothingBorn
  <2>2. CASE merchant' = [merchant EXCEPT ![o] = [status |-> "paid", next |-> Null]]
    <3>1. [status |-> "paid", next |-> Null] \in MerchantRecord
      BY DEF MerchantRecord
    <3> QED
      BY <1>1, <2>2, <3>1, LiteAssumption DEF CapInv, NoneBorn
  <2> QED
    BY <2>1, <2>2 DEF Pay
<1> DEFINE r == [pass[t] EXCEPT !.due = pass[t].due \ {o}]
<1>3. r \in Pass /\ r.due = pass[t].due \ {o}
  BY <1>1 DEF Pass
<1>4. pass' = [pass EXCEPT ![t] = r] /\ request' = request /\ capLock' = capLock /\ log' = log
  BY DEF Pay, Unused, kafkaVars, CapInv
<1> HIDE DEF r
<1>5. \A x \in r.due : merchant[x] # Null
  BY <1>3 DEF CapInv
<1> QED
  BY <1>2, <1>3, <1>4, <1>5, PassTurns

LEMMA ElapseCap ==
  ASSUME CapInv, Elapse
  PROVE  CapInv'
<1>1. \A x \in Int \cup {Null} : Sooner(x) \in Int \cup {Null} /\ (x # Null => Sooner(x) \in Int)
  BY PipelineAssumption, NullColumnAssumption DEF Sooner
<1>2. NoneBorn
  <2>1. merchant' = [o \in Orders |->
          IF merchant[o] = Null THEN Null ELSE [merchant[o] EXCEPT !.next = Sooner(@)]]
    BY DEF Elapse
  <2>2. \A o \in Orders : merchant[o] # Null =>
          [merchant[o] EXCEPT !.next = Sooner(@)] \in MerchantRecord
    BY <1>1 DEF CapInv, MerchantRecord
  <2> QED
    BY <2>1, <2>2, LiteAssumption DEF NoneBorn
<1>3. log' = log /\ capLock' = capLock
  BY DEF Elapse, Unused, kafkaVars
<1>4. \A s \in Submitters :
        /\ request[s] \in Request
        /\ request'[s] = IF Busy(s) THEN [request[s] EXCEPT !.left = Sooner(@)] ELSE request[s]
  BY DEF Elapse, CapInv
<1>5. ASSUME NEW s \in Submitters
      PROVE  request'[s] \in Request /\ request'[s].pc = request[s].pc /\ request'[s].live = request[s].live
  <2>1. request[s].left \in Int
    <3>1. request[s] \in Request
      BY <1>4
    <3> QED
      BY <3>1 DEF Request
  <2>2. Null \notin Int
    BY NullColumnAssumption
  <2>3. Sooner(request[s].left) \in Int
    BY <1>1, <2>1, <2>2
  <2>4. [request[s] EXCEPT !.left = Sooner(@)] \in Request
    BY <1>4, <2>3 DEF Request
  <2>5. CASE Busy(s)
    BY <1>4, <2>4, <2>5 DEF Request
  <2>6. CASE ~Busy(s)
    BY <1>4, <2>6
  <2> QED
    BY <2>5, <2>6
<1>6. request' = [s \in Submitters |->
        IF Busy(s) THEN [request[s] EXCEPT !.left = Sooner(@)] ELSE request[s]]
  BY DEF Elapse
<1>7. request' \in [Submitters -> Request]
  BY <1>4, <1>5, <1>6
<1>8. \A t \in Tickers :
        /\ pass[t] \in Pass
        /\ pass'[t] = IF Busy(t) THEN [pass[t] EXCEPT !.left = Sooner(@)] ELSE pass[t]
  BY DEF Elapse, CapInv
<1>9. ASSUME NEW t \in Tickers
      PROVE  pass'[t] \in Pass /\ pass'[t].due = pass[t].due
  <2>1. pass[t].left \in Int
    <3>1. pass[t] \in Pass
      BY <1>8
    <3> QED
      BY <3>1 DEF Pass
  <2>2. Null \notin Int
    BY NullColumnAssumption
  <2>3. Sooner(pass[t].left) \in Int
    BY <1>1, <2>1, <2>2
  <2>4. [pass[t] EXCEPT !.left = Sooner(@)] \in Pass
    BY <1>8, <2>3 DEF Pass
  <2>5. CASE Busy(t)
    BY <1>8, <2>4, <2>5 DEF Pass
  <2>6. CASE ~Busy(t)
    BY <1>8, <2>6
  <2> QED
    BY <2>5, <2>6
<1>10. pass' = [t \in Tickers |-> IF Busy(t) THEN [pass[t] EXCEPT !.left = Sooner(@)] ELSE pass[t]]
  BY DEF Elapse
<1>11. pass' \in [Tickers -> Pass]
  BY <1>8, <1>9, <1>10
<1> QED
  BY <1>2, <1>3, <1>5, <1>7, <1>9, <1>11, CapKept DEF CapInv

-----------------------------------------------------------------------------
(* The steps that touch neither requests nor merchants.                    *)

LEMMA OtherCap ==
  ASSUME CapInv,
         \/ \E t \in Tickers : ResolveOne(t) \/ NextOrder(t)
         \/ \E p \in Consumers : Reconcile(p)
         \/ LoseTickLock \/ UNCHANGED liteVars
  PROVE  CapInv'
<1>1. merchant' = merchant /\ request' = request /\ pass' = pass /\ capLock' = capLock
  BY DEF ResolveOne, NextOrder, Reconcile, LoseTickLock, liteVars
<1>2. log' = log
  <2>1. ASSUME NEW t \in Tickers, ResolveOne(t)
        PROVE  log' = log
    BY <2>1
    DEF ResolveOne, Claim, ReadOrder, FinishStolen, FinishResolved, FinishUnresolved,
        FailResolution, kafkaVars
  <2>2. ASSUME NEW t \in Tickers, NextOrder(t)
        PROVE  log' = log
    BY <2>2 DEF NextOrder, Unused, kafkaVars
  <2>3. ASSUME NEW p \in Consumers, Reconcile(p)
        PROVE  log' = log
    BY <2>3 DEF Reconcile, ReadRow, ReadView, ApplyAs, kafkaVars
  <2>4. CASE LoseTickLock \/ UNCHANGED liteVars
    BY <2>4 DEF LoseTickLock, Unused, kafkaVars, liteVars, vars
  <2> QED
    BY <2>1, <2>2, <2>3, <2>4
<1> QED
  BY <1>1, <1>2, CapKept, NothingBorn DEF CapInv

LEMMA CapInit ==
  LiteInit => CapInv
<1> SUFFICES ASSUME LiteInit
             PROVE  CapInv
  OBVIOUS
<1>1. merchant = [o \in Orders |-> Null] /\ request = [s \in Submitters |-> IdleRequest]
      /\ pass = [t \in Tickers |-> IdlePass]
  BY DEF LiteInit
<1>2. Live = {}
  BY <1>1 DEF Live
<1>3. Cardinality(Live) <= MaxLiveOrders
  BY <1>2, FS_EmptySet, LiteAssumption
<1> QED
  BY <1>1, <1>3, IdleRecords DEF CapInv, CapNeverExceeded

LEMMA CapNext ==
  CapInv /\ [LiteNext]_liteVars => CapInv'
BY SubmitCap, InsertCap, TickCap, ListCap, PayCap, ElapseCap, OtherCap DEF LiteNext

\* The invariant behind the next theorem: a request that has counted holds the
\* lock until it inserts, and no order has come to life since it counted.
THEOREM CapInvariance == LiteSpec => []CapInv
BY CapInit, CapNext, PTL DEF LiteSpec

\* Racing submits never overshoot the cap on live orders, whatever dies between
\* the count and the insertion (service.py:126-128): the lock is held from the
\* count on, and only an insertion brings an order to life.
THEOREM CapHolds == LiteSpec => []CapNeverExceeded
<1>1. CapInv => CapNeverExceeded
  BY DEF CapInv
<1> QED
  BY <1>1, CapInvariance, PTL

-----------------------------------------------------------------------------
(* The log: every event of the demand, the plans' and the timers'.         *)

\* f[i] is the first i of the sequences of ss put together, for i up to m.
Joins(f, ss, m) == f = [i \in 1..m |-> IF i = 1 THEN ss[i] ELSE f[i - 1] \o ss[i]]

LEMMA JoinsMean ==
  ASSUME NEW f, NEW ss, NEW m \in Nat, Joins(f, ss, m)
  PROVE  /\ 1 \in 1..m => f[1] = ss[1]
         /\ \A i \in 2..m : f[i] = f[i - 1] \o ss[i]
<1>1. \A i \in 1..m : f[i] = IF i = 1 THEN ss[i] ELSE f[i - 1] \o ss[i]
  BY Zenon DEF Joins
<1>2. \A i \in 2..m : i \in 1..m /\ i # 1
  OBVIOUS
<1> QED
  BY <1>1, <1>2

LEMMA JoinsOn ==
  ASSUME NEW f, NEW ss, NEW m \in Nat, Joins(f, ss, m)
  PROVE  \E g : Joins(g, ss, m + 1)
<1> DEFINE last == IF m + 1 = 1 THEN ss[m + 1] ELSE f[m] \o ss[m + 1]
           g == [i \in 1..(m + 1) |-> IF i = m + 1 THEN last ELSE f[i]]
<1>1. ASSUME NEW i \in 1..(m + 1)
      PROVE  g[i] = IF i = 1 THEN ss[i] ELSE g[i - 1] \o ss[i]
  <2>1. CASE i = m + 1
    <3>1. i - 1 = m /\ m # m + 1 /\ (i # 1 => m \in 1..(m + 1))
      BY <2>1
    <3>2. g[i] = last /\ (i # 1 => g[i - 1] = f[m])
      BY <2>1, <3>1
    <3> HIDE DEF g
    <3> QED
      BY <2>1, <3>1, <3>2
  <2>2. CASE i # m + 1
    <3>1. i \in 1..m /\ (i # 1 => i - 1 \in 1..(m + 1) /\ i - 1 # m + 1 /\ i \in 2..m)
      BY <2>2
    <3>2. g[i] = f[i] /\ (i # 1 => g[i - 1] = f[i - 1])
      BY <2>2, <3>1
    <3>3. f[i] = IF i = 1 THEN ss[i] ELSE f[i - 1] \o ss[i]
      <4>1. CASE i = 1
        BY <3>1, <4>1, JoinsMean
      <4>2. CASE i # 1
        <5>1. f[i] = f[i - 1] \o ss[i]
          BY <3>1, <4>2, JoinsMean
        <5> QED
          BY <4>2, <5>1
      <4> QED
        BY <4>1, <4>2
    <3> HIDE DEF g
    <3> QED
      BY <3>2, <3>3
  <2> QED
    BY <2>1, <2>2
<1>2. g = [i \in 1..(m + 1) |-> g[i]]
  OBVIOUS
<1> HIDE DEF g
<1>3. Joins(g, ss, m + 1)
  BY <1>1, <1>2 DEF Joins
<1> QED
  BY <1>3

LEMMA JoinsExist ==
  ASSUME NEW ss, NEW m \in Nat
  PROVE  \E f : Joins(f, ss, m)
<1> DEFINE S == {n \in Nat : ~\E f : Joins(f, ss, n)}
<1>1. SUFFICES ASSUME S # {} PROVE FALSE
  OBVIOUS
<1>2. PICK n \in S : \A k \in S : n <= k
  BY <1>1, LeastNatural
<1>3. CASE n = 0
  <2> DEFINE f == [k \in 1..0 |-> Null]
  <2>1. Joins(f, ss, 0)
    BY DEF Joins
  <2> QED
    BY <1>2, <1>3, <2>1
<1>4. CASE n # 0
  <2>1. n \in Nat /\ n - 1 \in Nat /\ ~(n <= n - 1)
    BY <1>2, <1>4
  <2>2. n - 1 \notin S
    BY <1>2, <2>1
  <2>3. PICK f : Joins(f, ss, n - 1)
    BY <2>1, <2>2
  <2>4. \E g : Joins(g, ss, (n - 1) + 1)
    BY <2>1, <2>3, JoinsOn
  <2>5. (n - 1) + 1 = n
    BY <2>1
  <2> QED
    BY <1>2, <2>4, <2>5
<1> QED
  BY <1>3, <1>4

\* What the first sequences hold is in their concatenation.
Holding(f, ss, n) ==
  \A i \in 1..n : \A j \in 1..Len(ss[i]) : \E k \in 1..Len(f[n]) : f[n][k] = ss[i][j]

LEMMA JoinsHold ==
  ASSUME NEW f, NEW ss, NEW m \in Nat, Joins(f, ss, m), NEW X,
         \A i \in 1..m : ss[i] \in Seq(X)
  PROVE  \A n \in 1..m : f[n] \in Seq(X) /\ Holding(f, ss, n)
<1> DEFINE Good(n) == f[n] \in Seq(X) /\ Holding(f, ss, n)
           S == {n \in 1..m : ~Good(n)}
<1>1. SUFFICES ASSUME S # {} PROVE FALSE
  OBVIOUS
<1>2. PICK n \in S : \A k \in S : n <= k
  <2>1. S \in SUBSET Nat
    OBVIOUS
  <2> HIDE DEF S
  <2> QED
    BY <1>1, <2>1, LeastNatural
<1>3. n \in 1..m /\ ss[n] \in Seq(X)
  BY <1>2
<1>4. CASE n = 1
  <2>1. f[1] = ss[1]
    BY <1>3, <1>4, JoinsMean
  <2>2. Holding(f, ss, 1)
    BY <2>1 DEF Holding
  <2> QED
    BY <1>2, <1>3, <1>4, <2>1, <2>2
<1>5. CASE n # 1
  <2>1. n - 1 \in 1..m /\ n - 1 \notin S /\ n \in 2..m
    BY <1>2, <1>3, <1>5
  <2>2. f[n - 1] \in Seq(X) /\ Holding(f, ss, n - 1)
    BY <2>1
  <2>3. f[n] = f[n - 1] \o ss[n]
    BY <2>1, JoinsMean
  <2> DEFINE a == f[n - 1]
             b == ss[n]
  <2>4. /\ a \o b \in Seq(X) /\ Len(a) \in Nat /\ Len(b) \in Nat /\ Len(a \o b) = Len(a) + Len(b)
        /\ \A k \in 1..Len(a) : (a \o b)[k] = a[k]
        /\ \A k \in 1..Len(b) : (a \o b)[Len(a) + k] = b[k]
    <3>1. a \in Seq(X) /\ b \in Seq(X)
      BY <1>3, <2>2
    <3> HIDE DEF a, b
    <3> QED
      BY <3>1
  <2>5. a = f[n - 1] /\ b = ss[n] /\ a \o b = f[n]
    BY <2>3
  <2> HIDE DEF a, b
  <2>6. ASSUME NEW i \in 1..n, NEW j \in 1..Len(ss[i])
        PROVE  \E k \in 1..Len(f[n]) : f[n][k] = ss[i][j]
    <3>1. CASE i = n
      <4>1. j \in 1..Len(b)
        BY <2>5, <3>1
      <4>2. Len(a) + j \in 1..(Len(a) + Len(b)) /\ (a \o b)[Len(a) + j] = b[j]
        BY <2>4, <4>1
      <4> QED
        BY <2>4, <2>5, <3>1, <4>2
    <3>2. CASE i # n
      <4>1. i \in 1..(n - 1)
        BY <1>3, <3>2
      <4>2. PICK k \in 1..Len(a) : a[k] = ss[i][j]
        BY <2>2, <2>5, <4>1 DEF Holding
      <4>3. k \in 1..(Len(a) + Len(b)) /\ (a \o b)[k] = ss[i][j]
        BY <2>4, <4>2
      <4> QED
        BY <2>4, <2>5, <4>3
    <3> QED
      BY <3>1, <3>2
  <2>7. Holding(f, ss, n)
    BY <2>6 DEF Holding
  <2> QED
    BY <1>2, <2>4, <2>5, <2>7
<1> QED
  BY <1>4, <1>5

\* FlattenSeq leaves nothing out.
LEMMA FlattenHolds ==
  ASSUME NEW X, NEW ss, Len(ss) \in Nat, \A i \in 1..Len(ss) : ss[i] \in Seq(X)
  PROVE  \A i \in 1..Len(ss) : \A j \in 1..Len(ss[i]) :
           \E k \in 1..Len(FlattenSeq(ss)) : FlattenSeq(ss)[k] = ss[i][j]
<1> SUFFICES ASSUME NEW i \in 1..Len(ss), NEW j \in 1..Len(ss[i])
             PROVE  \E k \in 1..Len(FlattenSeq(ss)) : FlattenSeq(ss)[k] = ss[i][j]
  OBVIOUS
<1> DEFINE m == Len(ss)
           f == CHOOSE g : Joins(g, ss, m)
<1>1. Joins(f, ss, m)
  BY JoinsExist
<1>2. m # 0 /\ m \in 1..m
  OBVIOUS
<1>3. FlattenSeq(ss) = f[m]
  BY <1>2, Zenon DEF FlattenSeq, Joins
<1> HIDE DEF f
<1>4. Holding(f, ss, m)
  BY <1>1, <1>2, JoinsHold
<1> QED
  BY <1>3, <1>4 DEF Holding

\* The plans and the log are those of a demand.
Planned == scenario \in Demands /\ log = EventLog(scenario)

LEMMA LogEvents ==
  ASSUME Planned
  PROVE  /\ scenario \in [Orders -> Scenarios \cup {Null}] /\ Null \notin Scenarios
         /\ Len(log) \in Nat /\ DOMAIN log = 1..Len(log)
         /\ \A i \in 1..Len(log) : log[i] \in Event /\ log[i] # Null
<1>1. log \in Seq(Event) /\ scenario \in [Orders -> Scenarios \cup {Null}] /\ Null \notin Scenarios
  BY DemandsAssumption DEF Planned
<1>2. Null \notin Event
  BY NullColumnAssumption
<1> QED
  BY <1>1, <1>2

LEMMA OrdersListed ==
  ASSUME NEW o \in Orders
  PROVE  /\ SetToSeq(Orders) \in [1..Cardinality(Orders) -> Orders]
         /\ \E i \in 1..Cardinality(Orders) : SetToSeq(Orders)[i] = o
<1> DEFINE n == Cardinality(Orders)
           f == SetToSeq(Orders)
<1>1. IsFiniteSet(Orders) /\ n \in Nat
  BY LiteAssumption, FS_CardinalityType
<1>2. IsFiniteSet(1..n) /\ Cardinality(1..n) = n
  BY <1>1, FS_Interval
<1>3. ExistsBijection(1..n, Orders)
  BY <1>1, <1>2, FS_SameCardinalityBij
<1>4. f \in [1..n -> Orders] /\ IsInjective(f)
  <2>1. \E g \in [1..n -> Orders] : IsInjective(g)
    BY <1>3 DEF ExistsBijection, Bijection, Injection
  <2> QED
    BY <2>1 DEF SetToSeq
<1> HIDE DEF f
<1>5. f \in Injection(1..n, Orders)
  BY <1>4 DEF Injection
<1>6. f \in Surjection(1..n, Orders)
  BY <1>1, <1>2, <1>5, FS_Injection
<1> QED
  BY <1>4, <1>6 DEF Surjection, f

\* The event of an envelope that is one.
LEMMA EventOf ==
  ASSUME NEW env, EnvelopeToEvent(env) # Null, NEW fields,
         fields = IF env.source = "razorpay" THEN RazorpayFields(env.raw) ELSE MerchantFields(env.raw)
  PROVE  /\ EnvelopeToEvent(env).order = env.order /\ EnvelopeToEvent(env).source = env.source
         /\ EnvelopeToEvent(env).type = env.type
         /\ EnvelopeToEvent(env).payment = fields.payment
         /\ EnvelopeToEvent(env).merchant = fields.merchant
         /\ EnvelopeToEvent(env).sub = fields.sub
<1>1. EnvelopeToEvent(env) =
        [id |-> env.id, source |-> env.source, type |-> env.type, order |-> env.order,
         payment |-> fields.payment, merchant |-> fields.merchant,
         amount |-> fields.amount, currency |-> fields.currency,
         sub |-> fields.sub, subId |-> fields.subId]
  BY Zenon DEF EnvelopeToEvent
<1> QED
  BY <1>1

LEMMA MerchantEvent ==
  ASSUME NEW o, NEW status \in MerchantStatus, NEW e, e # Null,
         e = EnvelopeToEvent(Merchant(o, status))
  PROVE  /\ e.order = o /\ e.source = "merchant" /\ e.type = "other"
         /\ e.payment = Null /\ e.merchant = status /\ e.sub = Null
<1> DEFINE env == Merchant(o, status)
           fields == MerchantFields(env.raw)
<1>1. env.order = o /\ env.source = "merchant" /\ env.type = "other" /\ env.raw.status = status
  BY DEF Merchant, MerchantEnvelope
<1>2. fields.payment = Null /\ fields.merchant = status /\ fields.sub = Null
  BY <1>1 DEF MerchantFields, Known
<1>3. e = EnvelopeToEvent(env) /\ fields = MerchantFields(env.raw)
  OBVIOUS
<1> HIDE DEF env, fields
<1>4. fields = IF env.source = "razorpay" THEN RazorpayFields(env.raw) ELSE MerchantFields(env.raw)
  BY <1>1, <1>3
<1> QED
  BY <1>1, <1>2, <1>3, <1>4, EventOf

\* A payment of the gateway: no reversal.
LEMMA GatewayEvent ==
  ASSUME NEW o, NEW status \in PaymentStatus, NEW amount, NEW e, e # Null,
         e = EnvelopeToEvent(Gateway(o, status, amount))
  PROVE  e.order = o /\ e.payment \in {status, Null} /\ e.sub = Null
<1> DEFINE env == Gateway(o, status, amount)
           fields == RazorpayFields(env.raw)
<1>1. /\ env.order = o /\ env.source = "razorpay"
      /\ env.raw.payment = [id |-> o, status |-> status, amount |-> amount, currency |-> "INR"]
      /\ env.raw.refund = Null /\ env.raw.dispute = Null
  BY DEF Gateway, RazorpayEnvelope, NoEntities
<1>2. fields.payment \in {status, Null} /\ fields.sub = Null
  BY <1>1 DEF RazorpayFields, Known, SubEntity
<1>3. e = EnvelopeToEvent(env) /\ fields = RazorpayFields(env.raw)
  OBVIOUS
<1> HIDE DEF env, fields
<1>4. fields = IF env.source = "razorpay" THEN RazorpayFields(env.raw) ELSE MerchantFields(env.raw)
  BY <1>1, <1>3
<1> QED
  BY <1>1, <1>2, <1>3, <1>4, EventOf

LEMMA RefundEvent ==
  ASSUME NEW o, NEW e, e # Null, e = EnvelopeToEvent(Refund(o))
  PROVE  e.order = o
<1> DEFINE env == Refund(o)
<1>1. env.order = o
  BY DEF Refund, RazorpayEnvelope
<1>2. e = EnvelopeToEvent(env)
  OBVIOUS
<1> HIDE DEF env
<1> QED
  BY <1>1, <1>2, EventOf

\* The envelopes an order's plan is made of.
LEMMA PlanEnvelopes ==
  ASSUME NEW o, NEW s \in Scenarios, NEW j \in DOMAIN Plan(o, s)
  PROVE  /\ \/ \E status \in PaymentStatus, amount \in Nat : Plan(o, s)[j] = Gateway(o, status, amount)
            \/ \E status \in MerchantStatus : Plan(o, s)[j] = Merchant(o, status)
            \/ Plan(o, s)[j] = Refund(o)
         /\ Timer(s) # Null => Plan(o, s)[j] \in {Gateway(o, "captured", 2), Merchant(o, "pending")}
<1>1. {"captured", "failed", "authorized"} \subseteq PaymentStatus /\ {"paid", "pending"} \subseteq MerchantStatus
      /\ 1 \in Nat /\ 2 \in Nat
  BY DEF PaymentStatus, MerchantStatus
<1>2. CASE s \in {"normal", "lagging", "stuck"}
  <2>1. Plan(o, s) = <<Gateway(o, "captured", 2), Merchant(o, "pending")>>
    BY <1>2 DEF Plan
  <2> QED
    BY <1>1, <2>1
<1>3. CASE s \in {"silent", "risky_drift", "reversal", "correlation_failure"}
  <2>1. Timer(s) = Null
    BY <1>3 DEF Timer
  <2>2. \/ Plan(o, s) = <<Gateway(o, "captured", 2)>>
        \/ Plan(o, s) = <<Gateway(o, "failed", 2), Merchant(o, "paid")>>
        \/ Plan(o, s) = <<Gateway(o, "captured", 2), Merchant(o, "paid"), Refund(o)>>
        \/ Plan(o, s) = <<Gateway(o, "authorized", 2), Gateway(o, "captured", 1)>>
    BY <1>3 DEF Plan
  <2> QED
    BY <1>1, <2>1, <2>2
<1> QED
  BY <1>2, <1>3 DEF Scenarios

\* An event of an order's plan is the order's; that of an order whose merchant
\* pays in time reverses nothing.
LEMMA PlanEvents ==
  ASSUME Planned, NEW o \in Orders, scenario[o] # Null, NEW i \in PlanAt(o)
  PROVE  /\ i \in 1..Len(log) /\ log[i].order = o
         /\ Timed(o) => log[i].sub = Null /\ log[i].payment # "refunded"
<1>1. i \in 1..Len(log) /\ log[i] # Null /\ scenario[o] \in Scenarios
  BY LogEvents DEF PlanAt
<1>2. PICK j \in DOMAIN Plan(o, scenario[o]) : log[i] = EnvelopeToEvent(Plan(o, scenario[o])[j])
  BY DEF PlanAt
<1>3. log[i].order = o
  <2>1. CASE \E status \in PaymentStatus, amount \in Nat : Plan(o, scenario[o])[j] = Gateway(o, status, amount)
    BY <1>1, <1>2, <2>1, GatewayEvent
  <2>2. CASE \E status \in MerchantStatus : Plan(o, scenario[o])[j] = Merchant(o, status)
    BY <1>1, <1>2, <2>2, MerchantEvent
  <2>3. CASE Plan(o, scenario[o])[j] = Refund(o)
    BY <1>1, <1>2, <2>3, RefundEvent
  <2> QED
    BY <1>1, <2>1, <2>2, <2>3, PlanEnvelopes
<1>4. ASSUME Timed(o)
      PROVE  log[i].sub = Null /\ log[i].payment # "refunded"
  <2>1. Null # "refunded" /\ "captured" \in PaymentStatus /\ "pending" \in MerchantStatus
    BY NullAssumption DEF PaymentStatus, MerchantStatus
  <2>2. Plan(o, scenario[o])[j] \in {Gateway(o, "captured", 2), Merchant(o, "pending")}
    BY <1>1, <1>4, PlanEnvelopes DEF Timed
  <2>3. CASE Plan(o, scenario[o])[j] = Gateway(o, "captured", 2)
    <3>1. log[i].payment \in {"captured", Null} /\ log[i].sub = Null
      BY <1>1, <1>2, <2>1, <2>3, GatewayEvent
    <3> QED
      BY <2>1, <3>1
  <2>4. CASE Plan(o, scenario[o])[j] = Merchant(o, "pending")
    <3>1. log[i].payment = Null /\ log[i].sub = Null
      BY <1>1, <1>2, <2>1, <2>4, MerchantEvent
    <3> QED
      BY <2>1, <3>1
  <2> QED
    BY <2>2, <2>3, <2>4
<1> QED
  BY <1>1, <1>3, <1>4

LEMMA EventsListed ==
  ASSUME NEW o, NEW s \in Scenarios \cup {Null}
  PROVE  \E n \in Nat :
           /\ EventsOf(o, s) \in [1..n -> {EventsOf(o, s)[i] : i \in 1..n}]
           /\ (s # Null /\ Timer(s) # Null) =>
                n # 0 /\ EventsOf(o, s)[n] = EnvelopeToEvent(Merchant(o, "paid"))
<1>1. CASE s = Null
  <2>1. EventsOf(o, s) = <<>>
    BY <1>1 DEF EventsOf
  <2>2. <<>> \in [1..0 -> {EventsOf(o, s)[i] : i \in 1..0}]
    OBVIOUS
  <2> QED
    BY <1>1, <2>1, <2>2
<1>2. CASE s # Null
  <2> DEFINE timer == IF Timer(s) = Null THEN <<>> ELSE <<Merchant(o, "paid")>>
             P == {Plan(o, s)[j] : j \in DOMAIN Plan(o, s)} \cup {Merchant(o, "paid")}
             envelopes == Plan(o, s) \o timer
  <2>1. Plan(o, s) \in Seq(P)
    <3>1. CASE s \in {"normal", "lagging", "stuck"}
      <4>1. Plan(o, s) = <<Gateway(o, "captured", 2), Merchant(o, "pending")>>
        BY <3>1 DEF Plan
      <4> QED
        BY <4>1
    <3>2. CASE s \in {"silent", "risky_drift", "reversal", "correlation_failure"}
      <4>1. \/ Plan(o, s) = <<Gateway(o, "captured", 2)>>
            \/ Plan(o, s) = <<Gateway(o, "failed", 2), Merchant(o, "paid")>>
            \/ Plan(o, s) = <<Gateway(o, "captured", 2), Merchant(o, "paid"), Refund(o)>>
            \/ Plan(o, s) = <<Gateway(o, "authorized", 2), Gateway(o, "captured", 1)>>
        BY <3>2 DEF Plan
      <4> QED
        BY <4>1
    <3> QED
      BY <1>2, <3>1, <3>2 DEF Scenarios
  <2>2. timer \in Seq(P) /\ (Timer(s) # Null => Len(timer) = 1 /\ timer[1] = Merchant(o, "paid"))
    <3>1. CASE Timer(s) = Null
      <4>1. timer = <<>>
        BY <3>1
      <4>2. <<>> \in Seq(P)
        OBVIOUS
      <4> HIDE DEF timer, P
      <4> QED
        BY <3>1, <4>1, <4>2
    <3>2. CASE Timer(s) # Null
      <4>1. timer = <<Merchant(o, "paid")>> /\ Merchant(o, "paid") \in P
        BY <3>2
      <4> HIDE DEF timer, P
      <4> QED
        BY <4>1
    <3> QED
      BY <3>1, <3>2
  <2> HIDE DEF P, timer
  <2>3. /\ Len(envelopes) \in Nat /\ DOMAIN envelopes = 1..Len(envelopes)
        /\ Timer(s) # Null => Len(envelopes) # 0 /\ envelopes[Len(envelopes)] = Merchant(o, "paid")
    BY <2>1, <2>2
  <2>4. EventsOf(o, s) = [i \in DOMAIN envelopes |-> EnvelopeToEvent(envelopes[i])]
    BY <1>2, Zenon DEF EventsOf, timer
  <2> HIDE DEF envelopes
  <2>5. EventsOf(o, s) \in [1..Len(envelopes) -> {EventsOf(o, s)[i] : i \in 1..Len(envelopes)}]
    BY <2>3, <2>4
  <2>6. Timer(s) # Null =>
          Len(envelopes) # 0 /\ EventsOf(o, s)[Len(envelopes)] = EnvelopeToEvent(Merchant(o, "paid"))
    BY <2>3, <2>4
  <2> QED
    BY <2>3, <2>5, <2>6
<1> QED
  BY <1>1, <1>2

\* The payment the merchant's timer brings is in the log.
LEMMA PaidFound ==
  ASSUME Planned, NEW o \in Orders, Timed(o)
  PROVE  PaidAt(o) \in 1..Len(log) /\ log[PaidAt(o)] = EnvelopeToEvent(Merchant(o, "paid"))
<1> DEFINE m == Cardinality(Orders)
           x(i) == SetToSeq(Orders)[i]
           ev(i) == EventsOf(x(i), scenario[x(i)])
           ss == [i \in 1..m |-> ev(i)]
           X == UNION {{ev(i)[j] : j \in 1..Len(ev(i))} : i \in 1..m}
           paid == EnvelopeToEvent(Merchant(o, "paid"))
<1>1. m \in Nat /\ scenario[o] \in Scenarios /\ scenario[o] # Null /\ Timer(scenario[o]) # Null
  <2>1. CASE scenario[o] = Null
    <3>1. Null \notin Scenarios
      BY LogEvents
    <3>2. Timer(scenario[o]) = Null
      BY <2>1, <3>1 DEF Timer, Scenarios
    <3> QED
      BY <3>2 DEF Timed
  <2>2. CASE scenario[o] # Null
    BY <2>2, LogEvents, LiteAssumption, FS_CardinalityType DEF Timed
  <2> QED
    BY <2>1, <2>2
<1>2. log = FlattenSeq(ss)
  BY Zenon DEF EventLog, Planned
<1>3. PICK i \in 1..m : x(i) = o
  BY OrdersListed
<1>4. ASSUME NEW k \in 1..m
      PROVE  ev(k) \in Seq(X)
  <2>1. scenario[x(k)] \in Scenarios \cup {Null}
    BY LogEvents, OrdersListed
  <2>2. PICK n \in Nat : ev(k) \in [1..n -> {ev(k)[j] : j \in 1..n}]
    BY <2>1, EventsListed
  <2> HIDE DEF ev
  <2>3. Len(ev(k)) = n
    BY <2>2
  <2>4. \A j \in 1..n : ev(k)[j] \in X
    BY <2>3
  <2> HIDE DEF X
  <2>5. ev(k) \in [1..n -> X]
    BY <2>2, <2>4
  <2> QED
    BY <2>5
<1>5. PICK n \in Nat : /\ ev(i) \in [1..n -> {ev(i)[j] : j \in 1..n}]
                       /\ n # 0 /\ ev(i)[n] = paid
  BY <1>1, <1>3, EventsListed
<1> HIDE DEF ev
<1>6. Len(ev(i)) = n /\ n \in 1..Len(ev(i))
  BY <1>5
<1>7. Len(ss) = m /\ \A k \in 1..m : ss[k] = ev(k)
  BY <1>1
<1> HIDE DEF ss, X, paid
<1>8. \A k \in 1..m : ss[k] \in Seq(X)
  BY <1>4, <1>7
<1>9. n \in 1..Len(ss[i]) /\ ss[i][n] = paid
  BY <1>5, <1>6, <1>7
<1>10. \E k \in 1..Len(FlattenSeq(ss)) : FlattenSeq(ss)[k] = ss[i][n]
  <2> HIDE DEF m, x
  <2>1. Len(ss) \in Nat /\ i \in 1..Len(ss)
    BY <1>1, <1>3, <1>7
  <2>2. \A k \in 1..Len(ss) : ss[k] \in Seq(X)
    BY <1>7, <1>8
  <2>3. ASSUME NEW tt, tt = ss
        PROVE  \A a \in 1..Len(tt) : \A b \in 1..Len(tt[a]) :
                 \E k \in 1..Len(FlattenSeq(tt)) : FlattenSeq(tt)[k] = tt[a][b]
    <3>1. Len(tt) \in Nat /\ \A k \in 1..Len(tt) : tt[k] \in Seq(X)
      BY <2>1, <2>2, <2>3
    <3> QED
      BY <3>1, FlattenHolds
  <2> QED
    BY <1>9, <2>1, <2>3, Zenon
<1>11. \E k \in DOMAIN log : log[k] = paid
  BY <1>2, <1>9, <1>10, LogEvents
<1> QED
  BY <1>11, LogEvents DEF PaidAt, paid

-----------------------------------------------------------------------------
(* What a function decides on a payment the merchant's timer brings.       *)

\* A view with no reversal keeps none unless the event is one.
LEMMA PlainStays ==
  ASSUME NEW e \in Event, e.sub = Null, e.payment # "refunded",
         NEW v \in View, Plain(v), NEW status, NEW b
  PROVE  Plain(Evaluate(e, v, status, b).view)
<1>1. Project(v, e).reversals = v.reversals /\ Project(v, e).rp # "refunded"
  <2> DEFINE p == Project(v, e)
             gateway  == e.source = "razorpay"
             captured == gateway /\ e.type = "capture"
             paid     == IF captured THEN "captured" ELSE e.payment
  <2>1. p.rp = (IF gateway THEN OrElse(paid, v.rp) ELSE v.rp) /\ p.reversals = v.reversals
    BY DEF Project, View
  <2> QED
    BY <2>1 DEF OrElse, Plain
<1>2. LET w == [v EXCEPT !.seen = @ \cup {e.id}] IN w.reversals = v.reversals /\ w.rp = v.rp
  BY DEF View
<1>3. Evaluate(e, v, status, b).view \in {Project(v, e), [v EXCEPT !.seen = @ \cup {e.id}]}
  BY DEF Evaluate
<1> QED
  BY <1>1, <1>2, <1>3 DEF Plain

\* The payment of an order without a row arms and disputes nothing.
LEMMA PaymentArmsNothing ==
  ASSUME NEW e, e.source = "merchant", e.type = "other", e.merchant = "paid", e.payment = Null, e.sub = Null,
         NEW v \in View, Plain(v)
  PROVE  Evaluate(e, v, Null, FALSE).decision.action \notin {"ARM_RECHECK", "ROUTE_DISPUTED"}
<1> DEFINE p == Project(v, e)
           drift == Assess(p)
           failure == Correlate(v, e, FALSE)
<1>1. p.rp = v.rp /\ p.reversals = {} /\ p.mc = "paid" /\ v.rp # "refunded"
  BY NullAssumption DEF Project, View, OrElse, Plain, MerchantStatus
<1>2. drift \in {"NONE", "UNSAFE", "INDETERMINATE"}
  BY <1>1 DEF Assess
<1>3. Null \notin TerminalStatuses /\ Null # "PENDING_RECHECK" /\ Null # "PROCESSING"
  BY StatusType
<1>4. Evaluate(e, v, Null, FALSE).decision = Decide(e, failure, drift, Null)
  BY DEF Evaluate
<1> HIDE DEF p, drift, failure
<1>5. DecideFresh(drift, Null).action \notin {"ARM_RECHECK", "ROUTE_DISPUTED"}
  BY <1>2, <1>3 DEF DecideFresh, Flag, Quiet
<1>6. CASE failure # Null
  <2>1. Decide(e, failure, drift, Null) = Flag(failure, "NEUTRAL")
    BY <1>3, <1>6 DEF Decide
  <2> QED
    BY <1>4, <2>1 DEF Flag, Quiet
<1>7. CASE failure = Null
  <2>1. Decide(e, failure, drift, Null) = DecideFresh(drift, Null)
    BY <1>3, <1>7 DEF Decide
  <2> QED
    BY <1>4, <1>5, <2>1
<1> QED
  BY <1>6, <1>7

-----------------------------------------------------------------------------
(* What a step does to the tables: nothing, or what one of the pipeline's  *)
(* does.                                                                   *)

\* With no other function at its order, whether a write is seen as later is no
\* question: there is nobody to see it.
LEMMA NobodyTold ==
  ASSUME NEW p \in Consumers, NEW later \in BOOLEAN, NEW o,
         LiteInv, cons[p].pc = "apply", o = log[cons[p].at].order
  PROVE  Told(p, o, later) = cons
<1>1. cons = [c \in Consumers |-> cons[c]]
  BY DEF LiteInv, StoreInv, TypeOK
<1>2. \A c \in Consumers :
        ~(c # p /\ cons[c].pc \in {"view", "apply"} /\ log[cons[c].at].order = o)
  BY DEF LiteInv, EventsAlone, InHand, OrderAt
<1> QED
  BY <1>1, <1>2, Zenon DEF Told

\* So reconcile_event is what it is in the worker.
LEMMA ReconcileIs ==
  ASSUME LiteInv, NEW p \in Consumers, Reconcile(p)
  PROVE  /\ ReadRow(p) \/ ReadView(p) \/ Apply(p)
         /\ UNCHANGED <<scenario, merchant, capLock, tickLock, request, pass>>
<1>1. UNCHANGED <<scenario, merchant, capLock, tickLock, request, pass>>
  BY DEF Reconcile
<1>3. ASSUME NEW later \in BOOLEAN, ApplyAs(p, later)
      PROVE  Apply(p)
  <2>1. cons[p].pc = "apply"
    BY <1>3 DEF ApplyAs
  <2>2. Told(p, log[cons[p].at].order, later) = Told(p, log[cons[p].at].order, TRUE)
    BY <2>1, NobodyTold
  <2> QED
    BY <1>3, <2>2, Zenon DEF Apply, ApplyAs
<1>4. ReadRow(p) \/ ReadView(p) \/ \E later \in BOOLEAN : ApplyAs(p, later)
  BY DEF Reconcile
<1> QED
  BY <1>1, <1>3, <1>4

LEMMA LiteFrame ==
  ASSUME [LiteNext]_liteVars
  PROVE  UNCHANGED <<redisVars, kafkaVars, scenario>>
<1>1. ASSUME NEW p \in Consumers, Reconcile(p)
      PROVE  UNCHANGED <<redisVars, kafkaVars, scenario>>
  BY <1>1 DEF Reconcile, ReadRow, ReadView, ApplyAs
<1>2. ASSUME NEW t \in Tickers, ResolveOne(t)
      PROVE  UNCHANGED <<redisVars, kafkaVars, scenario>>
  BY <1>2 DEF ResolveOne, Claim, ReadOrder, FinishStolen, FinishResolved, FinishUnresolved, FailResolution
<1>3. ASSUME NEW s \in Submitters,
             Submit(s) \/ Count(s) \/ Insert(s) \/ NextEnvelope(s) \/ KillSubmit(s)
      PROVE  UNCHANGED <<redisVars, kafkaVars, scenario>>
  BY <1>3 DEF Submit, Count, Insert, NextEnvelope, KillSubmit, Unused
<1>4. ASSUME NEW t \in Tickers,
             \/ Begin(t) \/ TryLock(t) \/ ListDue(t) \/ FilterDue(t) \/ Paid(t) \/ Reclaim(t)
             \/ ListArmed(t) \/ NextOrder(t) \/ Resolved(t) \/ OutOfTime(t)
             \/ KillTick(t) \/ \E o \in Orders : Pay(t, o)
      PROVE  UNCHANGED <<redisVars, kafkaVars, scenario>>
  BY <1>4 DEF Begin, TryLock, ListDue, FilterDue, Paid, Reclaim, ListArmed, NextOrder, Resolved,
              OutOfTime, KillTick, Pay, Unused
<1>5. CASE Elapse \/ LoseTickLock \/ UNCHANGED liteVars
  BY <1>5 DEF Elapse, LoseTickLock, Unused, liteVars, vars
<1> QED
  BY <1>1, <1>2, <1>3, <1>4, <1>5 DEF LiteNext

LEMMA StoreSteps ==
  ASSUME LiteInv, [LiteNext]_liteVars
  PROVE  \/ UNCHANGED dbVars
         \/ \E p \in Consumers : Apply(p)
         \/ \E t \in Tickers : ResolveStep(t)
         \/ ReclaimStuck \/ TimePasses
<1>1. ASSUME NEW p \in Consumers, Reconcile(p)
      PROVE  UNCHANGED dbVars \/ Apply(p)
  BY <1>1, ReconcileIs DEF ReadRow, ReadView
<1>2. ASSUME NEW t \in Tickers, ResolveOne(t)
      PROVE  ResolveStep(t) \/ UNCHANGED dbVars
  BY <1>2 DEF ResolveOne, ResolveStep, FailResolution
<1>3. ASSUME NEW s \in Submitters,
             Submit(s) \/ Count(s) \/ Insert(s) \/ NextEnvelope(s) \/ KillSubmit(s)
      PROVE  UNCHANGED dbVars
  BY <1>3 DEF Submit, Count, Insert, NextEnvelope, KillSubmit
<1>4. ASSUME NEW t \in Tickers,
             \/ Begin(t) \/ TryLock(t) \/ ListDue(t) \/ FilterDue(t) \/ Paid(t)
             \/ ListArmed(t) \/ NextOrder(t) \/ Resolved(t) \/ OutOfTime(t)
             \/ KillTick(t) \/ \E o \in Orders : Pay(t, o)
      PROVE  UNCHANGED dbVars
  BY <1>4 DEF Begin, TryLock, ListDue, FilterDue, Paid, ListArmed, NextOrder, Resolved,
              OutOfTime, KillTick, Pay
<1>5. CASE Elapse \/ LoseTickLock \/ UNCHANGED liteVars
  BY <1>5 DEF Elapse, LoseTickLock, liteVars, vars
<1>6. ASSUME NEW t \in Tickers, Reclaim(t)
      PROVE  ReclaimStuck
  BY <1>6 DEF Reclaim
<1> QED
  BY <1>1, <1>2, <1>3, <1>4, <1>5, <1>6 DEF LiteNext

LEMMA PaymentIs ==
  ASSUME LiteInv, NEW t \in Tickers, cons[t].pc \in {"row", "view", "apply"}
  PROVE  /\ log[cons[t].at] # Null /\ Timed(OrderAt(t)) /\ OrderAt(t) \in Orders
         /\ log[cons[t].at].source = "merchant" /\ log[cons[t].at].type = "other"
         /\ log[cons[t].at].merchant = "paid" /\ log[cons[t].at].payment = Null
         /\ log[cons[t].at].sub = Null
<1>1. t \in Consumers /\ log[cons[t].at] # Null
  <2>1. t \in Consumers
    BY LiteAssumption
  <2>2. log[cons[t].at] \in Event
    BY <2>1, EventAt DEF LiteInv, StoreInv
  <2> QED
    BY <2>1, <2>2, NullColumnAssumption
<1>2. PICK o \in Orders : Timed(o) /\ log[cons[t].at] = EnvelopeToEvent(Merchant(o, "paid"))
  BY DEF LiteInv, OwnPayments
<1>3. "paid" \in MerchantStatus
  BY DEF MerchantStatus
<1> QED
  BY <1>1, <1>2, <1>3, MerchantEvent DEF OrderAt

\* A function that arms an order knows its row.
LEMMA KnownArms ==
  ASSUME LiteInv, NEW p \in Consumers, cons[p].pc = "apply"
  PROVE  ArmsKnown(p)
<1>1. cons[p].status # Null => RowKnown(p)
  BY DEF LiteInv, ReadsHold, RowKnown
<1>2. CASE cons[p].status = Null /\ p \in Submitters
  BY <1>2 DEF LiteInv, ReadsHold, RowKnown, ArmsKnown
<1>3. CASE cons[p].status = Null /\ p \notin Submitters
  <2>1. p \in Tickers
    BY <1>3, LiteAssumption
  <2>2. cons[p].view \in View /\ Plain(cons[p].view)
    BY <2>1, PaymentIs DEF LiteInv, HandlersHaveEvents, HandlerHasEvent, ViewsPlain
  <2>3. Decides(p).action \notin {"ARM_RECHECK", "ROUTE_DISPUTED"}
    BY <1>3, <2>1, <2>2, PaymentIs, PaymentArmsNothing DEF Decides
  <2> QED
    BY <2>3 DEF ArmsKnown
<1> QED
  BY <1>1, <1>2, <1>3 DEF ArmsKnown

LEMMA LiteSteps ==
  ASSUME LiteInv, [LiteNext]_liteVars
  PROVE  /\ \A o \in Orders : OrderStep(o)
         /\ AuditStep /\ RecordStep
         /\ \A o \in Orders : DeadlineStep(rows[o], rows'[o])
<1>1. /\ StoreInv /\ TypeOK /\ RetryBudget /\ ResolversOnOrders /\ TokenIsLatest /\ HandlersHaveEvents
      /\ IdsAreUsed /\ ReviewsAreAudited /\ Resolvers = Tickers
  BY LiteAssumption DEF LiteInv, StoreInv, RecordInv
<1>2. CASE UNCHANGED dbVars
  <2>1. UNCHANGED rows /\ UNCHANGED audit /\ UNCHANGED claims /\ UNCHANGED reviews
    BY <1>2 DEF dbVars
  <2>2. \A o \in Orders : OrderStep(o)
    BY <2>1, NothingMoves
  <2>3. AuditStep
    BY <2>1 DEF AuditStep
  <2>4. RecordStep
    <3>1. \A o \in Orders : Same(rows[o], rows'[o])
      BY <2>1 DEF Same
    <3> QED
      BY <2>1, <3>1, NothingRecorded
  <2> QED
    BY <1>1, <2>1, <2>2, <2>3, <2>4, NoDeadline
<1>3. ASSUME NEW p \in Consumers, Apply(p)
      PROVE  /\ \A o \in Orders : OrderStep(o)
             /\ AuditStep /\ RecordStep
             /\ \A o \in Orders : DeadlineStep(rows[o], rows'[o])
  <2>1. cons[p].pc = "apply"
    BY <1>3 DEF Apply, ApplyAs, Overtaken
  <2>2. ArmsKnown(p)
    BY <2>1, KnownArms
  <2> QED
    BY <1>1, <1>3, <2>2, ApplyMoves, ApplyAudits, ApplyRecords, ApplyDeadlines
<1>4. ASSUME NEW t \in Tickers, ResolveStep(t)
      PROVE  /\ \A o \in Orders : OrderStep(o)
             /\ AuditStep /\ RecordStep
             /\ \A o \in Orders : DeadlineStep(rows[o], rows'[o])
  BY <1>1, <1>4, ResolverMoves, ResolverAudits, ResolverRecords, ResolverDeadlines
<1>5. CASE ReclaimStuck
  BY <1>1, <1>5, SweepMoves, SweepAudits, SweepRecords, SweepDeadlines
<1>6. CASE TimePasses
  <2>1. AuditStep
    BY <1>6 DEF TimePasses, AuditStep
  <2> QED
    BY <1>1, <1>6, <2>1, TimeMoves, TimeRecords, TimeDeadlines
<1> QED
  BY <1>2, <1>3, <1>4, <1>5, <1>6, StoreSteps

-----------------------------------------------------------------------------
(* Claims and types.                                                       *)

LEMMA LiteClaims ==
  ASSUME LiteInv, [LiteNext]_liteVars
  PROVE  ResolversOnOrders' /\ TokensDiffer'
<1>1. /\ TypeOK /\ ResolversOnOrders /\ TokensDiffer /\ Resolvers = Tickers
      /\ \A o \in Orders : OrderStep(o)
  BY LiteSteps, LiteAssumption DEF LiteInv, StoreInv
<1>2. CASE UNCHANGED res
  BY <1>1, <1>2, IdleKeepsClaims
<1>3. ASSUME NEW t \in Tickers, ResolveOne(t)
      PROVE  ResolversOnOrders' /\ TokensDiffer'
  <2>1. ResolveStep(t) \/ FailResolution(t)
    BY <1>3 DEF ResolveOne, ResolveStep
  <2> QED
    BY <1>1, <2>1, ResolveStepKeepsClaims, FailKeepsClaims
<1>4. CASE TimePasses
  BY <1>1, <1>4, TimeKeepsClaims
<1>5. ASSUME NEW t \in Tickers, ListArmed(t)
      PROVE  ResolversOnOrders' /\ TokensDiffer'
  <2> DEFINE orphans == {o \in Orders : Orphaned(rows[o])}
  <2>1. PICK batch \in SUBSET orphans :
          res' = [res EXCEPT ![t] = Turn([IdleResolution EXCEPT !.batch = batch, !.left = pass[t].left])]
    BY <1>5 DEF ListArmed, FirstDue
  <2> DEFINE s == [IdleResolution EXCEPT !.batch = batch, !.left = pass[t].left]
  <2>2. s \in Resolution
    <3>1. pass[t].left \in TimeLeft /\ batch \in SUBSET Orders
      BY <2>1 DEF LiteInv, LiteTypeOK
    <3>2. IdleResolution \in Resolution
      BY IdleTypes
    <3> QED
      BY <3>1, <3>2 DEF Resolution
  <2>3. res' = [res EXCEPT ![t] = Turn(s)]
    BY <2>1
  <2> HIDE DEF s
  <2>4. Turn(s).pc \in {"idle", "claim"}
    BY <2>2, TurnLetsGo
  <2> QED
    BY <1>1, <2>3, <2>4, LetsGo
<1>6. ASSUME NEW t \in Tickers, NextOrder(t)
      PROVE  ResolversOnOrders' /\ TokensDiffer'
  <2>1. res' = [res EXCEPT ![t] = Turn(res[t])]
    BY <1>1, <1>6 DEF NextOrder, TypeOK
  <2>2. res[t] \in Resolution
    BY <1>1 DEF TypeOK
  <2>3. Turn(res[t]).pc \in {"idle", "claim"}
    BY <2>2, TurnLetsGo
  <2> QED
    BY <1>1, <2>1, <2>3, LetsGo
<1>7. ASSUME NEW t \in Tickers, OutOfTime(t) \/ KillTick(t)
      PROVE  ResolversOnOrders' /\ TokensDiffer'
  <2>1. res' = [res EXCEPT ![t] = IdleResolution] /\ IdleResolution.pc = "idle"
    BY <1>7 DEF OutOfTime, KillTick, IdleResolution
  <2> QED
    BY <1>1, <2>1, LetsGo
<1>8. ASSUME NEW p \in Consumers, Reconcile(p)
      PROVE  UNCHANGED res
  BY <1>8 DEF Reconcile, ReadRow, ReadView, ApplyAs
<1>9. ASSUME NEW s \in Submitters,
             Submit(s) \/ Count(s) \/ Insert(s) \/ NextEnvelope(s) \/ KillSubmit(s)
      PROVE  UNCHANGED res
  BY <1>9 DEF Submit, Count, Insert, NextEnvelope, KillSubmit
<1>10. ASSUME NEW t \in Tickers,
             \/ Begin(t) \/ TryLock(t) \/ ListDue(t) \/ FilterDue(t) \/ Paid(t) \/ Reclaim(t)
             \/ Resolved(t) \/ \E o \in Orders : Pay(t, o)
      PROVE  UNCHANGED res
  BY <1>10 DEF Begin, TryLock, ListDue, FilterDue, Paid, Reclaim, Resolved, Pay
<1>11. CASE LoseTickLock \/ UNCHANGED liteVars
  BY <1>2, <1>11 DEF LoseTickLock, liteVars, vars
<1>12. CASE Elapse
  BY <1>4, <1>12 DEF Elapse
<1> QED
  BY <1>2, <1>3, <1>5, <1>6, <1>7, <1>8, <1>9, <1>10, <1>11, <1>12 DEF LiteNext

LEMMA HandlingType ==
  ASSUME NEW i \in Nat, NEW left \in TimeLeft
  PROVE  Handling(i, left) \in Handler /\ Handling(i, left).pc = "row" /\ Handling(i, left).at = i
BY IdleTypes DEF Handling, Handler, IdleHandler

\* A step that leaves the tables alone, by the types of what it changes.
LEMMA ServeType ==
  ASSUME TypeOK, UNCHANGED <<dbVars, redisVars, kafkaVars>>, faults' \in 0..MaxFaults,
         cons' \in [Consumers -> Handler], res' \in [Resolvers -> Resolution]
  PROVE  TypeOK'
BY DEF TypeOK, dbVars, redisVars, kafkaVars

\* The event a request or a tick takes in hand.
LEMMA NextIs ==
  ASSUME LiteInv, NEW s \in Submitters, request[s].pc = "events", request[s].todo # {}
  PROVE  /\ Min(request[s].todo) \in request[s].todo /\ Min(request[s].todo) \in Nat
         /\ \E o \in request[s].batch : Min(request[s].todo) \in PlanAt(o)
<1> DEFINE todo == request[s].todo
<1>1. todo \in SUBSET DOMAIN log /\ todo \subseteq UNION {PlanAt(o) : o \in request[s].batch}
  BY DEF LiteInv, LiteTypeOK, OwnPlans
<1>2. DOMAIN log \in SUBSET Nat
  BY LogEvents DEF LiteInv, Planned
<1>3. todo \in SUBSET Nat /\ todo # {}
  BY <1>1, <1>2
<1> HIDE DEF todo
<1>4. \E i \in todo : \A j \in todo : i <= j
  BY <1>3, LeastNatural
<1>5. Min(todo) \in todo
  BY <1>4 DEF Min
<1> QED
  BY <1>1, <1>3, <1>5 DEF todo

\* What a step that leaves the tables alone does to the handlers.
Begins(p) ==
  \/ /\ p \in Submitters /\ request[p].pc = "events" /\ request[p].todo # {}
     /\ cons' = [cons EXCEPT ![p] = Handling(Min(request[p].todo), request[p].left)]
     /\ request'[p].pc = "events" /\ request'[p].batch = request[p].batch
  \/ /\ p \in Tickers
     /\ \E o \in pass[p].due :
          /\ cons' = [cons EXCEPT ![p] = Handling(PaidAt(o), pass[p].left)]
          /\ merchant[o].status = "pending" /\ merchant'[o] = [status |-> "paid", next |-> Null]

Serves ==
  /\ UNCHANGED dbVars
  /\ UNCHANGED cons \/ \E p \in Consumers : cons' = [cons EXCEPT ![p] = IdleHandler] \/ Begins(p)

LEMMA ServeSteps ==
  ASSUME LiteInv, [LiteNext]_liteVars
  PROVE  \/ \E p \in Consumers : Reconcile(p)
         \/ \E t \in Tickers : ResolveOne(t) \/ Reclaim(t)
         \/ Elapse
         \/ Serves
<1>1. Consumers = Submitters \cup Tickers
  BY LiteAssumption
<1>2. ASSUME NEW s \in Submitters,
             Submit(s) \/ Count(s) \/ Insert(s) \/ KillSubmit(s)
      PROVE  Serves
  BY <1>1, <1>2 DEF Submit, Count, Insert, KillSubmit, Serves
<1>3. ASSUME NEW s \in Submitters, NextEnvelope(s)
      PROVE  Serves
  <2>1. UNCHANGED dbVars /\ request[s].pc = "events"
    BY <1>3 DEF NextEnvelope
  <2>2. CASE request[s].todo = {}
    BY <1>1, <1>3, <2>1, <2>2 DEF NextEnvelope, Serves
  <2>3. CASE request[s].todo # {}
    <3>1. cons' = [cons EXCEPT ![s] = Handling(Min(request[s].todo), request[s].left)]
      BY <1>3, <2>3 DEF NextEnvelope
    <3>2. request' = [request EXCEPT ![s].todo = request[s].todo \ {Min(request[s].todo)}]
      BY <1>3, <2>3 DEF NextEnvelope
    <3>3. request'[s].pc = "events" /\ request'[s].batch = request[s].batch
      BY <2>1, <3>2 DEF LiteInv, CapInv, Request
    <3> QED
      BY <1>1, <2>1, <2>3, <3>1, <3>3 DEF Serves, Begins
  <2> QED
    BY <2>2, <2>3
<1>4. ASSUME NEW t \in Tickers,
             \/ Begin(t) \/ TryLock(t) \/ ListDue(t) \/ FilterDue(t) \/ Paid(t)
             \/ ListArmed(t) \/ NextOrder(t) \/ Resolved(t) \/ OutOfTime(t) \/ KillTick(t)
      PROVE  Serves
  BY <1>1, <1>4 DEF Begin, TryLock, ListDue, FilterDue, Paid, ListArmed, NextOrder, Resolved,
              OutOfTime, KillTick, Serves
<1>5. ASSUME NEW t \in Tickers, NEW o \in Orders, Pay(t, o)
      PROVE  Serves
  <2>1. UNCHANGED dbVars /\ o \in pass[t].due
    BY <1>5 DEF Pay
  <2>2. \/ /\ cons' = [cons EXCEPT ![t] = Handling(PaidAt(o), pass[t].left)]
           /\ merchant[o].status = "pending" /\ merchant'[o] = [status |-> "paid", next |-> Null]
        \/ cons' = [cons EXCEPT ![t] = IdleHandler]
    BY <1>5 DEF Pay, LiteInv, CapInv
  <2> QED
    BY <1>1, <2>1, <2>2 DEF Serves, Begins
<1>6. CASE LoseTickLock \/ UNCHANGED liteVars
  BY <1>6 DEF LoseTickLock, liteVars, vars, Serves
<1> QED
  BY <1>2, <1>3, <1>4, <1>5, <1>6 DEF LiteNext

LEMMA BeginsType ==
  ASSUME LiteInv, NEW p \in Consumers, Begins(p)
  PROVE  \E i \in 1..Len(log), left \in TimeLeft :
           /\ cons' = [cons EXCEPT ![p] = Handling(i, left)]
           /\ log[i] # Null
           /\ IF p \in Submitters
              THEN /\ request'[p].pc = "events"
                   /\ \E o \in request'[p].batch : i \in PlanAt(o)
              ELSE \E o \in Orders : Timed(o) /\ log[i] = EnvelopeToEvent(Merchant(o, "paid"))
<1>1. Planned /\ Submitters \cap Tickers = {}
  BY LiteAssumption DEF LiteInv, Planned
<1>2. CASE p \in Submitters
  <2> DEFINE i == Min(request[p].todo)
  <2>1. /\ request[p].pc = "events" /\ request[p].todo # {}
        /\ cons' = [cons EXCEPT ![p] = Handling(i, request[p].left)]
        /\ request'[p].pc = "events" /\ request'[p].batch = request[p].batch
    BY <1>1, <1>2 DEF Begins
  <2>2. i \in DOMAIN log /\ \E o \in request[p].batch : i \in PlanAt(o)
    <3>1. i \in request[p].todo /\ \E o \in request[p].batch : i \in PlanAt(o)
      BY <1>2, <2>1, NextIs
    <3>2. request[p].todo \in SUBSET DOMAIN log
      BY <1>2 DEF LiteInv, LiteTypeOK
    <3> QED
      BY <3>1, <3>2
  <2>3. request[p].left \in TimeLeft
    BY <1>2 DEF LiteInv, LiteTypeOK
  <2> HIDE DEF i
  <2>4. i \in 1..Len(log) /\ log[i] # Null
    BY <1>1, <2>2, LogEvents
  <2> QED
    BY <1>2, <2>1, <2>2, <2>3, <2>4
<1>3. CASE p \notin Submitters
  <2>1. PICK o \in pass[p].due : cons' = [cons EXCEPT ![p] = Handling(PaidAt(o), pass[p].left)]
    BY <1>3 DEF Begins
  <2>2. p \in Tickers /\ pass[p].left \in TimeLeft /\ o \in Orders /\ Timed(o)
    <3>1. p \in Tickers
      BY <1>3, LiteAssumption
    <3> QED
      BY <2>1, <3>1 DEF LiteInv, LiteTypeOK, OwnPayments
  <2>3. PaidAt(o) \in 1..Len(log) /\ log[PaidAt(o)] = EnvelopeToEvent(Merchant(o, "paid"))
    BY <1>1, <2>2, PaidFound
  <2>4. log[PaidAt(o)] # Null
    BY <1>1, <2>3, LogEvents
  <2> QED
    BY <1>3, <2>1, <2>2, <2>3, <2>4
<1> QED
  BY <1>2, <1>3

LEMMA ResType ==
  ASSUME LiteInv, Serves, [LiteNext]_liteVars
  PROVE  res' \in [Resolvers -> Resolution] /\ faults' \in 0..MaxFaults
<1>1. /\ res \in [Resolvers -> Resolution] /\ faults \in 0..MaxFaults /\ Resolvers = Tickers
      /\ IdleResolution \in Resolution
  BY LiteAssumption, IdleTypes DEF LiteInv, LiteTypeOK, TypeOK
<1>2. CASE UNCHANGED <<res, faults>>
  BY <1>1, <1>2
<1>3. ASSUME NEW t \in Tickers, ListArmed(t)
      PROVE  res' \in [Resolvers -> Resolution] /\ faults' = faults
  <2> DEFINE orphans == {o \in Orders : Orphaned(rows[o])}
  <2>1. PICK batch \in SUBSET orphans :
          res' = [res EXCEPT ![t] = Turn([IdleResolution EXCEPT !.batch = batch, !.left = pass[t].left])]
    BY <1>3 DEF ListArmed, FirstDue
  <2> DEFINE s == [IdleResolution EXCEPT !.batch = batch, !.left = pass[t].left]
  <2>2. s \in Resolution
    <3>1. pass[t].left \in TimeLeft /\ batch \in SUBSET Orders
      BY <2>1 DEF LiteInv, LiteTypeOK
    <3> QED
      BY <1>1, <3>1 DEF Resolution
  <2>3. res' = [res EXCEPT ![t] = Turn(s)]
    BY <2>1
  <2> HIDE DEF s
  <2>4. Turn(s) \in Resolution
    BY <2>2, TurnType
  <2> QED
    BY <1>1, <1>3, <2>3, <2>4 DEF ListArmed
<1>4. ASSUME NEW t \in Tickers, NextOrder(t)
      PROVE  res' \in [Resolvers -> Resolution] /\ faults' = faults
  <2>1. res' = [res EXCEPT ![t] = Turn(res[t])] /\ res[t] \in Resolution
    BY <1>1, <1>4 DEF NextOrder
  <2>2. Turn(res[t]) \in Resolution
    BY <2>1, TurnType
  <2> QED
    BY <1>1, <1>4, <2>1, <2>2 DEF NextOrder
<1>5. ASSUME NEW t \in Tickers, OutOfTime(t) \/ KillTick(t)
      PROVE  res' \in [Resolvers -> Resolution] /\ faults' \in 0..MaxFaults
  <2>1. res' = [res EXCEPT ![t] = IdleResolution]
    BY <1>5 DEF OutOfTime, KillTick
  <2>2. faults' \in 0..MaxFaults
    BY <1>1, <1>5, PipelineAssumption DEF OutOfTime, KillTick, Fault
  <2> QED
    BY <1>1, <2>1, <2>2
<1>6. ASSUME NEW p \in Consumers, Reconcile(p)
      PROVE  UNCHANGED <<res, faults>>
  BY <1>6 DEF Reconcile, ReadRow, ReadView, ApplyAs
<1>7. ASSUME NEW s \in Submitters,
             Submit(s) \/ Count(s) \/ Insert(s) \/ NextEnvelope(s)
      PROVE  UNCHANGED <<res, faults>>
  BY <1>7 DEF Submit, Count, Insert, NextEnvelope
<1>8. CASE LoseTickLock \/ \E s \in Submitters : KillSubmit(s)
  BY <1>1, <1>8, PipelineAssumption DEF LoseTickLock, KillSubmit, Fault
<1>9. ASSUME NEW t \in Tickers,
             \/ Begin(t) \/ TryLock(t) \/ ListDue(t) \/ FilterDue(t) \/ Paid(t) \/ Reclaim(t)
             \/ Resolved(t) \/ \E o \in Orders : Pay(t, o)
      PROVE  UNCHANGED <<res, faults>>
  BY <1>9 DEF Begin, TryLock, ListDue, FilterDue, Paid, Reclaim, Resolved, Pay
<1>10. ASSUME NEW t \in Tickers, ResolveOne(t)
       PROVE  res' \in [Resolvers -> Resolution] /\ faults' \in 0..MaxFaults
  <2>1. ResolveStep(t) \/ FailResolution(t)
    BY <1>10 DEF ResolveOne, ResolveStep
  <2>2. TypeOK /\ RetryBudget /\ ResolversOnOrders
    BY DEF LiteInv, StoreInv
  <2>3. TypeOK'
    BY <1>1, <2>1, <2>2, ResolverType, FaultType
  <2> QED
    BY <2>3 DEF TypeOK
<1>11. CASE Elapse
  <2>1. res' \in [Resolvers -> Resolution]
    BY <1>11, TimeType DEF Elapse, LiteInv, StoreInv
  <2> QED
    BY <1>1, <1>11, <2>1 DEF Elapse
<1>12. CASE UNCHANGED liteVars
  BY <1>2, <1>12 DEF liteVars, vars
<1> QED
  BY <1>2, <1>3, <1>4, <1>5, <1>6, <1>7, <1>8, <1>9, <1>10, <1>11, <1>12, <1>1 DEF LiteNext

LEMMA LiteTypes ==
  ASSUME LiteInv, [LiteNext]_liteVars
  PROVE  TypeOK'
<1>1. /\ TypeOK /\ RetryBudget /\ ResolversOnOrders /\ HandlersHaveEvents
      /\ Resolvers = Tickers /\ Consumers = Submitters \cup Tickers
  BY LiteAssumption DEF LiteInv, StoreInv
<1>2. UNCHANGED redisVars /\ UNCHANGED kafkaVars
  BY LiteFrame
<1>3. ASSUME NEW p \in Consumers, Reconcile(p)
      PROVE  TypeOK'
  <2>1. ConsumerStep(p)
    BY <1>3, ReconcileIs DEF ConsumerStep
  <2> QED
    BY <1>1, <2>1, ConsumerType
<1>4. ASSUME NEW t \in Tickers, ResolveOne(t)
      PROVE  TypeOK'
  <2>1. ResolveStep(t) \/ FailResolution(t)
    BY <1>4 DEF ResolveOne, ResolveStep
  <2> QED
    BY <1>1, <2>1, ResolverType, FaultType
<1>5. ASSUME NEW t \in Tickers, Reclaim(t)
      PROVE  TypeOK'
  <2>1. ReclaimStuck /\ UNCHANGED <<res, faults>>
    BY <1>5 DEF Reclaim
  <2>2. UNCHANGED <<views, claims>>
    BY <2>1 DEF ReclaimStuck
  <2>3. /\ rows' \in [Orders -> Row \cup {Null}] /\ audit' \subseteq AuditEntry
        /\ reviews' \subseteq ReviewItem /\ cons' \in [Consumers -> Handler]
    BY <1>1, <2>1, ReclaimType
  <2> QED
    BY <1>1, <1>2, <2>1, <2>2, <2>3 DEF TypeOK, redisVars, kafkaVars
<1>6. CASE Elapse
  <2>1. TimePasses /\ UNCHANGED faults
    BY <1>6 DEF Elapse
  <2>2. UNCHANGED <<views, audit, reviews, claims>>
    BY <2>1 DEF TimePasses
  <2>3. /\ rows' \in [Orders -> Row \cup {Null}] /\ cons' \in [Consumers -> Handler]
        /\ res' \in [Resolvers -> Resolution]
    BY <1>1, <2>1, TimeType
  <2> QED
    BY <1>1, <1>2, <2>1, <2>2, <2>3 DEF TypeOK, redisVars, kafkaVars
<1>7. CASE Serves
  <2>1. cons \in [Consumers -> Handler] /\ IdleHandler \in Handler
    BY <1>1, IdleTypes DEF TypeOK
  <2>2. cons' \in [Consumers -> Handler]
    <3>1. ASSUME NEW p \in Consumers, Begins(p)
          PROVE  cons' \in [Consumers -> Handler]
      <4>1. PICK i \in 1..Len(log), left \in TimeLeft : cons' = [cons EXCEPT ![p] = Handling(i, left)]
        BY <3>1, BeginsType
      <4>2. i \in Nat
        BY LogEvents DEF LiteInv, Planned
      <4>3. Handling(i, left) \in Handler
        BY <4>2, HandlingType
      <4> QED
        BY <2>1, <4>1, <4>3
    <3> QED
      BY <1>7, <2>1, <3>1 DEF Serves
  <2>3. UNCHANGED dbVars
    BY <1>7 DEF Serves
  <2> QED
    BY <1>1, <1>2, <1>7, <2>2, <2>3, ResType, ServeType
<1> QED
  BY <1>3, <1>4, <1>5, <1>6, <1>7, ServeSteps

LEMMA LiteStore ==
  ASSUME LiteInv, [LiteNext]_liteVars
  PROVE  StoreInv' /\ RecordInv'
<1>1. TypeOK' /\ TypeOK /\ StoreInv /\ RecordInv
  BY LiteTypes DEF LiteInv, StoreInv
<1>2. /\ AuditStep /\ RecordStep /\ \A o \in Orders : OrderStep(o)
      /\ \A o \in Orders : DeadlineStep(rows[o], rows'[o])
  BY LiteSteps
<1>3. ResolversOnOrders' /\ TokensDiffer'
  BY LiteClaims
<1> QED
  BY <1>1, <1>2, <1>3, StoreKept, RecordsKept

-----------------------------------------------------------------------------
(* The handlers.                                                           *)

\* Function p works on an event that is its own to reconcile.
Owns(p) ==
  IF p \in Submitters
  THEN request[p].pc = "events" /\ \E o \in request[p].batch : cons[p].at \in PlanAt(o)
  ELSE \E o \in Orders : Timed(o) /\ log[cons[p].at] = EnvelopeToEvent(Merchant(o, "paid"))

ReadHolds(p) ==
  cons[p].pc \in {"view", "apply"} =>
    IF cons[p].status = Null THEN p \in Submitters => rows[OrderAt(p)] = Null
    ELSE /\ rows[OrderAt(p)] # Null
         /\ cons[p].moved \/ cons[p].status = rows[OrderAt(p)].status

LiteHandler(p) ==
  /\ HandlerHasEvent(p)
  /\ cons[p].pc # "idle" => Owns(p)
  /\ (cons[p].pc = "apply" /\ Timed(OrderAt(p))) => Plain(cons[p].view)
  /\ ReadHolds(p)

LEMMA LiteHandlers ==
  ASSUME LiteInv
  PROVE  \A p \in Consumers : LiteHandler(p)
BY LiteAssumption DEF LiteInv, HandlersHaveEvents, OwnPlans, OwnPayments, ViewsPlain, ReadsHold,
   LiteHandler, Owns, ReadHolds

\* The request of a handler goes on with its batch.
GoesOn(p) ==
  (p \in Submitters /\ cons[p].pc # "idle") =>
    request'[p].pc = "events" /\ request'[p].batch = request[p].batch

LEMMA PlansStay ==
  ASSUME [LiteNext]_liteVars
  PROVE  /\ log' = log /\ scenario' = scenario /\ \A o : PlanAt(o)' = PlanAt(o)
         /\ \A o : Timed(o)' = Timed(o)
<1>1. log' = log /\ scenario' = scenario
  BY LiteFrame DEF kafkaVars
<1> QED
  BY <1>1 DEF PlanAt, Timed

LEMMA HandlerWaits ==
  ASSUME [LiteNext]_liteVars, NEW p \in Consumers, LiteHandler(p), GoesOn(p), ReadHolds(p)',
         cons'[p].pc = cons[p].pc, cons'[p].at = cons[p].at, cons'[p].view = cons[p].view
  PROVE  LiteHandler(p)'
<1>1. log' = log /\ scenario' = scenario
  BY PlansStay
<1>2. /\ cons'[p].pc = cons[p].pc /\ cons'[p].at = cons[p].at /\ cons'[p].view = cons[p].view
      /\ OrderAt(p)' = OrderAt(p) /\ Timed(OrderAt(p))' = Timed(OrderAt(p))
  BY <1>1 DEF OrderAt, Timed
<1>3. HandlerHasEvent(p)'
  BY <1>1, <1>2 DEF LiteHandler, HandlerHasEvent
<1>4. (cons[p].pc # "idle" => Owns(p))'
  <2>1. SUFFICES ASSUME cons[p].pc # "idle", Owns(p) PROVE Owns(p)'
    BY <1>2 DEF LiteHandler
  <2>2. CASE p \in Submitters
    <3>1. request'[p].pc = "events" /\ request'[p].batch = request[p].batch
      BY <2>1, <2>2 DEF GoesOn
    <3>2. \A o : PlanAt(o)' = PlanAt(o)
      BY PlansStay
    <3>3. PICK o \in request[p].batch : cons[p].at \in PlanAt(o)
      BY <2>1, <2>2 DEF Owns
    <3>4. o \in request'[p].batch /\ cons'[p].at \in PlanAt(o)'
      BY <1>2, <3>1, <3>2, <3>3
    <3>5. \E x \in request'[p].batch : cons'[p].at \in PlanAt(x)'
      BY <3>4
    <3> QED
      BY <2>2, <3>1, <3>5 DEF Owns
  <2>3. CASE p \notin Submitters
    BY <1>1, <1>2, <2>1, <2>3 DEF Owns, Timed
  <2> QED
    BY <2>2, <2>3
<1>5. ((cons[p].pc = "apply" /\ Timed(OrderAt(p))) => Plain(cons[p].view))'
  BY <1>2 DEF LiteHandler, Plain
<1> QED
  BY <1>3, <1>4, <1>5 DEF LiteHandler

LEMMA HandlerStays ==
  ASSUME [LiteNext]_liteVars, NEW p \in Consumers, LiteHandler(p), GoesOn(p), HandlerTold(p)
  PROVE  LiteHandler(p)'
<1>1. /\ cons'[p].pc = cons[p].pc /\ cons'[p].at = cons[p].at
      /\ cons'[p].status = cons[p].status /\ cons'[p].view = cons[p].view
      /\ OrderAt(p)' = OrderAt(p)
  BY PlansStay DEF HandlerTold, OrderAt
<1>2. ReadHolds(p)'
  <2>1. SUFFICES ASSUME cons[p].pc \in {"view", "apply"} PROVE ReadHolds(p)'
    BY <1>1 DEF ReadHolds
  <2>2. RowStays(p)
    BY <2>1 DEF HandlerTold
  <2> QED
    BY <1>1, <2>1, <2>2 DEF LiteHandler, ReadHolds, RowStays
<1> QED
  BY <1>1, <1>2, HandlerWaits

LEMMA HandlerRests ==
  ASSUME NEW p \in Consumers, cons'[p].pc = "idle"
  PROVE  LiteHandler(p)'
BY DEF LiteHandler, HandlerHasEvent, ReadHolds

LEMMA HandlerSame ==
  ASSUME TypeOK, NEW p \in Consumers, cons'[p] = cons[p], UNCHANGED rows
  PROVE  HandlerTold(p)
BY HandlerType DEF HandlerTold, RowStays

LEMMA ServeHandlers ==
  ASSUME LiteInv, [LiteNext]_liteVars, Serves,
         \A p \in Consumers : cons'[p].pc = "idle" \/ Begins(p) \/ GoesOn(p)
  PROVE  \A p \in Consumers : LiteHandler(p)'
<1>1. TypeOK /\ UNCHANGED rows /\ cons \in [Consumers -> Handler]
  BY DEF LiteInv, StoreInv, TypeOK, Serves, dbVars
<1>2. ASSUME NEW p \in Consumers, cons'[p] = cons[p]
      PROVE  LiteHandler(p)'
  <2>1. HandlerTold(p) /\ LiteHandler(p)
    BY <1>1, <1>2, HandlerSame, LiteHandlers
  <2>2. CASE cons'[p].pc = "idle"
    BY <2>2, HandlerRests
  <2>3. CASE GoesOn(p)
    BY <2>1, <2>3, HandlerStays
  <2>4. CASE Begins(p) /\ cons'[p].pc # "idle"
    <3>1. GoesOn(p)
      BY <2>4, LiteAssumption DEF Begins, GoesOn
    <3> QED
      BY <2>1, <3>1, HandlerStays
  <2> QED
    BY <2>2, <2>3, <2>4
<1>3. CASE UNCHANGED cons
  BY <1>2, <1>3
<1>4. ASSUME NEW p \in Consumers, cons' = [cons EXCEPT ![p] = IdleHandler]
      PROVE  \A q \in Consumers : LiteHandler(q)'
  <2>1. cons'[p].pc = "idle" /\ \A q \in Consumers : q # p => cons'[q] = cons[q]
    BY <1>1, <1>4 DEF IdleHandler
  <2> QED
    BY <1>2, <2>1, HandlerRests
<1>5. ASSUME NEW p \in Consumers, Begins(p)
      PROVE  \A q \in Consumers : LiteHandler(q)'
  <2>1. PICK i \in 1..Len(log), left \in TimeLeft :
           /\ cons' = [cons EXCEPT ![p] = Handling(i, left)]
           /\ log[i] # Null
           /\ IF p \in Submitters
              THEN /\ request'[p].pc = "events"
                   /\ \E o \in request'[p].batch : i \in PlanAt(o)
              ELSE \E o \in Orders : Timed(o) /\ log[i] = EnvelopeToEvent(Merchant(o, "paid"))
    BY <1>5, BeginsType
  <2>2. i \in Nat /\ Handling(i, left).pc = "row" /\ Handling(i, left).at = i
    <3>1. Planned
      BY DEF LiteInv, Planned
    <3>2. i \in Nat
      BY <3>1, LogEvents
    <3> QED
      BY <3>2, HandlingType
  <2>3. cons'[p].pc = "row" /\ cons'[p].at = i /\ \A q \in Consumers : q # p => cons'[q] = cons[q]
    BY <1>1, <2>1, <2>2
  <2>4. LiteHandler(p)'
    <3>1. log' = log /\ scenario' = scenario /\ \A o : PlanAt(o)' = PlanAt(o)
      BY PlansStay
    <3>2. HandlerHasEvent(p)'
      BY <2>1, <2>3, <3>1 DEF HandlerHasEvent
    <3>3. Owns(p)'
      <4>1. CASE p \in Submitters
        <5>1. PICK o \in request'[p].batch : i \in PlanAt(o)
          BY <2>1, <4>1
        <5>2. cons'[p].at \in PlanAt(o)'
          BY <2>3, <3>1, <5>1
        <5>3. \E x \in request'[p].batch : cons'[p].at \in PlanAt(x)'
          BY <5>2
        <5> QED
          BY <2>1, <4>1, <5>3 DEF Owns
      <4>2. CASE p \notin Submitters
        BY <2>1, <2>3, <3>1, <4>2 DEF Owns, Timed
      <4> QED
        BY <4>1, <4>2
    <3> QED
      BY <2>3, <3>2, <3>3 DEF LiteHandler, ReadHolds
  <2> QED
    BY <1>2, <2>3, <2>4
<1> QED
  BY <1>3, <1>4, <1>5 DEF Serves

\* Reading leaves every other handler alone.
LEMMA ReadHandlers ==
  ASSUME LiteInv, [LiteNext]_liteVars, NEW p \in Consumers, Reconcile(p), ReadRow(p) \/ ReadView(p)
  PROVE  \A q \in Consumers : LiteHandler(q)'
<1>1. /\ TypeOK /\ HandlersHaveEvents /\ UNCHANGED rows /\ cons \in [Consumers -> Handler]
      /\ UNCHANGED <<request, log, scenario>> /\ LiteHandler(p)
  BY LiteHandlers DEF LiteInv, StoreInv, TypeOK, ReadRow, ReadView, dbVars, kafkaVars, Reconcile
<1>2. ASSUME NEW q \in Consumers, q # p
      PROVE  LiteHandler(q)'
  <2>1. cons'[q] = cons[q]
    BY <1>1, <1>2 DEF ReadRow, ReadView
  <2>2. GoesOn(q)
    BY <1>1, LiteHandlers DEF GoesOn, LiteHandler, Owns
  <2> QED
    BY <1>1, <2>1, <2>2, HandlerSame, HandlerStays, LiteHandlers
<1>3. CASE ReadRow(p)
  <2> DEFINE r == rows[log[cons[p].at].order]
             status == IF r = Null THEN Null ELSE r.status
  <2>1. /\ cons[p].pc = "row" /\ cons' = [cons EXCEPT ![p] = [cons[p] EXCEPT !.pc = "view", !.status = status]]
    BY <1>1, <1>3 DEF ReadRow
  <2>2. /\ cons'[p].pc = "view" /\ cons'[p].at = cons[p].at /\ cons'[p].status = status
    BY <1>1, <2>1 DEF Handler
  <2>3. OrderAt(p)' = OrderAt(p) /\ OrderAt(p) \in Orders
    BY <1>1, <2>1, <2>2, EventAt DEF OrderAt
  <2>4. ReadHolds(p)'
    <3>1. r # Null => r.status # Null
      BY <1>1, <2>3, NullAssumption DEF TypeOK, Row, OrderAt
    <3>2. rows'[OrderAt(p)'] = r
      BY <1>1, <2>3 DEF OrderAt
    <3> HIDE DEF r
    <3> QED
      BY <2>2, <3>1, <3>2 DEF ReadHolds
  <2>5. Owns(p)'
    <3>1. Owns(p)
      BY <1>1, <2>1 DEF LiteHandler
    <3> QED
      BY <1>1, <2>2, <3>1 DEF Owns, PlanAt, Timed
  <2>6. HandlerHasEvent(p)'
    BY <1>1, <2>1, <2>2 DEF LiteHandler, HandlerHasEvent
  <2> QED
    BY <1>2, <2>2, <2>4, <2>5, <2>6 DEF LiteHandler
<1>4. CASE ReadView(p)
  <2> DEFINE v == OrElse(views[log[cons[p].at].order], EmptyView)
  <2>1. cons[p].pc = "view" /\ cons' = [cons EXCEPT ![p] = [cons[p] EXCEPT !.pc = "apply", !.view = v]]
    BY <1>1, <1>4 DEF ReadView
  <2>2. /\ cons'[p].pc = "apply" /\ cons'[p].at = cons[p].at /\ cons'[p].status = cons[p].status
        /\ cons'[p].moved = cons[p].moved /\ cons'[p].view = v
    BY <1>1, <2>1 DEF Handler
  <2>3. OrderAt(p)' = OrderAt(p) /\ OrderAt(p) \in Orders
    BY <1>1, <2>1, <2>2, EventAt DEF OrderAt
  <2>4. v \in View /\ (Timed(OrderAt(p)) => Plain(v))
    <3>1. EmptyView \in View /\ Plain(EmptyView)
      BY NullAssumption DEF Plain, EmptyView, View, PaymentStatus
    <3>2. views[OrderAt(p)] \in View \cup {Null}
      BY <1>1, <2>3 DEF TypeOK
    <3>3. (Timed(OrderAt(p)) /\ views[OrderAt(p)] # Null) => Plain(views[OrderAt(p)])
      BY <2>3 DEF LiteInv, ViewsPlain
    <3>4. v = OrElse(views[OrderAt(p)], EmptyView)
      BY DEF OrderAt
    <3> HIDE DEF v
    <3> QED
      BY <3>1, <3>2, <3>3, <3>4 DEF OrElse
  <2> HIDE DEF v
  <2>5. ReadHolds(p)'
    BY <1>1, <2>1, <2>2, <2>3 DEF ReadHolds, LiteHandler
  <2>6. Owns(p)'
    <3>1. Owns(p)
      BY <1>1, <2>1 DEF LiteHandler
    <3> QED
      BY <1>1, <2>2, <3>1 DEF Owns, PlanAt, Timed
  <2>7. HandlerHasEvent(p)'
    BY <1>1, <2>1, <2>2, <2>4 DEF LiteHandler, HandlerHasEvent
  <2>8. (Timed(OrderAt(p)) => Plain(cons[p].view))'
    BY <1>1, <2>2, <2>3, <2>4 DEF Timed, Plain
  <2> QED
    BY <1>2, <2>2, <2>5, <2>6, <2>7, <2>8 DEF LiteHandler
<1> QED
  BY <1>3, <1>4

LEMMA OwnOrder ==
  ASSUME LiteInv, NEW s \in Submitters, cons[s].pc \in {"row", "view", "apply"}
  PROVE  /\ OrderAt(s) \in request[s].batch /\ OrderAt(s) \in Orders
         /\ Timed(OrderAt(s)) => log[cons[s].at].sub = Null /\ log[cons[s].at].payment # "refunded"
<1>1. PICK o \in request[s].batch : cons[s].at \in PlanAt(o)
  BY DEF LiteInv, OwnPlans
<1>2. o \in Orders /\ scenario[o] # Null /\ Planned
  BY <1>1 DEF LiteInv, LiteTypeOK, OwnPlans, Planned
<1>3. log[cons[s].at].order = o
      /\ (Timed(o) => log[cons[s].at].sub = Null /\ log[cons[s].at].payment # "refunded")
  BY <1>1, <1>2, PlanEvents
<1> QED
  BY <1>1, <1>2, <1>3 DEF OrderAt

\* Only a request can bring a row to life, and only for an order of its own.
LEMMA CreatorOwns ==
  ASSUME LiteInv, NEW p \in Consumers, cons[p].pc = "apply", rows[OrderAt(p)] = Null,
         PointerMoves(Decides(p), rows[OrderAt(p)], cons[p])
  PROVE  p \in Submitters
<1>1. LiteHandler(p)
  BY LiteHandlers
<1>2. SUFFICES ASSUME p \in Tickers PROVE FALSE
  BY LiteAssumption
<1>3. cons[p].status = Null
  BY <1>1 DEF LiteHandler, ReadHolds
<1>4. cons[p].view \in View /\ Plain(cons[p].view)
  BY <1>1, <1>2, PaymentIs DEF LiteHandler, HandlerHasEvent
<1>5. Decides(p).action \notin {"ARM_RECHECK", "ROUTE_DISPUTED"}
  BY <1>2, <1>3, <1>4, PaymentIs, PaymentArmsNothing DEF Decides
<1>6. ~CanResolve(rows[OrderAt(p)])
  BY DEF CanResolve
<1> QED
  BY <1>5, <1>6 DEF PointerMoves

LEMMA ApplyHandlers ==
  ASSUME LiteInv, [LiteNext]_liteVars, NEW p \in Consumers, Reconcile(p), Apply(p)
  PROVE  /\ \A q \in Consumers : LiteHandler(q)'
         /\ \A o \in Orders : (Timed(o)' /\ views'[o] # Null) => Plain(views'[o])
<1> DEFINE h == cons[p]
           o == OrderAt(p)
           result == Evaluate(log[h.at], h.view, h.status, FALSE)
           moves == PointerMoves(Decides(p), rows[o], h)
           marked == [IdleHandler EXCEPT !.pc = "mark", !.at = h.at]
           done == IF Decides(p).action = "ARM_RECHECK" /\ moves
                   THEN [marked EXCEPT !.push = TRUE, !.left = h.left] ELSE marked
<1>1. /\ TypeOK /\ HandlersHaveEvents /\ cons \in [Consumers -> Handler] /\ LiteHandler(p)
      /\ UNCHANGED <<request, log, scenario>> /\ h.pc = "apply" /\ result.decision = Decides(p)
  BY LiteHandlers DEF LiteInv, StoreInv, TypeOK, Apply, ApplyAs, Overtaken, kafkaVars, Reconcile, Decides
<1>2. o \in Orders /\ log[h.at] \in Event /\ h.view \in View
  BY <1>1, EventAt DEF LiteHandler, HandlerHasEvent
<1>3. \/ cons' = [cons EXCEPT ![p] = marked] /\ UNCHANGED dbVars
      \/ /\ views' = [views EXCEPT ![o] = result.view]
         /\ rows' = IF moves THEN [rows EXCEPT ![o] = NewPointer(Decides(p), rows[o], h)] ELSE rows
         /\ cons' = [(IF moves THEN Overtaken(p, o) ELSE cons) EXCEPT ![p] = done]
  BY <1>1, Zenon DEF Apply, ApplyAs, Overtaken, OrderAt, Decides
<1>4. \A q \in Consumers : GoesOn(q)
  BY <1>1, LiteHandlers DEF GoesOn, LiteHandler, Owns
<1>5. cons'[p].pc = "mark" /\ cons'[p].at = h.at
  <2>1. marked.pc = "mark" /\ marked.at = h.at /\ done.pc = "mark" /\ done.at = h.at
    BY DEF IdleHandler
  <2>2. p \in DOMAIN cons /\ p \in DOMAIN Overtaken(p, o)
    BY <1>1 DEF Overtaken, Told
  <2> HIDE DEF marked, done, moves
  <2> QED
    BY <1>3, <2>1, <2>2
<1>6. moves => PointerMoves(Decides(p), rows[o], h) /\ NewPointer(Decides(p), rows[o], h) # Null
  <2>1. rows[o] \in Row \cup {Null} /\ h.left \in TimeLeft
    BY <1>1, <1>2, HandlerType DEF TypeOK
  <2> QED
    BY <2>1, NewPointerType, NullColumnAssumption
<1>7. LiteHandler(p)'
  <2>1. Owns(p) /\ HandlerHasEvent(p)
    BY <1>1 DEF LiteHandler
  <2>2. Owns(p)'
    BY <1>1, <1>5, <2>1 DEF Owns, PlanAt, Timed
  <2>3. HandlerHasEvent(p)'
    BY <1>1, <1>5, <2>1 DEF HandlerHasEvent
  <2> QED
    BY <1>5, <2>2, <2>3 DEF LiteHandler, ReadHolds
<1>8. ASSUME NEW q \in Consumers, q # p, cons'[q] = cons[q],
             cons[q].pc \in {"view", "apply"} => rows'[OrderAt(q)] = rows[OrderAt(q)]
      PROVE  LiteHandler(q)'
  <2>1. HandlerTold(q)
    BY <1>1, <1>8, HandlerType DEF HandlerTold, RowStays
  <2> QED
    BY <1>4, <2>1, HandlerStays, LiteHandlers
<1>9. ASSUME NEW q \in Consumers, cons[q].pc \in {"view", "apply"}
      PROVE  OrderAt(q) \in Orders
  BY <1>1, <1>9, EventAt
<1>10. ASSUME NEW q \in Consumers, q # p, moves,
              rows' = [rows EXCEPT ![o] = NewPointer(Decides(p), rows[o], h)],
              cons'[q] = [cons[q] EXCEPT !.moved = TRUE],
              cons[q].pc \in {"view", "apply"}, OrderAt(q) = o
       PROVE  LiteHandler(q)'
  <2>1. /\ cons'[q].pc = cons[q].pc /\ cons'[q].at = cons[q].at /\ cons'[q].status = cons[q].status
        /\ cons'[q].view = cons[q].view /\ cons'[q].moved
    BY <1>1, <1>10, HandlerType DEF Handler
  <2>2. rows'[o] # Null
    BY <1>1, <1>2, <1>6, <1>10 DEF TypeOK
  <2>3. CASE rows[o] # Null
    <3>1. HandlerTold(q)
      BY <1>10, <2>1, <2>2, <2>3 DEF HandlerTold, RowStays
    <3> QED
      BY <1>4, <3>1, HandlerStays, LiteHandlers
  <2>4. CASE rows[o] = Null
    <3>1. LiteHandler(q)
      BY LiteHandlers
    <3>2. cons[q].status = Null
      BY <1>10, <2>4, <3>1 DEF LiteHandler, ReadHolds
    <3>3. p \in Submitters
      BY <1>1, <1>10, <2>4, CreatorOwns
    <3>4. q \notin Submitters
      <4>1. OrderAt(p) \in request[p].batch
        BY <1>1, <3>3, OwnOrder
      <4>2. q \in Submitters => OrderAt(q) \in request[q].batch
        BY <1>10, OwnOrder
      <4> QED
        BY <1>10, <3>3, <4>1, <4>2 DEF LiteInv, OwnPlans
    <3>5. ReadHolds(q)'
      BY <2>1, <3>2, <3>4 DEF ReadHolds
    <3> QED
      BY <1>4, <2>1, <3>1, <3>5, HandlerWaits
  <2> QED
    BY <2>3, <2>4
<1>11. ASSUME NEW q \in Consumers
       PROVE  LiteHandler(q)'
  <2>1. CASE q = p
    BY <1>7, <2>1
  <2>2. CASE q # p /\ cons' = [cons EXCEPT ![p] = marked] /\ UNCHANGED dbVars
    <3>1. cons'[q] = cons[q] /\ UNCHANGED rows
      BY <1>1, <2>2 DEF dbVars
    <3> QED
      BY <1>8, <2>2, <3>1
  <2>3. CASE q # p /\ ~moves /\ rows' = rows /\ cons' = [cons EXCEPT ![p] = done]
    <3>1. cons'[q] = cons[q]
      BY <1>1, <2>3
    <3> QED
      BY <1>8, <2>3, <3>1
  <2>4. CASE /\ q # p /\ moves /\ rows' = [rows EXCEPT ![o] = NewPointer(Decides(p), rows[o], h)]
             /\ cons' = [Overtaken(p, o) EXCEPT ![p] = done]
    <3>1. cons'[q] = Overtaken(p, o)[q]
      BY <2>4 DEF Overtaken, Told
    <3>2. CASE cons[q].pc \in {"view", "apply"} /\ OrderAt(q) = o
      <4>1. cons'[q] = [cons[q] EXCEPT !.moved = TRUE]
        BY <2>4, <3>1, <3>2 DEF Overtaken, Told, OrderAt
      <4> QED
        BY <1>10, <2>4, <3>2, <4>1
    <3>3. CASE ~(cons[q].pc \in {"view", "apply"} /\ OrderAt(q) = o)
      <4>1. cons'[q] = cons[q]
        BY <2>4, <3>1, <3>3 DEF Overtaken, Told, OrderAt
      <4>2. cons[q].pc \in {"view", "apply"} => rows'[OrderAt(q)] = rows[OrderAt(q)]
        BY <1>1, <1>9, <2>4, <3>3 DEF TypeOK
      <4> QED
        BY <1>8, <2>4, <4>1, <4>2
    <3> QED
      BY <3>2, <3>3
  <2> HIDE DEF marked, done, moves, o
  <2> QED
    BY <1>3, <2>1, <2>2, <2>3, <2>4
<1>12. ASSUME NEW x \in Orders, Timed(x)', views'[x] # Null
       PROVE  Plain(views'[x])
  <2>1. Timed(x) /\ views \in [Orders -> View \cup {Null}]
    BY <1>1, <1>12 DEF Timed, TypeOK
  <2>2. (Timed(x) /\ views[x] # Null) => Plain(views[x])
    BY DEF LiteInv, ViewsPlain
  <2>3. CASE views' = [views EXCEPT ![o] = result.view] /\ x = o
    <3>1. Plain(h.view)
      BY <1>1, <2>1, <2>3 DEF LiteHandler
    <3>2. log[h.at].sub = Null /\ log[h.at].payment # "refunded"
      <4>1. CASE p \in Submitters
        BY <1>1, <2>1, <2>3, <4>1, OwnOrder
      <4>2. CASE p \in Tickers
        <5>1. log[h.at].payment = Null /\ log[h.at].sub = Null
          BY <1>1, <4>2, PaymentIs
        <5>2. Null # "refunded"
          BY NullAssumption DEF PaymentStatus
        <5> QED
          BY <5>1, <5>2
      <4> QED
        BY <4>1, <4>2, LiteAssumption
    <3>3. Plain(result.view)
      BY <1>2, <3>1, <3>2, PlainStays
    <3> QED
      BY <1>2, <2>1, <2>3, <3>3
  <2>4. CASE views' = [views EXCEPT ![o] = result.view] /\ x # o
    BY <1>12, <2>1, <2>2, <2>4
  <2>5. CASE UNCHANGED dbVars
    BY <1>12, <2>1, <2>2, <2>5 DEF dbVars
  <2> HIDE DEF o, result
  <2> QED
    BY <1>3, <2>3, <2>4, <2>5
<1> QED
  BY <1>11, <1>12

-----------------------------------------------------------------------------
(* What a step does to a request, to a tick and to a merchant's record.    *)

RequestStep(s) ==
  LET r == request[s]
      q == request'[s]
  IN \/ /\ q.pc = r.pc /\ q.batch = r.batch /\ q.todo = r.todo /\ q.live = r.live
        /\ q.left = r.left \/ (r.pc # "idle" /\ Elapse /\ q.left = Sooner(r.left))
     \/ q = IdleRequest /\ (r.pc # "events" \/ cons'[s].pc = "idle")
     \/ /\ r.pc = "idle" /\ q.left = RecheckDelay /\ q.live = 0 /\ q.todo = {}
        /\ q.pc = "count" /\ merchant' = merchant
        /\ \A o \in q.batch : scenario[o] # Null /\ merchant[o] = Null
        /\ \A p \in Submitters : request[p].batch \cap q.batch = {}
     \/ /\ q.batch = r.batch /\ q.left = r.left /\ q.live \in {r.live, Cardinality(Live)}
        /\ \/ r.pc = "count" /\ q.pc = "insert" /\ merchant' = merchant
           \/ /\ r.pc = "insert" /\ q.pc = "events"
              /\ \A o \in r.batch : merchant'[o] = NewMerchant(o, r.left)
        /\ q.todo \subseteq r.todo \cup UNION {PlanAt(o) : o \in r.batch}
     \/ /\ q.batch = r.batch /\ q.left = r.left /\ q.live = r.live
        /\ r.pc = "events" /\ q.pc = "events" /\ q.todo \subseteq r.todo

\* The batch of no more than one request changes.
RequestsStep ==
  /\ \A s \in Submitters : RequestStep(s)
  /\ \E s : \A q \in Submitters : q # s => request'[q].batch = request[q].batch

\* A step that gives one request a new record, or none.
LEMMA OneRequest ==
  ASSUME CapInv, NEW s \in Submitters, NEW q, request' = [request EXCEPT ![s] = q], RequestStep(s)
  PROVE  RequestsStep
<1>1. \A p \in Submitters : p # s => request'[p] = request[p]
  BY DEF CapInv
<1>2. \A p \in Submitters : RequestStep(p)
  BY <1>1 DEF RequestStep
<1> QED
  BY <1>1, <1>2 DEF RequestsStep

LEMMA SubmitSteps ==
  ASSUME LiteInv, NEW s \in Submitters,
         Submit(s) \/ Count(s) \/ Insert(s) \/ NextEnvelope(s) \/ KillSubmit(s)
  PROVE  RequestsStep
<1>1. /\ CapInv /\ request \in [Submitters -> Request] /\ request[s] \in Request /\ s \in Consumers
      /\ cons \in [Consumers -> Handler]
  BY LiteAssumption DEF LiteInv, CapInv, StoreInv, TypeOK
<1>2. CASE Submit(s)
  <2>1. PICK batch \in SUBSET {o \in Orders : scenario[o] # Null /\ merchant[o] = Null} :
          /\ request[s].pc = "idle"
          /\ \A q \in Submitters : request[q].batch \cap batch = {}
          /\ request' = [request EXCEPT ![s] = [IdleRequest EXCEPT !.pc = "count", !.batch = batch]]
          /\ merchant' = merchant
    BY <1>2 DEF Submit
  <2> DEFINE q == [IdleRequest EXCEPT !.pc = "count", !.batch = batch]
  <2>2. q.batch = batch /\ q.left = RecheckDelay /\ q.live = 0 /\ q.todo = {} /\ q.pc = "count"
    BY DEF IdleRequest
  <2>3. request' = [request EXCEPT ![s] = q] /\ request'[s] = q
    BY <1>1, <2>1
  <2> HIDE DEF q
  <2>4. RequestStep(s)
    BY <2>1, <2>2, <2>3 DEF RequestStep
  <2> QED
    BY <1>1, <2>3, <2>4, OneRequest
<1>3. CASE Count(s)
  <2> DEFINE q == [request[s] EXCEPT !.pc = "insert", !.live = Cardinality(Live)]
  <2>1. /\ q.batch = request[s].batch /\ q.left = request[s].left /\ q.live = Cardinality(Live)
        /\ q.todo = request[s].todo /\ q.pc = "insert"
    BY <1>1 DEF Request
  <2>2. /\ request[s].pc = "count" /\ request' = [request EXCEPT ![s] = q] /\ request'[s] = q
        /\ merchant' = merchant
    BY <1>1, <1>3 DEF Count
  <2> HIDE DEF q
  <2>3. RequestStep(s)
    BY <2>1, <2>2 DEF RequestStep
  <2> QED
    BY <1>1, <2>2, <2>3, OneRequest
<1>4. CASE Insert(s)
  <2> DEFINE plans == UNION {PlanAt(o) : o \in request[s].batch}
             q == [request[s] EXCEPT !.pc = "events", !.todo = plans]
  <2>1. /\ q.batch = request[s].batch /\ q.left = request[s].left /\ q.live = request[s].live
        /\ q.todo = plans /\ q.pc = "events"
    BY <1>1 DEF Request
  <2>2. /\ request[s].pc = "insert"
        /\ \/ request' = [request EXCEPT ![s] = IdleRequest]
           \/ /\ request' = [request EXCEPT ![s] = q]
              /\ merchant' = [o \in Orders |-> IF o \in request[s].batch
                                              THEN NewMerchant(o, request[s].left) ELSE merchant[o]]
    BY <1>1, <1>4, Zenon DEF Insert
  <2> HIDE DEF q
  <2>3. CASE request' = [request EXCEPT ![s] = IdleRequest]
    <3>1. RequestStep(s)
      BY <1>1, <2>2, <2>3 DEF RequestStep
    <3> QED
      BY <1>1, <2>3, <3>1, OneRequest
  <2>4. CASE /\ request' = [request EXCEPT ![s] = q]
             /\ merchant' = [o \in Orders |-> IF o \in request[s].batch
                                              THEN NewMerchant(o, request[s].left) ELSE merchant[o]]
    <3>1. \A o \in request[s].batch : merchant'[o] = NewMerchant(o, request[s].left)
      BY <1>1, <2>4 DEF Request
    <3>2. RequestStep(s)
      BY <1>1, <2>1, <2>2, <2>4, <3>1 DEF RequestStep
    <3> QED
      BY <1>1, <2>4, <3>2, OneRequest
  <2> QED
    BY <2>2, <2>3, <2>4
<1>5. CASE NextEnvelope(s)
  <2> DEFINE todo == request[s].todo
             q == [request[s] EXCEPT !.todo = todo \ {Min(todo)}]
  <2>1. /\ q.batch = request[s].batch /\ q.left = request[s].left /\ q.live = request[s].live
        /\ q.todo \subseteq request[s].todo /\ q.pc = request[s].pc
    BY <1>1 DEF Request
  <2>2. /\ request[s].pc = "events"
        /\ \/ request' = [request EXCEPT ![s] = IdleRequest] /\ cons' = [cons EXCEPT ![s] = IdleHandler]
           \/ request' = [request EXCEPT ![s] = q]
    BY <1>1, <1>5 DEF NextEnvelope
  <2> HIDE DEF q
  <2>3. CASE request' = [request EXCEPT ![s] = IdleRequest] /\ cons' = [cons EXCEPT ![s] = IdleHandler]
    <3>1. cons'[s].pc = "idle"
      BY <1>1, <2>3 DEF IdleHandler
    <3>2. RequestStep(s)
      BY <1>1, <2>3, <3>1 DEF RequestStep
    <3> QED
      BY <1>1, <2>3, <3>2, OneRequest
  <2>4. CASE request' = [request EXCEPT ![s] = q]
    <3>1. RequestStep(s)
      BY <1>1, <2>1, <2>2, <2>4 DEF RequestStep
    <3> QED
      BY <1>1, <2>4, <3>1, OneRequest
  <2> QED
    BY <2>2, <2>3, <2>4
<1>6. CASE KillSubmit(s)
  <2>1. request' = [request EXCEPT ![s] = IdleRequest] /\ cons' = [cons EXCEPT ![s] = IdleHandler]
    BY <1>6 DEF KillSubmit
  <2>2. cons'[s].pc = "idle"
    BY <1>1, <2>1 DEF IdleHandler
  <2>3. RequestStep(s)
    BY <1>1, <2>1, <2>2 DEF RequestStep
  <2> QED
    BY <1>1, <2>1, <2>3, OneRequest
<1> QED
  BY <1>2, <1>3, <1>4, <1>5, <1>6

LEMMA RequestSteps ==
  ASSUME LiteInv, [LiteNext]_liteVars
  PROVE  RequestsStep
<1>1. CASE request' = request
  BY <1>1 DEF RequestStep, RequestsStep
<1>2. CASE Elapse
  <2> SUFFICES ASSUME NEW s \in Submitters
               PROVE  RequestStep(s) /\ request'[s].batch = request[s].batch
    BY DEF RequestsStep
  <2>1. request'[s] = IF Busy(s) THEN [request[s] EXCEPT !.left = Sooner(request[s].left)] ELSE request[s]
    BY <1>2 DEF Elapse, LiteInv, CapInv, Request
  <2>2. request[s] \in Request /\ (Busy(s) <=> request[s].pc # "idle")
    BY DEF LiteInv, CapInv, Busy
  <2>3. CASE ~Busy(s)
    BY <2>1, <2>3 DEF RequestStep
  <2>4. CASE Busy(s)
    <3> DEFINE q == [request[s] EXCEPT !.left = Sooner(request[s].left)]
    <3>1. /\ q.pc = request[s].pc /\ q.batch = request[s].batch /\ q.todo = request[s].todo
          /\ q.live = request[s].live /\ q.left = Sooner(request[s].left)
      BY <2>2 DEF Request
    <3>2. request'[s] = q
      BY <2>1, <2>4
    <3> HIDE DEF q
    <3> QED
      BY <1>2, <2>2, <2>4, <3>1, <3>2 DEF RequestStep
  <2> QED
    BY <2>3, <2>4
<1>3. ASSUME NEW p \in Consumers, Reconcile(p)
      PROVE  request' = request
  BY <1>3 DEF Reconcile
<1>4. ASSUME NEW t \in Tickers,
             \/ Begin(t) \/ TryLock(t) \/ ListDue(t) \/ FilterDue(t) \/ Paid(t) \/ Reclaim(t)
             \/ ListArmed(t) \/ ResolveOne(t) \/ NextOrder(t) \/ Resolved(t) \/ OutOfTime(t)
             \/ KillTick(t) \/ \E o \in Orders : Pay(t, o)
      PROVE  request' = request
  BY <1>4 DEF Begin, TryLock, ListDue, FilterDue, Paid, Reclaim, ListArmed, ResolveOne, NextOrder,
              Resolved, OutOfTime, KillTick, Pay
<1>5. CASE LoseTickLock \/ UNCHANGED liteVars
  BY <1>1, <1>5 DEF LoseTickLock, liteVars
<1>6. ASSUME NEW s \in Submitters,
             Submit(s) \/ Count(s) \/ Insert(s) \/ NextEnvelope(s) \/ KillSubmit(s)
      PROVE  RequestsStep
  BY <1>6, SubmitSteps
<1>7. \/ Elapse \/ LoseTickLock \/ UNCHANGED liteVars
      \/ \E p \in Consumers : Reconcile(p)
      \/ \E s \in Submitters :
           Submit(s) \/ Count(s) \/ Insert(s) \/ NextEnvelope(s) \/ KillSubmit(s)
      \/ \E t \in Tickers :
           \/ Begin(t) \/ TryLock(t) \/ ListDue(t) \/ FilterDue(t) \/ Paid(t) \/ Reclaim(t)
           \/ ListArmed(t) \/ ResolveOne(t) \/ NextOrder(t) \/ Resolved(t) \/ OutOfTime(t)
           \/ KillTick(t) \/ \E o \in Orders : Pay(t, o)
  BY DEF LiteNext
<1> QED
  BY <1>1, <1>2, <1>3, <1>4, <1>5, <1>6, <1>7

\* The batches of requests stay apart, and what is left of a plan is its orders'.
OwnBatches ==
  \A s \in Submitters :
    /\ \A o \in request[s].batch : scenario[o] # Null
    /\ \A q \in Submitters : q # s => request[q].batch \cap request[s].batch = {}
    /\ request[s].todo \subseteq UNION {PlanAt(o) : o \in request[s].batch}

LEMMA BatchesKept ==
  ASSUME LiteInv, [LiteNext]_liteVars
  PROVE  OwnBatches'
<1>1. OwnBatches
  BY DEF LiteInv, OwnPlans, OwnBatches
<1>2. scenario' = scenario /\ \A o : PlanAt(o)' = PlanAt(o)
  BY PlansStay
<1>3. IdleRequest.batch = {} /\ IdleRequest.todo = {}
  BY DEF IdleRequest
<1>4. ASSUME NEW s \in Submitters
      PROVE  /\ \A o \in request'[s].batch : scenario[o] # Null
             /\ request'[s].todo \subseteq UNION {PlanAt(o) : o \in request'[s].batch}
             /\ \/ request'[s].batch \subseteq request[s].batch
                \/ \A p \in Submitters : request[p].batch \cap request'[s].batch = {}
  <2>1. RequestStep(s)
    BY RequestSteps DEF RequestsStep
  <2>2. request[s].todo \subseteq UNION {PlanAt(o) : o \in request[s].batch}
        /\ \A o \in request[s].batch : scenario[o] # Null
    BY <1>1 DEF OwnBatches
  <2> QED
    BY <1>3, <2>1, <2>2 DEF RequestStep
<1>5. ASSUME NEW s \in Submitters, NEW q \in Submitters, q # s
      PROVE  request'[q].batch \cap request'[s].batch = {}
  <2>1. request[q].batch \cap request[s].batch = {}
    BY <1>1, <1>5 DEF OwnBatches
  <2>2. request'[s].batch = request[s].batch \/ request'[q].batch = request[q].batch
    BY <1>5, RequestSteps DEF RequestsStep
  <2>3. \/ request'[s].batch \subseteq request[s].batch
        \/ \A p \in Submitters : request[p].batch \cap request'[s].batch = {}
    BY <1>4
  <2>4. \/ request'[q].batch \subseteq request[q].batch
        \/ \A p \in Submitters : request[p].batch \cap request'[q].batch = {}
    BY <1>4
  <2> QED
    BY <2>1, <2>2, <2>3, <2>4
<1> QED
  BY <1>2, <1>4, <1>5 DEF OwnBatches

\* A request whose handler is at work keeps its batch until the handler rests.
LEMMA RequestsGoOn ==
  ASSUME LiteInv, [LiteNext]_liteVars
  PROVE  \A p \in Consumers : cons'[p].pc = "idle" \/ GoesOn(p)
<1> SUFFICES ASSUME NEW p \in Submitters, cons[p].pc # "idle"
             PROVE  cons'[p].pc = "idle" \/ GoesOn(p)
  BY DEF GoesOn
<1>1. request[p].pc = "events"
  BY DEF LiteInv, OwnPlans
<1>2. RequestStep(p)
  BY RequestSteps DEF RequestsStep
<1> QED
  BY <1>1, <1>2 DEF RequestStep, GoesOn

\* Handlers that are told of every write stay what they are.
LEMMA ToldHandlers ==
  ASSUME LiteInv, [LiteNext]_liteVars, \A p \in Consumers : HandlerTold(p)
  PROVE  \A p \in Consumers : LiteHandler(p)'
<1> SUFFICES ASSUME NEW p \in Consumers PROVE LiteHandler(p)'
  OBVIOUS
<1>1. CASE cons'[p].pc = "idle"
  BY <1>1, HandlerRests
<1>2. CASE GoesOn(p)
  BY <1>2, HandlerStays, LiteHandlers
<1> QED
  BY <1>1, <1>2, RequestsGoOn

PlainViews == \A o \in Orders : (Timed(o) /\ views[o] # Null) => Plain(views[o])

LEMMA HandlersKept ==
  ASSUME LiteInv, [LiteNext]_liteVars
  PROVE  (\A p \in Consumers : LiteHandler(p)') /\ PlainViews'
<1>1. /\ TypeOK /\ HandlersHaveEvents /\ ResolversOnOrders /\ Resolvers = Tickers
      /\ \A o \in Orders : OrderStep(o)
  BY LiteSteps, LiteAssumption DEF LiteInv, StoreInv
<1>2. ASSUME views' = views
      PROVE  PlainViews'
  <2>1. scenario' = scenario /\ PlainViews
    BY PlansStay DEF LiteInv, ViewsPlain, PlainViews
  <2> QED
    BY <1>2, <2>1 DEF PlainViews, Timed, Plain
<1>3. ASSUME NEW p \in Consumers, Reconcile(p)
      PROVE  (\A q \in Consumers : LiteHandler(q)') /\ PlainViews'
  <2>1. CASE ReadRow(p) \/ ReadView(p)
    <3>1. views' = views
      BY <2>1 DEF ReadRow, ReadView, dbVars
    <3> QED
      BY <1>2, <1>3, <2>1, <3>1, ReadHandlers
  <2>2. CASE Apply(p)
    BY <1>3, <2>2, ApplyHandlers DEF PlainViews, Timed, Plain
  <2> QED
    BY <1>3, <2>1, <2>2, ReconcileIs
<1>4. ASSUME NEW t \in Tickers, ResolveOne(t)
      PROVE  (\A q \in Consumers : LiteHandler(q)') /\ PlainViews'
  <2>1. ResolveStep(t) \/ FailResolution(t)
    BY <1>4 DEF ResolveOne, ResolveStep
  <2>2. views' = views
    BY <1>4 DEF ResolveOne, Claim, ReadOrder, FinishStolen, FinishResolved, FinishUnresolved,
                FailResolution, dbVars
  <2>3. \A p \in Consumers : HandlerTold(p)
    <3>1. CASE ResolveStep(t)
      BY <1>1, <3>1, ResolverKeepsHandlers
    <3>2. CASE FailResolution(t)
      <4>1. UNCHANGED <<rows, cons>>
        BY <3>2 DEF FailResolution, dbVars
      <4> QED
        BY <1>1, <4>1, NoneWritten
    <3> QED
      BY <2>1, <3>1, <3>2
  <2> QED
    BY <1>2, <2>2, <2>3, ToldHandlers
<1>5. ASSUME NEW t \in Tickers, Reclaim(t)
      PROVE  (\A q \in Consumers : LiteHandler(q)') /\ PlainViews'
  <2>1. ReclaimStuck
    BY <1>5 DEF Reclaim
  <2>2. views' = views
    BY <2>1 DEF ReclaimStuck
  <2>3. \A p \in Consumers : HandlerTold(p)
    BY <1>1, <2>1, SweepKeepsHandlers
  <2> QED
    BY <1>2, <2>2, <2>3, ToldHandlers
<1>6. CASE Elapse
  <2>1. TimePasses
    BY <1>6 DEF Elapse
  <2>2. views' = views
    BY <2>1 DEF TimePasses
  <2>3. \A p \in Consumers : HandlerTold(p)
    BY <1>1, <2>1, TimeKeepsHandlers
  <2> QED
    BY <1>2, <2>2, <2>3, ToldHandlers
<1>7. CASE Serves
  <2>1. views' = views
    BY <1>7 DEF Serves, dbVars
  <2>2. \A p \in Consumers : LiteHandler(p)'
    BY <1>7, RequestsGoOn, ServeHandlers
  <2> QED
    BY <1>2, <2>1, <2>2
<1> QED
  BY <1>3, <1>4, <1>5, <1>6, <1>7, ServeSteps

-----------------------------------------------------------------------------
(* Ticks and the merchant's records.                                       *)

IsDue(t, o) ==
  o \in Orders /\ merchant[o] # Null /\ merchant[o].next # Null /\ merchant[o].next + Elapsed(t) <= 0

PassStep(t) ==
  LET r == pass[t]
      q == pass'[t]
  IN \/ q = r
     \/ q.left = RecheckDelay /\ q.due = {}
     \/ /\ r.pc # "idle" /\ q.left = r.left
        /\ \/ q.due \subseteq r.due
           \/ merchant' = merchant /\ \A o \in q.due : IsDue(t, o)
     \/ r.pc # "idle" /\ Elapse /\ q.left = Sooner(r.left) /\ q.due = r.due

LEMMA OnePass ==
  ASSUME CapInv, NEW t \in Tickers, NEW q, pass' = [pass EXCEPT ![t] = q],
         \/ q = pass[t] \/ (q.left = RecheckDelay /\ q.due = {})
         \/ /\ pass[t].pc # "idle" /\ q.left = pass[t].left
            /\ \/ q.due \subseteq pass[t].due
               \/ merchant' = merchant /\ \A o \in q.due : IsDue(t, o)
  PROVE  \A p \in Tickers : PassStep(p)
<1>1. pass'[t] = q /\ \A p \in Tickers : p # t => pass'[p] = pass[p]
  BY DEF CapInv
<1> QED
  BY <1>1 DEF PassStep

LEMMA PassSteps ==
  ASSUME LiteInv, [LiteNext]_liteVars
  PROVE  \A t \in Tickers : PassStep(t)
<1>1. CapInv /\ pass \in [Tickers -> Pass]
  BY DEF LiteInv, CapInv
<1>2. IdlePass.left = RecheckDelay /\ IdlePass.due = {}
  BY DEF IdlePass
<1>3. CASE pass' = pass
  BY <1>3 DEF PassStep
<1>4. ASSUME NEW t \in Tickers, pass' = [pass EXCEPT ![t] = IdlePass]
      PROVE  \A p \in Tickers : PassStep(p)
  BY <1>1, <1>2, <1>4, OnePass
<1>5. ASSUME NEW t \in Tickers, Begin(t)
      PROVE  \A p \in Tickers : PassStep(p)
  <2> DEFINE q == [IdlePass EXCEPT !.pc = "lock"]
  <2>1. pass' = [pass EXCEPT ![t] = q] /\ q.left = RecheckDelay /\ q.due = {}
    BY <1>5 DEF Begin, IdlePass
  <2> HIDE DEF q
  <2> QED
    BY <1>1, <2>1, OnePass
<1>6. ASSUME NEW t \in Tickers, pass[t].pc # "idle", NEW pc, pass' = [pass EXCEPT ![t].pc = pc]
      PROVE  \A p \in Tickers : PassStep(p)
  <2> DEFINE q == [pass[t] EXCEPT !.pc = pc]
  <2>1. pass' = [pass EXCEPT ![t] = q] /\ q.left = pass[t].left /\ q.due = pass[t].due
    BY <1>1, <1>6 DEF Pass
  <2> HIDE DEF q
  <2> QED
    BY <1>1, <1>6, <2>1, OnePass
<1>7. ASSUME NEW t \in Tickers, TryLock(t)
      PROVE  \A p \in Tickers : PassStep(p)
  <2>1. /\ pass[t].pc = "lock"
        /\ pass' = [pass EXCEPT ![t].pc = "due"] \/ pass' = [pass EXCEPT ![t] = IdlePass]
    BY <1>7 DEF TryLock
  <2> QED
    BY <1>4, <1>6, <2>1
<1>8. ASSUME NEW t \in Tickers, ListDue(t)
      PROVE  \A p \in Tickers : PassStep(p)
  <2> DEFINE ready == {o \in Orders : /\ merchant[o] # Null /\ merchant[o].status = "pending"
                                 /\ merchant[o].next # Null /\ merchant[o].next + Elapsed(t) <= 0}
  <2>1. PICK due \in SUBSET ready :
          /\ pass' = [pass EXCEPT ![t] = [pass[t] EXCEPT !.pc = "armed", !.due = due]]
          /\ merchant' = merchant
    BY <1>1, <1>8 DEF ListDue, FirstDue
  <2> DEFINE q == [pass[t] EXCEPT !.pc = "armed", !.due = due]
  <2>2. /\ pass[t].pc # "idle" /\ pass' = [pass EXCEPT ![t] = q] /\ q.left = pass[t].left /\ q.due = due
    BY <1>1, <1>8, <2>1 DEF ListDue, Pass
  <2>3. \A o \in due : IsDue(t, o)
    BY DEF IsDue
  <2> HIDE DEF q
  <2> QED
    BY <1>1, <2>1, <2>2, <2>3, OnePass
<1>9. ASSUME NEW t \in Tickers, FilterDue(t)
      PROVE  \A p \in Tickers : PassStep(p)
  <2> DEFINE q == [pass[t] EXCEPT !.pc = "pay", !.due = {o \in pass[t].due : Keep(t, o)}]
  <2>1. /\ pass[t].pc # "idle" /\ pass' = [pass EXCEPT ![t] = q] /\ q.left = pass[t].left
        /\ q.due \subseteq pass[t].due
    BY <1>1, <1>9 DEF FilterDue, Pass
  <2> HIDE DEF q
  <2> QED
    BY <1>1, <2>1, OnePass
<1>10. ASSUME NEW t \in Tickers, NEW o \in Orders, Pay(t, o)
       PROVE  \A p \in Tickers : PassStep(p)
  <2> DEFINE q == [pass[t] EXCEPT !.due = pass[t].due \ {o}]
  <2>1. /\ pass[t].pc # "idle" /\ pass' = [pass EXCEPT ![t] = q] /\ q.left = pass[t].left
        /\ q.due \subseteq pass[t].due
    BY <1>1, <1>10 DEF Pay, Pass
  <2> HIDE DEF q
  <2> QED
    BY <1>1, <2>1, OnePass
<1>11. ASSUME NEW t \in Tickers, Paid(t) \/ OutOfTime(t) \/ KillTick(t)
       PROVE  \A p \in Tickers : PassStep(p)
  <2>1. \/ pass' = [pass EXCEPT ![t] = IdlePass]
        \/ pass[t].pc = "pay" /\ pass' = [pass EXCEPT ![t].pc = "reclaim"]
    BY <1>11 DEF Paid, OutOfTime, KillTick, EndPass
  <2> QED
    BY <1>4, <1>6, <2>1
<1>12. ASSUME NEW t \in Tickers, Reclaim(t) \/ ListArmed(t)
       PROVE  \A p \in Tickers : PassStep(p)
  <2>1. /\ pass[t].pc # "idle"
        /\ pass' = [pass EXCEPT ![t].pc = "orphans"] \/ pass' = [pass EXCEPT ![t].pc = "resolve"]
    BY <1>12 DEF Reclaim, ListArmed
  <2> QED
    BY <1>6, <2>1
<1>13. ASSUME NEW t \in Tickers, Resolved(t)
       PROVE  \A p \in Tickers : PassStep(p)
  <2> DEFINE q == [pass[t] EXCEPT !.pc = "due", !.late = TRUE]
  <2>1. /\ pass[t].pc # "idle" /\ pass' = [pass EXCEPT ![t] = q] /\ q.left = pass[t].left
        /\ q.due = pass[t].due
    BY <1>1, <1>13 DEF Resolved, Pass
  <2> HIDE DEF q
  <2> QED
    BY <1>1, <2>1, OnePass
<1>14. CASE Elapse
  <2> SUFFICES ASSUME NEW t \in Tickers PROVE PassStep(t)
    OBVIOUS
  <2>1. pass'[t] = IF Busy(t) THEN [pass[t] EXCEPT !.left = Sooner(pass[t].left)] ELSE pass[t]
    BY <1>1, <1>14 DEF Elapse, Pass
  <2>2. pass[t] \in Pass /\ (Busy(t) <=> pass[t].pc # "idle")
    BY <1>1, LiteAssumption DEF Busy
  <2>3. CASE ~Busy(t)
    BY <2>1, <2>3 DEF PassStep
  <2>4. CASE Busy(t)
    <3> DEFINE q == [pass[t] EXCEPT !.left = Sooner(pass[t].left)]
    <3>1. q.due = pass[t].due /\ q.left = Sooner(pass[t].left)
      BY <2>2 DEF Pass
    <3>2. pass'[t] = q
      BY <2>1, <2>4
    <3> HIDE DEF q
    <3> QED
      BY <1>14, <2>2, <2>4, <3>1, <3>2 DEF PassStep
  <2> QED
    BY <2>3, <2>4
<1>15. ASSUME \/ \E p \in Consumers : Reconcile(p)
              \/ \E s \in Submitters :
                   Submit(s) \/ Count(s) \/ Insert(s) \/ NextEnvelope(s) \/ KillSubmit(s)
              \/ \E t \in Tickers : ResolveOne(t) \/ NextOrder(t)
              \/ LoseTickLock \/ UNCHANGED liteVars
       PROVE  pass' = pass
  BY <1>15 DEF Reconcile, Submit, Count, Insert, NextEnvelope, KillSubmit, ResolveOne, NextOrder,
               LoseTickLock, liteVars
<1> QED
  BY <1>3, <1>5, <1>7, <1>8, <1>9, <1>10, <1>11, <1>12, <1>13, <1>14, <1>15 DEF LiteNext

MerchantStep(o) ==
  \/ merchant'[o] = merchant[o]
  \/ /\ merchant'[o] = [status |-> "paid", next |-> Null]
     /\ \E t \in Tickers : o \in pass[t].due /\ merchant[o].status = "pending"
  \/ \E s \in Submitters :
       /\ o \in request[s].batch /\ merchant'[o] = NewMerchant(o, request[s].left)
       /\ request[s].pc = "insert" /\ request'[s].pc = "events"
  \/ merchant[o] # Null /\ Elapse /\ merchant'[o] = [merchant[o] EXCEPT !.next = Sooner(@)]

LEMMA MerchantSteps ==
  ASSUME LiteInv, [LiteNext]_liteVars
  PROVE  \A o \in Orders : MerchantStep(o)
<1>1. merchant \in [Orders -> MerchantRecord \cup {Null}]
  BY DEF LiteInv, CapInv
<1>2. CASE merchant' = merchant
  BY <1>2 DEF MerchantStep
<1>3. ASSUME NEW s \in Submitters, Insert(s)
      PROVE  \A o \in Orders : MerchantStep(o)
  <2>1. /\ request[s].pc = "insert"
        /\ \/ merchant' = merchant
           \/ /\ merchant' = [o \in Orders |->
                 IF o \in request[s].batch THEN NewMerchant(o, request[s].left) ELSE merchant[o]]
              /\ request' = [request EXCEPT ![s] =
                   [request[s] EXCEPT !.pc = "events", !.todo = UNION {PlanAt(o) : o \in request[s].batch}]]
    BY <1>3, Zenon DEF Insert
  <2>2. CASE merchant' = [o \in Orders |->
               IF o \in request[s].batch THEN NewMerchant(o, request[s].left) ELSE merchant[o]]
             /\ request'[s].pc = "events"
    BY <2>1, <2>2 DEF MerchantStep
  <2>3. request' = [request EXCEPT ![s] =
          [request[s] EXCEPT !.pc = "events", !.todo = UNION {PlanAt(o) : o \in request[s].batch}]]
        => request'[s].pc = "events"
    BY DEF LiteInv, CapInv, Request
  <2> QED
    BY <1>2, <2>1, <2>2, <2>3
<1>4. ASSUME NEW t \in Tickers, NEW o \in Orders, Pay(t, o)
      PROVE  \A x \in Orders : MerchantStep(x)
  <2>1. \/ merchant' = merchant
        \/ /\ merchant' = [merchant EXCEPT ![o] = [status |-> "paid", next |-> Null]]
           /\ o \in pass[t].due /\ merchant[o].status = "pending"
    BY <1>4 DEF Pay
  <2> QED
    BY <1>1, <2>1 DEF MerchantStep
<1>5. CASE Elapse
  <2>1. merchant' = [o \in Orders |->
          IF merchant[o] = Null THEN Null ELSE [merchant[o] EXCEPT !.next = Sooner(@)]]
    BY <1>5 DEF Elapse
  <2> QED
    BY <1>5, <2>1 DEF MerchantStep
<1>6. ASSUME \/ \E p \in Consumers : Reconcile(p)
             \/ \E s \in Submitters :
                  Submit(s) \/ Count(s) \/ NextEnvelope(s) \/ KillSubmit(s)
             \/ \E t \in Tickers :
                  \/ Begin(t) \/ TryLock(t) \/ ListDue(t) \/ FilterDue(t) \/ Paid(t) \/ Reclaim(t)
                  \/ ListArmed(t) \/ ResolveOne(t) \/ NextOrder(t) \/ Resolved(t) \/ OutOfTime(t)
                  \/ KillTick(t)
             \/ LoseTickLock \/ UNCHANGED liteVars
      PROVE  merchant' = merchant
  BY <1>6 DEF Reconcile, Submit, Count, NextEnvelope, KillSubmit, Begin, TryLock, ListDue,
              FilterDue, Paid, Reclaim, ListArmed, ResolveOne, NextOrder, Resolved, OutOfTime,
              KillTick, LoseTickLock, liteVars
<1> QED
  BY <1>2, <1>3, <1>4, <1>5, <1>6 DEF LiteNext

LEMMA LocksType ==
  ASSUME LiteInv, [LiteNext]_liteVars
  PROVE  capLock' \in Submitters \cup {Null} /\ tickLock' \in Tickers \cup {Null}
<1>1. capLock \in Submitters \cup {Null} /\ tickLock \in Tickers \cup {Null}
  BY DEF LiteInv, LiteTypeOK
<1>2. ASSUME NEW s \in Submitters,
             Submit(s) \/ Count(s) \/ Insert(s) \/ NextEnvelope(s) \/ KillSubmit(s)
      PROVE  capLock' \in {s, Null, capLock} /\ tickLock' = tickLock
  BY <1>2 DEF Submit, Count, Insert, NextEnvelope, KillSubmit
<1>3. ASSUME NEW t \in Tickers,
             \/ Begin(t) \/ TryLock(t) \/ ListDue(t) \/ FilterDue(t) \/ Paid(t) \/ Reclaim(t)
             \/ ListArmed(t) \/ ResolveOne(t) \/ NextOrder(t) \/ Resolved(t) \/ OutOfTime(t)
             \/ KillTick(t) \/ \E o \in Orders : Pay(t, o)
      PROVE  tickLock' \in {t, Null, tickLock} /\ capLock' = capLock
  BY <1>3 DEF Begin, TryLock, ListDue, FilterDue, Paid, Reclaim, ListArmed, ResolveOne, NextOrder,
              Resolved, OutOfTime, KillTick, Pay, EndPass
<1>4. ASSUME \/ \E p \in Consumers : Reconcile(p)
             \/ Elapse \/ LoseTickLock \/ UNCHANGED liteVars
      PROVE  capLock' = capLock /\ tickLock' \in {Null, tickLock}
  BY <1>4 DEF Reconcile, Elapse, LoseTickLock, liteVars
<1>5. \/ \E p \in Consumers : Reconcile(p)
      \/ Elapse \/ LoseTickLock \/ UNCHANGED liteVars
      \/ \E s \in Submitters :
           Submit(s) \/ Count(s) \/ Insert(s) \/ NextEnvelope(s) \/ KillSubmit(s)
      \/ \E t \in Tickers :
           \/ Begin(t) \/ TryLock(t) \/ ListDue(t) \/ FilterDue(t) \/ Paid(t) \/ Reclaim(t)
           \/ ListArmed(t) \/ ResolveOne(t) \/ NextOrder(t) \/ Resolved(t) \/ OutOfTime(t)
           \/ KillTick(t) \/ \E o \in Orders : Pay(t, o)
  BY DEF LiteNext
<1> QED
  BY <1>1, <1>2, <1>3, <1>4, <1>5

LEMMA EarlyType ==
  ASSUME LiteInv, [LiteNext]_liteVars
  PROVE  early' \subseteq Consumers
<1>1. early \subseteq Consumers /\ \A S : Handlers(S) \subseteq Consumers
  BY DEF LiteInv, LiteTypeOK, Handlers
<1>2. ASSUME NEW p \in Consumers, Reconcile(p)
      PROVE  early' \subseteq Consumers
  BY <1>1, <1>2 DEF Reconcile
<1>3. ASSUME NEW s \in Submitters,
             Submit(s) \/ Count(s) \/ Insert(s) \/ NextEnvelope(s) \/ KillSubmit(s)
      PROVE  early' \subseteq early
  BY <1>3 DEF Submit, Count, Insert, NextEnvelope, KillSubmit, Unused
<1>4. ASSUME NEW t \in Tickers,
             \/ Begin(t) \/ TryLock(t) \/ ListDue(t) \/ FilterDue(t) \/ Paid(t)
             \/ ListArmed(t) \/ NextOrder(t) \/ Resolved(t) \/ OutOfTime(t)
             \/ KillTick(t) \/ \E o \in Orders : Pay(t, o)
      PROVE  early' \subseteq early
  BY <1>4 DEF Begin, TryLock, ListDue, FilterDue, Paid, ListArmed, NextOrder, Resolved,
              OutOfTime, KillTick, Pay, Unused
<1>5. ASSUME NEW t \in Tickers, Reclaim(t) \/ ResolveOne(t)
      PROVE  early' \subseteq Consumers
  BY <1>1, <1>5 DEF Reclaim, ResolveOne, TellEarly
<1>6. CASE Elapse \/ LoseTickLock \/ UNCHANGED liteVars
  BY <1>1, <1>6 DEF Elapse, LoseTickLock, Unused, liteVars
<1> QED
  BY <1>1, <1>2, <1>3, <1>4, <1>5, <1>6 DEF LiteNext

-----------------------------------------------------------------------------
(* Clocks.                                                                 *)

\* What is left to a deadline of a merchant's record.
MerchantLeft == -MaxLate..LagDelay \cup {Null}

LEMMA SoonerRange ==
  /\ \A x \in TimeLeft : /\ Sooner(x) \in TimeLeft
                         /\ x > RecheckDelay - MaxBusy => Sooner(x) >= RecheckDelay - MaxBusy
  /\ \A x \in MerchantLeft : Sooner(x) \in MerchantLeft /\ (x = Null => Sooner(x) = Null)
BY PipelineAssumption, LiteAssumption, NullColumnAssumption DEF Sooner, TimeLeft, MerchantLeft

LEMMA ClocksKept ==
  ASSUME LiteInv, [LiteNext]_liteVars
  PROVE  /\ \A s \in Submitters : /\ request'[s].left \in TimeLeft
                                  /\ request'[s].live \in 0..Cardinality(Orders)
         /\ \A t \in Tickers : pass'[t].left \in TimeLeft
         /\ ClocksRecent'
<1>1. RecheckDelay \in TimeLeft /\ RecheckDelay \in Int /\ MaxBusy \in Nat
      /\ \A x \in TimeLeft : x \in Int
  BY TimeLeftType, PipelineAssumption, LiteAssumption
<1>2. Cardinality(Orders) \in Nat /\ Cardinality(Live) \in 0..Cardinality(Orders)
  <2>1. Live \subseteq Orders /\ IsFiniteSet(Orders)
    BY LiteAssumption DEF Live
  <2> QED
    BY <2>1, FS_Subset, FS_CardinalityType
<1>3. IdleRequest.pc = "idle" /\ IdleRequest.left = RecheckDelay /\ IdleRequest.live = 0
      /\ IdlePass.left = RecheckDelay
  BY DEF IdleRequest, IdlePass
<1>4. ASSUME NEW s \in Submitters
      PROVE  /\ request'[s].left \in TimeLeft /\ request'[s].live \in 0..Cardinality(Orders)
             /\ request'[s].pc # "idle" => request'[s].left >= RecheckDelay - MaxBusy
  <2>1. RequestStep(s)
    BY RequestSteps DEF RequestsStep
  <2>2. /\ request[s].left \in TimeLeft /\ request[s].live \in 0..Cardinality(Orders)
        /\ request[s].pc # "idle" => request[s].left >= RecheckDelay - MaxBusy
    BY LiteAssumption DEF LiteInv, LiteTypeOK, ClocksRecent, Busy, Clock
  <2>3. (request[s].pc # "idle" /\ Elapse) => request[s].left > RecheckDelay - MaxBusy
    BY LiteAssumption DEF Elapse, MayElapse, Busy, Clock
  <2>4. /\ Sooner(request[s].left) \in TimeLeft
        /\ request[s].left > RecheckDelay - MaxBusy =>
             Sooner(request[s].left) >= RecheckDelay - MaxBusy
    BY <2>2, SoonerRange
  <2> QED
    BY <1>1, <1>2, <1>3, <2>1, <2>2, <2>3, <2>4 DEF RequestStep
<1>5. ASSUME NEW t \in Tickers
      PROVE  /\ pass'[t].left \in TimeLeft
             /\ pass'[t].pc # "idle" => pass'[t].left >= RecheckDelay - MaxBusy
  <2>1. PassStep(t)
    BY PassSteps
  <2>2. /\ pass[t].left \in TimeLeft
        /\ pass[t].pc # "idle" => pass[t].left >= RecheckDelay - MaxBusy
    BY LiteAssumption DEF LiteInv, LiteTypeOK, ClocksRecent, Busy, Clock
  <2>3. (pass[t].pc # "idle" /\ Elapse) => pass[t].left > RecheckDelay - MaxBusy
    BY LiteAssumption DEF Elapse, MayElapse, Busy, Clock
  <2>4. /\ Sooner(pass[t].left) \in TimeLeft
        /\ pass[t].left > RecheckDelay - MaxBusy => Sooner(pass[t].left) >= RecheckDelay - MaxBusy
    BY <2>2, SoonerRange
  <2> QED
    BY <1>1, <2>1, <2>2, <2>3, <2>4 DEF PassStep
<1>6. ClocksRecent'
  BY <1>4, <1>5, LiteAssumption DEF ClocksRecent, Busy, Clock
<1> QED
  BY <1>4, <1>5, <1>6

\* A merchant's record is in the range of its clock, and has no timer when the
\* merchant does not pay by itself.
LEMMA MerchantsKept ==
  ASSUME LiteInv, [LiteNext]_liteVars, NEW o \in Orders, merchant'[o] # Null
  PROVE  /\ merchant'[o].next \in MerchantLeft
         /\ ~Timed(o) => merchant'[o].next = Null
<1>1. MerchantStep(o)
  BY MerchantSteps
<1>2. merchant[o] # Null => /\ merchant[o].next \in MerchantLeft /\ (~Timed(o) => merchant[o].next = Null)
                            /\ merchant[o] \in MerchantRecord
  BY DEF LiteInv, LiteTypeOK, CapInv, OwnPayments, MerchantLeft
<1>3. CASE merchant'[o] = merchant[o]
  BY <1>2, <1>3
<1>4. CASE merchant'[o] = [status |-> "paid", next |-> Null]
  BY <1>4 DEF MerchantLeft
<1>5. ASSUME NEW s \in Submitters, request[s].pc # "idle",
             merchant'[o] = NewMerchant(o, request[s].left)
      PROVE  merchant'[o].next \in MerchantLeft /\ (~Timed(o) => merchant'[o].next = Null)
  <2> DEFINE left == request[s].left
             timer == Timer(scenario[o])
  <2>1. left \in TimeLeft /\ left >= RecheckDelay - MaxBusy
    BY <1>5, LiteAssumption DEF LiteInv, LiteTypeOK, ClocksRecent, Busy, Clock
  <2>2. timer \in {ImmediateDelay, LagDelay, Null}
    BY DEF Timer
  <2>3. merchant'[o].next = (IF PaidNow(scenario[o]) \/ timer = Null THEN Null ELSE timer + left - RecheckDelay)
    BY <1>5 DEF NewMerchant
  <2>4. timer # Null => timer + left - RecheckDelay \in MerchantLeft
    <3> HIDE DEF left, timer
    <3> QED
      BY <2>1, <2>2, LiteAssumption, PipelineAssumption DEF TimeLeft, MerchantLeft
  <2> HIDE DEF left
  <2> QED
    BY <2>3, <2>4 DEF MerchantLeft, Timed
<1>6. CASE merchant[o] # Null /\ merchant'[o] = [merchant[o] EXCEPT !.next = Sooner(@)]
  <2>1. merchant'[o].next = Sooner(merchant[o].next)
    BY <1>2, <1>6 DEF MerchantRecord
  <2> QED
    BY <1>2, <1>6, <2>1, SoonerRange
<1> QED
  BY <1>1, <1>3, <1>4, <1>5, <1>6 DEF MerchantStep

-----------------------------------------------------------------------------
(* The invariant.                                                          *)

LEMMA LiteTypeKept ==
  ASSUME LiteInv, [LiteNext]_liteVars
  PROVE  LiteTypeOK'
<1>1. TypeOK' /\ CapInv' /\ log' = log
  BY LiteTypes, CapNext, PlansStay DEF LiteInv
<1>2. merchant' \in [Orders -> [status : {"pending", "paid"}, next : MerchantLeft] \cup {Null}]
  <2>1. merchant' \in [Orders -> MerchantRecord \cup {Null}]
    BY <1>1 DEF CapInv
  <2>2. ASSUME NEW o \in Orders, merchant'[o] # Null
        PROVE  merchant'[o] \in [status : {"pending", "paid"}, next : MerchantLeft]
    <3>1. merchant'[o] \in MerchantRecord /\ merchant'[o].next \in MerchantLeft
      BY <2>1, <2>2, MerchantsKept
    <3> QED
      BY <3>1 DEF MerchantRecord
  <2> QED
    BY <2>1, <2>2
<1>3. request' \in [Submitters -> [pc : {"idle", "count", "insert", "events"}, left : TimeLeft,
                                   batch : SUBSET Orders, live : 0..Cardinality(Orders),
                                   todo : SUBSET DOMAIN log]]
  <2>1. request' \in [Submitters -> Request]
    BY <1>1 DEF CapInv, Request
  <2>2. ASSUME NEW s \in Submitters
        PROVE  request'[s] \in [pc : {"idle", "count", "insert", "events"}, left : TimeLeft,
                                batch : SUBSET Orders, live : 0..Cardinality(Orders),
                                todo : SUBSET DOMAIN log]
    <3>1. request'[s] \in Request
      BY <2>1
    <3>2. request'[s].left \in TimeLeft /\ request'[s].live \in 0..Cardinality(Orders)
      BY ClocksKept
    <3> QED
      BY <3>1, <3>2 DEF Request
  <2> QED
    BY <2>1, <2>2
<1>4. pass' \in [Tickers -> [pc : {"idle", "lock", "due", "armed", "pay", "reclaim", "orphans", "resolve"},
                             left : TimeLeft, late : BOOLEAN, due : SUBSET Orders]]
  <2>1. pass' \in [Tickers -> Pass]
    BY <1>1 DEF CapInv, Pass
  <2>2. ASSUME NEW t \in Tickers
        PROVE  pass'[t] \in [pc : {"idle", "lock", "due", "armed", "pay", "reclaim", "orphans", "resolve"},
                             left : TimeLeft, late : BOOLEAN, due : SUBSET Orders]
    <3>1. pass'[t] \in Pass
      BY <2>1
    <3>2. pass'[t].left \in TimeLeft
      BY ClocksKept
    <3> QED
      BY <3>1, <3>2 DEF Pass
  <2> QED
    BY <2>1, <2>2
<1>5. capLock' \in Submitters \cup {Null} /\ tickLock' \in Tickers \cup {Null}
  BY LocksType
<1>6. early' \subseteq Consumers
  BY EarlyType
<1> QED
  BY <1>1, <1>2, <1>3, <1>4, <1>5, <1>6 DEF LiteTypeOK, MerchantLeft

LEMMA PaymentsKept ==
  ASSUME LiteInv, [LiteNext]_liteVars
  PROVE  OwnPayments'
<1>1. \A o : Timed(o)' = Timed(o)
  BY PlansStay
<1>2. ASSUME NEW o \in Orders, merchant'[o] # Null, ~Timed(o)
      PROVE  merchant'[o].next = Null
  BY <1>2, MerchantsKept
<1>3. ASSUME NEW t \in Tickers, NEW o \in pass'[t].due
      PROVE  Timed(o)
  <2>1. PassStep(t)
    BY PassSteps
  <2>2. /\ \A x \in pass[t].due : Timed(x)
        /\ \A x \in Orders : (merchant[x] # Null /\ merchant[x].next # Null) => Timed(x)
    BY DEF LiteInv, OwnPayments
  <2> QED
    BY <1>3, <2>1, <2>2 DEF PassStep, IsDue
<1>4. ASSUME NEW t \in Tickers, cons'[t].pc # "idle"
      PROVE  (\E o \in Orders : Timed(o) /\ log[cons[t].at] = EnvelopeToEvent(Merchant(o, "paid")))'
  <2>1. t \in Consumers /\ t \notin Submitters
    BY LiteAssumption
  <2>2. LiteHandler(t)'
    BY <2>1, HandlersKept
  <2> QED
    BY <1>4, <2>1, <2>2 DEF LiteHandler, Owns
<1>5. (\A o \in Orders : (merchant[o] # Null /\ ~Timed(o)) => merchant[o].next = Null)'
  BY <1>1, <1>2
<1>6. (\A t \in Tickers : \A o \in pass[t].due : Timed(o))'
  BY <1>1, <1>3
<1> QED
  BY <1>4, <1>5, <1>6 DEF OwnPayments

-----------------------------------------------------------------------------
(* Plans come before payments, and no order is in two hands.               *)

\* What a record is when a request's function answers before the merchant pays.
LEMMA NotPaidYet ==
  ASSUME Prompt, LiteInv, NEW s \in Submitters, NEW o \in request[s].batch,
         request[s].pc = "events", Timed(o), NEW t \in Tickers, o \in pass[t].due
  PROVE  merchant[o].status # "pending"
<1> DEFINE timer == Timer(scenario[o])
           left == request[s].left
           clock == pass[t].left
<1>1. merchant[o].next = timer + left - RecheckDelay
  BY DEF LiteInv, PlansFirst
<1>2. left \in TimeLeft /\ left >= RecheckDelay - MaxBusy
  BY LiteAssumption DEF LiteInv, LiteTypeOK, ClocksRecent, Busy, Clock
<1>3. clock \in TimeLeft
  BY DEF LiteInv, LiteTypeOK
<1>4. timer \in {ImmediateDelay, LagDelay}
  BY DEF Timed, Timer
<1>5. merchant[o].status = "pending" => merchant[o].next + (RecheckDelay - clock) <= 0
  BY DEF LiteInv, PaidInTime, Elapsed
<1> HIDE DEF timer, left, clock
<1>6. ASSUME NEW next, next = timer + left - RecheckDelay
      PROVE  ~(next + (RecheckDelay - clock) <= 0)
  BY <1>2, <1>3, <1>4, <1>6, LiteAssumption, PipelineAssumption DEF TimeLeft, Prompt
<1>7. ~(merchant[o].next + (RecheckDelay - clock) <= 0)
  BY <1>1, <1>6
<1> QED
  BY <1>5, <1>7

\* Only time passes: the request's clock and the merchant's run alike.
LEMMA PlansWait ==
  ASSUME Prompt, LiteInv, [LiteNext]_liteVars, Elapse
  PROVE  PlansFirst'
<1> SUFFICES ASSUME NEW s \in Submitters, NEW o \in request'[s].batch
             PROVE  /\ request'[s].pc \in {"count", "insert"} => merchant'[o] = Null
                    /\ (request'[s].pc = "events" /\ Timed(o)) =>
                         /\ merchant'[o] # Null /\ merchant'[o].status = "pending"
                         /\ merchant'[o].next = Timer(scenario[o]) + request'[s].left - RecheckDelay
  BY PlansStay DEF PlansFirst
<1>1. /\ request[s] \in Request /\ request'[s].pc = request[s].pc /\ request'[s].batch = request[s].batch
      /\ request[s].pc # "idle" => request'[s].left = Sooner(request[s].left)
  BY DEF Elapse, LiteInv, CapInv, Request, Busy
<1>2. /\ o \in request[s].batch /\ o \in Orders
      /\ merchant'[o] = IF merchant[o] = Null THEN Null ELSE [merchant[o] EXCEPT !.next = Sooner(@)]
  BY <1>1 DEF Elapse, Request
<1>3. CASE request[s].pc \in {"count", "insert"}
  BY <1>1, <1>2, <1>3 DEF LiteInv, PlansFirst
<1>4. CASE request[s].pc = "events" /\ Timed(o)
  <2> DEFINE timer == Timer(scenario[o])
             left == request[s].left
             next == merchant[o].next
  <2>1. /\ merchant[o] # Null /\ merchant[o].status = "pending" /\ next = timer + left - RecheckDelay
        /\ merchant[o] \in MerchantRecord
    BY <1>2, <1>4 DEF LiteInv, PlansFirst, CapInv
  <2>2. merchant'[o] = [merchant[o] EXCEPT !.next = Sooner(next)]
    BY <1>2, <2>1
  <2>3. [merchant[o] EXCEPT !.next = Sooner(next)] \in MerchantRecord
    BY <2>1, SoonerRange DEF MerchantRecord, LiteInv, LiteTypeOK, MerchantLeft, Sooner
  <2>4. merchant'[o] # Null /\ merchant'[o].status = "pending" /\ merchant'[o].next = Sooner(next)
    BY <2>1, <2>2, <2>3, LiteAssumption DEF MerchantRecord
  <2>5. left \in TimeLeft /\ left > RecheckDelay - MaxBusy
    BY <1>4, LiteAssumption DEF Elapse, MayElapse, Busy, Clock, LiteInv, LiteTypeOK
  <2>6. timer \in {ImmediateDelay, LagDelay}
    BY <1>4 DEF Timed, Timer
  <2>7. next # Null => next > -MaxLate
    BY <1>2, <2>1 DEF Elapse, MayElapse
  <2>8. request'[s].left = Sooner(left)
    BY <1>1, <1>4
  <2> HIDE DEF timer, left, next
  <2>9. next \in Int /\ next # Null /\ left # Null /\ left > -MaxLate
    BY <2>1, <2>5, <2>6, NullColumnAssumption, LiteAssumption, PipelineAssumption DEF TimeLeft, Prompt
  <2>10. Sooner(next) = timer + Sooner(left) - RecheckDelay
    BY <2>1, <2>5, <2>6, <2>7, <2>9, LiteAssumption, PipelineAssumption DEF Sooner, TimeLeft
  <2> QED
    BY <1>1, <1>4, <2>4, <2>8, <2>10 DEF timer
<1> QED
  BY <1>1, <1>3, <1>4

LEMMA PlansKept ==
  ASSUME Prompt, LiteInv, [LiteNext]_liteVars
  PROVE  PlansFirst'
<1>1. CASE Elapse
  BY <1>1, PlansWait
<1>2. CASE ~Elapse
  <2> SUFFICES ASSUME NEW s \in Submitters, NEW o \in request'[s].batch
               PROVE  /\ request'[s].pc \in {"count", "insert"} => merchant'[o] = Null
                      /\ (request'[s].pc = "events" /\ Timed(o)) =>
                           /\ merchant'[o] # Null /\ merchant'[o].status = "pending"
                           /\ merchant'[o].next = Timer(scenario[o]) + request'[s].left - RecheckDelay
    BY PlansStay DEF PlansFirst
  <2>1. RequestStep(s) /\ PlansFirst /\ request[s] \in Request /\ request[s].left \in TimeLeft
    BY RequestSteps DEF RequestsStep, LiteInv, CapInv, LiteTypeOK
  <2>2. o \in request[s].batch =>
          /\ o \in Orders
          /\ request[s].pc \in {"count", "insert"} => merchant[o] = Null
          /\ (request[s].pc = "events" /\ Timed(o)) =>
               /\ merchant[o] # Null /\ merchant[o].status = "pending"
               /\ merchant[o].next = Timer(scenario[o]) + request[s].left - RecheckDelay
    BY <2>1 DEF PlansFirst, Request
  <2>3. CASE /\ request'[s].pc = request[s].pc /\ request'[s].batch = request[s].batch
             /\ request'[s].left = request[s].left
    <3>1. o \in request[s].batch /\ MerchantStep(o)
      BY <2>2, <2>3, MerchantSteps
    <3>2. CASE merchant'[o] = merchant[o]
      BY <2>2, <2>3, <3>1, <3>2
    <3>3. ASSUME NEW t \in Tickers, o \in pass[t].due, merchant[o].status = "pending",
                 request[s].pc \in {"count", "insert"} \/ (request[s].pc = "events" /\ Timed(o))
          PROVE  FALSE
      <4>1. merchant[o] # Null
        BY <3>3 DEF LiteInv, CapInv
      <4> QED
        BY <2>2, <3>1, <3>3, <4>1, NotPaidYet
    <3>4. ASSUME NEW q \in Submitters, o \in request[q].batch, request[q].pc = "insert",
                 request'[q].pc = "events"
          PROVE  FALSE
      <4>1. q = s
        BY <3>1, <3>4 DEF LiteInv, OwnPlans
      <4> QED
        BY <2>3, <3>4, <4>1
    <3> QED
      BY <1>2, <2>3, <3>1, <3>2, <3>3, <3>4 DEF MerchantStep
  <2>4. CASE request'[s] = IdleRequest
    BY <2>4 DEF IdleRequest
  <2>5. CASE request'[s].pc = "count" /\ merchant' = merchant /\ merchant[o] = Null
    BY <2>5
  <2>6. CASE /\ request[s].pc = "count" /\ request'[s].pc = "insert" /\ merchant' = merchant
             /\ request'[s].batch = request[s].batch
    BY <2>2, <2>6
  <2>7. CASE /\ request'[s].pc = "events" /\ merchant'[o] = NewMerchant(o, request[s].left)
             /\ request'[s].batch = request[s].batch /\ request'[s].left = request[s].left
    <3> SUFFICES ASSUME Timed(o)
                 PROVE  /\ merchant'[o] # Null /\ merchant'[o].status = "pending"
                        /\ merchant'[o].next = Timer(scenario[o]) + request[s].left - RecheckDelay
      BY <2>7
    <3> DEFINE timer == Timer(scenario[o])
               next == timer + request[s].left - RecheckDelay
    <3>1. ~PaidNow(scenario[o]) /\ timer # Null /\ timer \in {ImmediateDelay, LagDelay}
      BY DEF Timed, Timer, PaidNow
    <3>2. merchant'[o] = [status |-> "pending", next |-> next]
      BY <2>7, <3>1 DEF NewMerchant
    <3>3. next \in Int
      BY <2>1, <3>1, LiteAssumption, PipelineAssumption DEF TimeLeft
    <3> HIDE DEF timer, next
    <3>4. [status |-> "pending", next |-> next] \in MerchantRecord
      BY <3>3 DEF MerchantRecord
    <3> QED
      BY <3>2, <3>4, LiteAssumption DEF timer, next
  <2> QED
    BY <1>2, <2>1, <2>3, <2>4, <2>5, <2>6, <2>7 DEF RequestStep
<1> QED
  BY <1>1, <1>2

\* What is paid stays so.
LEMMA PaidStays ==
  ASSUME LiteInv, [LiteNext]_liteVars, NEW o \in Orders, merchant[o] # Null, merchant[o].status = "paid"
  PROVE  merchant'[o] # Null /\ merchant'[o].status = "paid"
<1>1. MerchantStep(o) /\ merchant[o] \in MerchantRecord /\ CapInv'
  BY MerchantSteps, CapNext DEF LiteInv, CapInv
<1>2. [status |-> "paid", next |-> Null] \in MerchantRecord
  BY DEF MerchantRecord
<1>3. ASSUME NEW s \in Submitters, o \in request[s].batch, request[s].pc = "insert"
      PROVE  FALSE
  BY <1>3 DEF LiteInv, PlansFirst
<1>4. CASE merchant[o] # Null /\ Elapse /\ merchant'[o] = [merchant[o] EXCEPT !.next = Sooner(@)]
  <2>1. Sooner(merchant[o].next) \in Int \cup {Null}
    BY <1>1 DEF MerchantRecord, Sooner
  <2>2. [merchant[o] EXCEPT !.next = Sooner(@)] \in MerchantRecord
    BY <1>1, <2>1 DEF MerchantRecord
  <2> QED
    BY <1>1, <1>4, <2>2, LiteAssumption DEF MerchantRecord
<1> QED
  BY <1>1, <1>2, <1>3, <1>4, LiteAssumption DEF MerchantStep

\* What a tick has listed stays due by its clock until it is paid.
LEMMA DueKept ==
  ASSUME LiteInv, [LiteNext]_liteVars, NEW t \in Tickers, NEW o \in pass'[t].due,
         merchant'[o].status = "pending"
  PROVE  merchant'[o].next # Null /\ merchant'[o].next + (RecheckDelay - pass'[t].left) <= 0
<1>1. PassStep(t) /\ pass[t].left \in TimeLeft /\ pass'[t].left \in TimeLeft
  BY PassSteps, ClocksKept DEF LiteInv, LiteTypeOK
<1>2. o \in pass[t].due \/ (merchant' = merchant /\ IsDue(t, o))
  BY <1>1 DEF PassStep
<1>3. o \in Orders /\ merchant[o] # Null
  BY <1>2 DEF IsDue, LiteInv, CapInv, Pass
<1>4. merchant[o].status = "pending" => merchant[o].next # Null /\ merchant[o].next + Elapsed(t) <= 0
  BY <1>2 DEF LiteInv, PaidInTime, IsDue
<1>5. MerchantStep(o) /\ merchant[o] \in MerchantRecord
  BY <1>3, MerchantSteps DEF LiteInv, CapInv
<1>6. CASE Elapse
  <2>1. /\ merchant'[o] = [merchant[o] EXCEPT !.next = Sooner(@)]
        /\ merchant[o].next # Null => merchant[o].next > -MaxLate
    BY <1>3, <1>6 DEF Elapse, MayElapse
  <2>2. merchant'[o].status = merchant[o].status /\ merchant'[o].next = Sooner(merchant[o].next)
    BY <1>5, <2>1 DEF MerchantRecord
  <2> DEFINE next == merchant[o].next
             left == pass[t].left
  <2>3. next # Null /\ next \in Int /\ next > -MaxLate /\ next + (RecheckDelay - left) <= 0
    BY <1>4, <1>5, <2>1, <2>2 DEF MerchantRecord, Elapsed
  <2>4. pass'[t].left \in {left, Sooner(left)}
    <3>1. pass'[t] = IF Busy(t) THEN [pass[t] EXCEPT !.left = Sooner(left)] ELSE pass[t]
      BY <1>6 DEF Elapse, LiteInv, CapInv
    <3> QED
      BY <3>1 DEF LiteInv, CapInv, Pass
  <2> HIDE DEF next, left
  <2>5. Sooner(next) = next - 1 /\ left \in TimeLeft
    BY <1>1, <2>3, PipelineAssumption DEF Sooner, left
  <2>6. Sooner(left) \in TimeLeft /\ Sooner(left) >= left - 1
    BY <2>5, NullColumnAssumption, PipelineAssumption DEF Sooner, TimeLeft
  <2>7. Sooner(next) # Null
    BY <2>3, <2>5, NullColumnAssumption
  <2>8. Sooner(next) + (RecheckDelay - pass'[t].left) <= 0
    BY <2>3, <2>4, <2>5, <2>6, PipelineAssumption DEF TimeLeft
  <2> QED
    BY <2>2, <2>7, <2>8 DEF next
<1>7. CASE ~Elapse
  <2>1. merchant'[o] = merchant[o]
    <3>1. ASSUME NEW s \in Submitters, o \in request[s].batch, request[s].pc = "insert"
          PROVE  FALSE
      BY <1>3, <3>1 DEF LiteInv, PlansFirst
    <3> QED
      BY <1>5, <1>7, <3>1 DEF MerchantStep
  <2>2. pass'[t].left = pass[t].left
    BY <1>1, <1>7 DEF PassStep
  <2> QED
    BY <1>4, <2>1, <2>2 DEF Elapsed
<1> QED
  BY <1>6, <1>7

\* A function has an event in hand that it had before, or takes one.
HandStep(p) ==
  \/ cons'[p].pc \notin {"row", "view", "apply"}
  \/ cons[p].pc \in {"row", "view", "apply"} /\ cons'[p].at = cons[p].at

\* Reconciling an event ends it, and leaves what others have in hand.
LEMMA ApplyHands ==
  ASSUME TypeOK, NEW p \in Consumers, Apply(p)
  PROVE  \A q \in Consumers : HandStep(q)
<1>1. cons \in [Consumers -> Handler]
  BY DEF TypeOK
<1> DEFINE h == cons[p]
           o == log[h.at].order
           marked == [IdleHandler EXCEPT !.pc = "mark", !.at = h.at]
           pushed == [marked EXCEPT !.push = TRUE, !.left = h.left]
<1>2. marked.pc = "mark" /\ pushed.pc = "mark"
  BY DEF IdleHandler
<1>3. \/ cons' = [cons EXCEPT ![p] = marked] \/ cons' = [cons EXCEPT ![p] = pushed]
      \/ cons' = [Overtaken(p, o) EXCEPT ![p] = marked]
      \/ cons' = [Overtaken(p, o) EXCEPT ![p] = pushed]
  BY Zenon DEF Apply, ApplyAs, Overtaken
<1> HIDE DEF marked, pushed, o
<1>4. /\ DOMAIN Overtaken(p, o) = Consumers
      /\ \A q \in Consumers : Overtaken(p, o)[q].pc = cons[q].pc /\ Overtaken(p, o)[q].at = cons[q].at
  BY <1>1 DEF Overtaken, Told, Handler
<1>5. cons'[p].pc = "mark" /\ \A q \in Consumers : q # p => cons'[q].pc = cons[q].pc /\ cons'[q].at = cons[q].at
  BY <1>1, <1>2, <1>3, <1>4
<1> QED
  BY <1>5 DEF HandStep

LEMMA HandSteps ==
  ASSUME LiteInv, [LiteNext]_liteVars
  PROVE  \A p \in Consumers : HandStep(p) \/ Begins(p)
<1>1. /\ TypeOK /\ ResolversOnOrders /\ Resolvers = Tickers /\ cons \in [Consumers -> Handler]
      /\ HandlersHaveEvents /\ \A o \in Orders : OrderStep(o)
  BY LiteSteps, LiteAssumption DEF LiteInv, StoreInv, TypeOK
<1>2. ASSUME NEW p \in Consumers, Reconcile(p)
      PROVE  \A q \in Consumers : HandStep(q)
  <2>1. CASE ReadRow(p) \/ ReadView(p)
    <3>1. /\ cons[p].pc \in {"row", "view"} /\ cons'[p].at = cons[p].at
          /\ \A q \in Consumers : q # p => cons'[q] = cons[q]
      BY <1>1, <2>1 DEF ReadRow, ReadView, Handler
    <3> QED
      BY <3>1 DEF HandStep
  <2>2. CASE Apply(p)
    BY <1>1, <2>2, ApplyHands
  <2> QED
    BY <1>2, <2>1, <2>2, ReconcileIs
<1>3. ASSUME NEW q \in Consumers, HandlerTold(q)
      PROVE  HandStep(q)
  BY <1>3 DEF HandlerTold, HandStep
<1>4. ASSUME NEW t \in Tickers, ResolveOne(t)
      PROVE  \A q \in Consumers : HandStep(q)
  <2>1. ResolveStep(t) \/ FailResolution(t)
    BY <1>4 DEF ResolveOne, ResolveStep
  <2>2. CASE ResolveStep(t)
    BY <1>1, <1>3, <2>2, ResolverKeepsHandlers
  <2>3. CASE FailResolution(t)
    <3>1. UNCHANGED cons
      BY <2>3 DEF FailResolution
    <3> QED
      BY <3>1 DEF HandStep
  <2> QED
    BY <2>1, <2>2, <2>3
<1>5. ASSUME NEW t \in Tickers, Reclaim(t)
      PROVE  \A q \in Consumers : HandStep(q)
  <2>1. ReclaimStuck
    BY <1>5 DEF Reclaim
  <2> QED
    BY <1>1, <1>3, <2>1, SweepKeepsHandlers
<1>6. CASE Elapse
  <2>1. TimePasses
    BY <1>6 DEF Elapse
  <2> QED
    BY <1>1, <1>3, <2>1, TimeKeepsHandlers
<1>7. CASE Serves
  <2>1. CASE UNCHANGED cons
    BY <2>1 DEF HandStep
  <2>2. ASSUME NEW p \in Consumers, cons' = [cons EXCEPT ![p] = IdleHandler]
        PROVE  \A q \in Consumers : HandStep(q)
    <3>1. cons'[p].pc = "idle" /\ \A q \in Consumers : q # p => cons'[q] = cons[q]
      BY <1>1, <2>2 DEF IdleHandler
    <3> QED
      BY <3>1 DEF HandStep
  <2>3. ASSUME NEW p \in Consumers, Begins(p)
        PROVE  \A q \in Consumers : HandStep(q) \/ Begins(q)
    <3>1. \A q \in Consumers : q # p => cons'[q] = cons[q]
      BY <1>1, <2>3 DEF Begins
    <3> QED
      BY <2>3, <3>1 DEF HandStep
  <2> QED
    BY <1>7, <2>1, <2>2, <2>3 DEF Serves
<1> QED
  BY <1>2, <1>4, <1>5, <1>6, <1>7, ServeSteps

\* A tick takes in hand what it has just marked paid.
LEMMA TickBegins ==
  ASSUME LiteInv, [LiteNext]_liteVars, NEW t \in Tickers, Begins(t)
  PROVE  /\ OrderAt(t)' \in Orders /\ merchant[OrderAt(t)'].status = "pending"
         /\ merchant'[OrderAt(t)'] = [status |-> "paid", next |-> Null]
         /\ \A q \in Consumers : q # t => cons'[q] = cons[q]
<1>1. t \notin Submitters /\ t \in Consumers /\ cons \in [Consumers -> Handler] /\ Planned
  BY LiteAssumption DEF LiteInv, StoreInv, TypeOK, Planned
<1>2. PICK o \in pass[t].due :
        /\ cons' = [cons EXCEPT ![t] = Handling(PaidAt(o), pass[t].left)]
        /\ merchant[o].status = "pending" /\ merchant'[o] = [status |-> "paid", next |-> Null]
  BY <1>1 DEF Begins
<1>3. o \in Orders /\ Timed(o) /\ pass[t].left \in TimeLeft
  BY DEF LiteInv, LiteTypeOK, OwnPayments
<1>4. /\ PaidAt(o) \in 1..Len(log) /\ log[PaidAt(o)] = EnvelopeToEvent(Merchant(o, "paid"))
      /\ log[PaidAt(o)] # Null
  <2>1. PaidAt(o) \in 1..Len(log) /\ log[PaidAt(o)] = EnvelopeToEvent(Merchant(o, "paid"))
    BY <1>1, <1>3, PaidFound
  <2> QED
    BY <1>1, <2>1, LogEvents
<1>5. log[PaidAt(o)].order = o
  BY <1>4, MerchantEvent DEF MerchantStatus
<1>6. cons'[t].at = PaidAt(o) /\ log' = log
  <2>1. PaidAt(o) \in Nat
    BY <1>1, <1>4, LogEvents
  <2>2. Handling(PaidAt(o), pass[t].left).at = PaidAt(o)
    BY <1>3, <2>1, HandlingType
  <2> QED
    BY <1>1, <1>2, <2>2, PlansStay
<1>7. OrderAt(t)' = o
  BY <1>5, <1>6 DEF OrderAt
<1> QED
  BY <1>1, <1>2, <1>3, <1>7

\* The event a function keeps in hand is of the order it was of.
LEMMA HandKept ==
  ASSUME LiteInv, [LiteNext]_liteVars, NEW p \in Consumers, HandStep(p), InHand(p)'
  PROVE  InHand(p) /\ OrderAt(p)' = OrderAt(p)
BY PlansStay DEF HandStep, InHand, OrderAt

LEMMA HandsPaid ==
  ASSUME LiteInv, [LiteNext]_liteVars, NEW t \in Tickers, InHand(t)'
  PROVE  merchant'[OrderAt(t)'] # Null /\ merchant'[OrderAt(t)'].status = "paid"
<1>1. t \in Consumers
  BY LiteAssumption
<1>2. CASE Begins(t)
  <2>1. [status |-> "paid", next |-> Null] \in MerchantRecord
    BY DEF MerchantRecord
  <2> QED
    BY <1>2, <2>1, TickBegins, LiteAssumption
<1>3. CASE HandStep(t)
  <2>1. InHand(t) /\ OrderAt(t)' = OrderAt(t)
    BY <1>1, <1>3, HandKept
  <2>2. /\ OrderAt(t) \in Orders /\ merchant[OrderAt(t)] # Null
        /\ merchant[OrderAt(t)].status = "paid"
    BY <2>1, PaymentIs DEF LiteInv, PaidInTime, InHand
  <2> QED
    BY <2>1, <2>2, PaidStays
<1> QED
  BY <1>1, <1>2, <1>3, HandSteps

LEMMA PaidInTimeKept ==
  ASSUME LiteInv, [LiteNext]_liteVars
  PROVE  PaidInTime'
<1>1. \A t \in Tickers : \A o \in pass'[t].due : merchant'[o].status = "pending" =>
        merchant'[o].next # Null /\ merchant'[o].next + (RecheckDelay - pass'[t].left) <= 0
  BY DueKept
<1>2. \A t \in Tickers : InHand(t)' =>
        merchant'[OrderAt(t)'] # Null /\ merchant'[OrderAt(t)'].status = "paid"
  BY HandsPaid
<1>3. (\A t \in Tickers : \A o \in pass[t].due : merchant[o].status = "pending" =>
         merchant[o].next # Null /\ merchant[o].next + Elapsed(t) <= 0)'
  BY <1>1 DEF Elapsed
<1>4. (\A t \in Tickers : InHand(t) =>
         merchant[OrderAt(t)] # Null /\ merchant[OrderAt(t)].status = "paid")'
  BY <1>2
<1> QED
  BY <1>3, <1>4 DEF PaidInTime

\* Requests have plans of different orders in hand; a request's order is not paid
\* yet, a tick's is; and a tick takes only what no tick has.
LEMMA AloneKept ==
  ASSUME LiteInv, [LiteNext]_liteVars, PlansFirst', PaidInTime'
  PROVE  EventsAlone'
<1>1. /\ Consumers = Submitters \cup Tickers /\ OwnBatches' /\ PlansFirst' /\ PaidInTime'
      /\ \A p \in Consumers : LiteHandler(p)'
  BY BatchesKept, HandlersKept, LiteAssumption
<1>2. log' = log /\ scenario' = scenario /\ (\A o : PlanAt(o)' = PlanAt(o)) /\ \A o : Timed(o)' = Timed(o)
  BY PlansStay
<1>3. request' \in [Submitters -> Request] /\ Planned
  BY CapNext, <1>2 DEF LiteInv, CapInv, Request, Planned
<1>4. ASSUME NEW s \in Submitters, InHand(s)'
      PROVE  OrderAt(s)' \in request'[s].batch /\ request'[s].pc = "events"
  <2>1. cons'[s].pc # "idle" /\ LiteHandler(s)'
    BY <1>1, <1>4 DEF InHand
  <2>2. Owns(s)'
    BY <2>1 DEF LiteHandler
  <2>3. request'[s].pc = "events" /\ \E o \in request'[s].batch : cons'[s].at \in PlanAt(o)'
    BY <2>2 DEF Owns
  <2>4. PICK o \in request'[s].batch : cons'[s].at \in PlanAt(o)
    BY <1>2, <2>3
  <2>5. o \in Orders /\ scenario[o] # Null
    BY <1>1, <1>2, <1>3 DEF OwnBatches, Request
  <2>6. log[cons'[s].at].order = o
    BY <1>3, <2>4, <2>5, PlanEvents
  <2>7. OrderAt(s)' = o
    BY <1>2, <2>6 DEF OrderAt
  <2> QED
    BY <2>3, <2>7
<1>5. ASSUME NEW t \in Tickers, InHand(t)'
      PROVE  /\ OrderAt(t)' \in Orders /\ Timed(OrderAt(t)')
             /\ merchant'[OrderAt(t)'].status = "paid"
  <2>1. cons'[t].pc # "idle" /\ LiteHandler(t)' /\ t \notin Submitters
    BY <1>1, <1>5, LiteAssumption DEF InHand
  <2>2. Owns(t)' /\ HandlerHasEvent(t)'
    BY <2>1 DEF LiteHandler
  <2>3. PICK o \in Orders : Timed(o)' /\ log'[cons'[t].at] = EnvelopeToEvent(Merchant(o, "paid"))
    BY <2>1, <2>2 DEF Owns
  <2>4. log[cons'[t].at] # Null
    BY <1>2, <1>5, <2>2 DEF HandlerHasEvent, InHand
  <2>5. log[cons'[t].at].order = o
    BY <1>2, <2>3, <2>4, MerchantEvent DEF MerchantStatus
  <2>6. OrderAt(t)' = o
    BY <1>2, <2>5 DEF OrderAt
  <2> QED
    BY <1>2, <1>5, <2>3, <2>6, HandsPaid
<1>6. ASSUME NEW s \in Submitters, NEW t \in Tickers, InHand(s)', InHand(t)'
      PROVE  OrderAt(s)' # OrderAt(t)'
  <2> SUFFICES ASSUME OrderAt(s)' = OrderAt(t)' PROVE FALSE
    OBVIOUS
  <2>1. OrderAt(t)' \in request'[s].batch /\ request'[s].pc = "events" /\ Timed(OrderAt(t)')
    BY <1>4, <1>5, <1>6
  <2>2. \A o \in request'[s].batch :
          (request'[s].pc = "events" /\ Timed(o)) => merchant'[o].status = "pending"
    BY <1>1, <1>2 DEF PlansFirst
  <2> QED
    BY <1>5, <1>6, <2>1, <2>2
<1>7. ASSUME NEW s \in Submitters, NEW q \in Submitters, s # q, InHand(s)', InHand(q)'
      PROVE  OrderAt(s)' # OrderAt(q)'
  <2>1. request'[q].batch \cap request'[s].batch = {}
    BY <1>1, <1>7 DEF OwnBatches
  <2> QED
    BY <1>4, <1>7, <2>1
<1>8. ASSUME NEW t \in Tickers, NEW u \in Tickers, t # u, Begins(t), InHand(t)', InHand(u)'
      PROVE  OrderAt(t)' # OrderAt(u)'
  <2>1. merchant[OrderAt(t)'].status = "pending" /\ cons'[u] = cons[u]
    BY <1>1, <1>8, TickBegins
  <2>2. InHand(u) /\ OrderAt(u)' = OrderAt(u)
    BY <1>2, <1>8, <2>1 DEF InHand, OrderAt
  <2>3. merchant[OrderAt(u)].status = "paid"
    BY <2>2 DEF LiteInv, PaidInTime
  <2> QED
    BY <2>1, <2>2, <2>3
<1>9. ASSUME NEW t \in Tickers, NEW u \in Tickers, t # u, InHand(t)', InHand(u)'
      PROVE  OrderAt(t)' # OrderAt(u)'
  <2>1. CASE Begins(t)
    BY <1>8, <1>9, <2>1
  <2>2. CASE Begins(u)
    BY <1>8, <1>9, <2>2
  <2>3. CASE HandStep(t) /\ HandStep(u)
    <3>1. InHand(t) /\ InHand(u) /\ OrderAt(t)' = OrderAt(t) /\ OrderAt(u)' = OrderAt(u)
      BY <1>1, <1>9, <2>3, HandKept
    <3> QED
      BY <1>1, <1>9, <3>1 DEF LiteInv, EventsAlone
  <2> QED
    BY <1>1, <2>1, <2>2, <2>3, HandSteps
<1>10. \A p, q \in Consumers : (p # q /\ InHand(p)' /\ InHand(q)') => OrderAt(p)' # OrderAt(q)'
  BY <1>1, <1>6, <1>7, <1>9
<1> QED
  BY <1>10 DEF EventsAlone

LEMMA LiteKept ==
  ASSUME Prompt, LiteInv, [LiteNext]_liteVars
  PROVE  LiteInv'
<1>1. LiteTypeOK' /\ StoreInv' /\ RecordInv' /\ ClocksRecent' /\ OwnPayments' /\ CapInv'
  BY LiteTypeKept, LiteStore, ClocksKept, PaymentsKept, CapNext DEF LiteInv
<1>2. log' = EventLog(scenario)' /\ (scenario \in Demands)'
  <2>1. log' = log /\ scenario' = scenario
    BY PlansStay
  <2>2. EventLog(scenario') = EventLog(scenario)
    BY <2>1
  <2> QED
    BY <2>1, <2>2 DEF LiteInv
<1>3. /\ \A p \in Consumers : LiteHandler(p)'
      /\ PlainViews' /\ Consumers = Submitters \cup Tickers
  BY HandlersKept, LiteAssumption
<1>4. HandlersHaveEvents'
  BY <1>3 DEF HandlersHaveEvents, LiteHandler
<1>5. OwnPlans'
  <2>1. OwnBatches'
    BY BatchesKept
  <2>2. ASSUME NEW s \in Submitters
        PROVE  (cons[s].pc # "idle" => /\ request[s].pc = "events"
                                       /\ \E o \in request[s].batch : cons[s].at \in PlanAt(o))'
    BY <1>3, <2>2 DEF LiteHandler, Owns
  <2> QED
    BY <2>1, <2>2 DEF OwnBatches, OwnPlans
<1>6. ViewsPlain'
  BY <1>3 DEF ViewsPlain, PlainViews, LiteHandler
<1>7. ReadsHold'
  BY <1>3 DEF ReadsHold, LiteHandler, ReadHolds
<1>8. PlansFirst' /\ PaidInTime'
  BY PlansKept, PaidInTimeKept
<1>9. EventsAlone'
  BY <1>8, AloneKept
<1> QED
  BY <1>1, <1>2, <1>4, <1>5, <1>6, <1>7, <1>8, <1>9 DEF LiteInv

LEMMA LiteStarts ==
  ASSUME LiteInit
  PROVE  LiteInv
<1>1. /\ Init /\ scenario \in Demands /\ log = EventLog(scenario)
      /\ merchant = [o \in Orders |-> Null] /\ capLock = Null /\ tickLock = Null
      /\ request = [s \in Submitters |-> IdleRequest] /\ pass = [t \in Tickers |-> IdlePass]
      /\ early = {}
  BY DEF LiteInit
<1>2. CapInv /\ PipelineInv /\ RecordInv
  BY <1>1, CapInit, InitInv, InitRecords
<1>3. StoreInv /\ HandlersHaveEvents /\ TypeOK
  BY <1>2, HaveEvents DEF PipelineInv, StoreInv
<1>4. \A p \in Consumers : cons[p].pc = "idle"
  BY <1>1 DEF Init, IdleHandler
<1>5. \A o \in Orders : merchant[o] = Null /\ views[o] = Null
  BY <1>1 DEF Init
<1>6. \A s \in Submitters : request[s] = IdleRequest
  BY <1>1
<1>7. \A t \in Tickers : pass[t] = IdlePass
  BY <1>1
<1>8. /\ IdleRequest.pc = "idle" /\ IdleRequest.batch = {} /\ IdleRequest.todo = {}
      /\ IdlePass.pc = "idle" /\ IdlePass.due = {}
  BY DEF IdleRequest, IdlePass
<1>9. LiteTypeOK
  <2>1. Cardinality(Orders) \in Nat /\ RecheckDelay \in TimeLeft
    BY LiteAssumption, FS_CardinalityType, TimeLeftType
  <2>2. IdleRequest \in [pc : {"idle", "count", "insert", "events"}, left : TimeLeft,
                         batch : SUBSET Orders, live : 0..Cardinality(Orders),
                         todo : SUBSET DOMAIN log]
    BY <2>1 DEF IdleRequest
  <2>3. IdlePass \in [pc : {"idle", "lock", "due", "armed", "pay", "reclaim", "orphans", "resolve"},
                      left : TimeLeft, late : BOOLEAN, due : SUBSET Orders]
    BY <2>1 DEF IdlePass
  <2> QED
    BY <1>1, <1>3, <2>2, <2>3 DEF LiteTypeOK
<1>10. OwnPlans
  BY <1>4, <1>6, <1>8, LiteAssumption DEF OwnPlans
<1>11. OwnPayments
  BY <1>4, <1>5, <1>7, <1>8, LiteAssumption DEF OwnPayments
<1>12. ViewsPlain /\ ReadsHold
  BY <1>4, <1>5 DEF ViewsPlain, ReadsHold
<1>13. ClocksRecent
  BY <1>6, <1>7, <1>8, LiteAssumption DEF ClocksRecent, Busy
<1>14. PlansFirst /\ PaidInTime /\ EventsAlone
  BY <1>4, <1>6, <1>7, <1>8, LiteAssumption DEF PlansFirst, PaidInTime, EventsAlone, InHand
<1> QED
  BY <1>1, <1>2, <1>3, <1>9, <1>10, <1>11, <1>12, <1>13, <1>14 DEF LiteInv

\* The invariant behind the theorems below.  The plans of two requests share no
\* order, and a request has reconciled its plan before the merchant pays, so no
\* two functions have events of one order in hand; a payment that comes in time
\* arms nothing on an order without a row; so no step takes a row back to an
\* earlier state.  (service.py:114-160, 175-223, state.py:102-114)
THEOREM LiteInvariance ==
  ASSUME Prompt
  PROVE  LiteSpec => []LiteInv
<1>1. LiteInit => LiteInv
  BY LiteStarts
<1>2. LiteInv /\ [LiteNext]_liteVars => LiteInv'
  BY LiteKept
<1> QED
  BY <1>1, <1>2, PTL DEF LiteSpec

\* Every variable of lite mode keeps its type; in particular no merchant's timer
\* leaves the range its deadlines are told apart in.
THEOREM LiteTyped ==
  ASSUME Prompt
  PROVE  LiteSpec => []LiteTypeOK
<1>1. LiteInv => LiteTypeOK
  BY DEF LiteInv
<1> QED
  BY <1>1, LiteInvariance, PTL

\* Ticks that overlap (the lock connection was dropped, or a dead tick's claim was
\* reclaimed) never hold the same live claim: the token fences them.
THEOREM LiteFenced ==
  ASSUME Prompt
  PROVE  LiteSpec => []ClaimsFenced
<1>1. LiteInv => ClaimsFenced
  BY StoreFenced DEF LiteInv
<1> QED
  BY <1>1, LiteInvariance, PTL

\* Ticks resolve or give up an order at most once, the retry budget holds, every
\* claim is accounted for, every order given up has its review, and the pointers
\* are what the audit log says: as in the worker, without Kafka's order.
THEOREM LiteRecordsHold ==
  ASSUME Prompt
  PROVE  LiteSpec => [](/\ OneSystemResolution /\ RetryBudget /\ ClaimsAccounted
                       /\ GivenUpIsReviewed /\ PointerDerivedFromAudit /\ ArmedIsSweepable)
<1>1. LiteInv => /\ OneSystemResolution /\ RetryBudget /\ ClaimsAccounted
                 /\ GivenUpIsReviewed /\ PointerDerivedFromAudit /\ ArmedIsSweepable
  BY DEF LiteInv, StoreInv, RecordInv, DeadlineKept, ArmedIsSweepable
<1> QED
  BY <1>1, LiteInvariance, PTL

\* No step of a request or a tick takes an order out of a terminal status except
\* into DISPUTED, as long as functions are prompt: a submit's late arm would take
\* an order that was paid meanwhile back to PENDING_RECHECK. (state.py:102-114)
THEOREM LiteTerminalLocked ==
  ASSUME Prompt
  PROVE  LiteSpec => TerminalLock
<1>1. LiteInv /\ [LiteNext]_liteVars =>
        [\A o \in Orders : Status(o) \in TerminalStatuses =>
           Status(o)' = Status(o) \/ Status(o)' = "DISPUTED"]_vars
  BY LiteSteps, TerminalStays
<1> QED
  BY <1>1, LiteInvariance, PTL DEF LiteSpec, TerminalLock

\* A tick that lost its claim never records an outcome for it.
THEOREM LiteOnlyHolders ==
  ASSUME Prompt
  PROVE  LiteSpec => OnlyHolderReports
<1>1. LiteInv /\ [LiteNext]_liteVars =>
        [\A o \in Orders : \A t \in 1..claims[o] :
           (Audited(RecheckId(o, t))' /\ ~Audited(RecheckId(o, t)))
             => t = claims[o] /\ Status(o) = "PROCESSING"]_vars
  BY LiteSteps, HolderReports DEF LiteInv
<1> QED
  BY <1>1, LiteInvariance, PTL DEF LiteSpec, OnlyHolderReports

\* No step of a request or a tick pushes an armed deadline out.
THEOREM LiteDeadlinesPulledIn ==
  ASSUME Prompt
  PROVE  LiteSpec => DeadlineOnlyPulledIn
<1>1. LiteInv /\ [LiteNext]_liteVars =>
        [\A o \in Orders :
           (Status(o) = "PENDING_RECHECK" /\ Status(o)' = "PENDING_RECHECK")
             => rows[o]'.recheck <= rows[o].recheck]_vars
  BY LiteSteps, PulledIn DEF LiteInv
<1> QED
  BY <1>1, LiteInvariance, PTL DEF LiteSpec, DeadlineOnlyPulledIn

\* Lite mode with prompt functions implements the same abstract lifecycle of an
\* order as the worker.
THEOREM LiteImplementsLifecycle ==
  ASSUME Prompt
  PROVE  LiteSpec => ImplementsLifecycle
<1>1. LiteInit => Lifecycle!Init
  BY DEF LiteInit, Init, Lifecycle!Init, Status, Retries
<1>2. LiteInv /\ [LiteNext]_liteVars => [Lifecycle!Next]_(Lifecycle!lifecycleVars)
  BY LiteSteps, LifecycleStep DEF LiteInv, StoreInv, Lifecycle!Next
<1> QED
  BY <1>1, <1>2, LiteInvariance, PTL DEF LiteSpec, ImplementsLifecycle, Lifecycle!Spec
=============================================================================
