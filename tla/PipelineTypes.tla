--------------------------- MODULE PipelineTypes ---------------------------
(***************************************************************************)
(* Type correctness of the reconciliation pipeline, action by action, for  *)
(* any orders, consumers and messages, any delays and any number of faults.*)
(***************************************************************************)
EXTENDS PipelineProps, DecisionProofs

-----------------------------------------------------------------------------
(* Rows and what the statements make of them.                              *)

LEMMA TimeLeftType ==
  /\ TimeLeft \subseteq Int /\ RecheckDelay \in TimeLeft /\ Null \notin TimeLeft
  /\ \A t \in TimeLeft : Sooner(t) \in TimeLeft
  /\ Sooner(Null) = Null
<1>1. TimeLeft \subseteq Int /\ RecheckDelay \in TimeLeft
  BY PipelineAssumption DEF TimeLeft
<1>2. Null \notin TimeLeft
  BY <1>1, NullColumnAssumption
<1>3. \A t \in TimeLeft : Sooner(t) \in TimeLeft
  BY <1>2, PipelineAssumption DEF TimeLeft, Sooner
<1> QED
  BY <1>1, <1>2, <1>3 DEF Sooner

LEMMA LeastType ==
  ASSUME NEW x \in TimeLeft \cup {Null}, NEW y \in TimeLeft
  PROVE  Least(x, y) \in TimeLeft
BY TimeLeftType DEF Least

LEMMA AgeType == 0 \in Age /\ Age \subseteq Int
BY PipelineAssumption DEF Age

LEMMA StatusType ==
  /\ TerminalStatuses \subseteq ReconStatus
  /\ {"PENDING_RECHECK", "PROCESSING"} \subseteq ReconStatus /\ Null \notin ReconStatus
  /\ "PENDING_RECHECK" \notin TerminalStatuses /\ "PROCESSING" \notin TerminalStatuses
  /\ "DISPUTED" \in TerminalStatuses /\ "DEAD_LETTER" \in TerminalStatuses
  /\ "RESOLVED_NATURALLY" \in TerminalStatuses
BY NullAssumption DEF ReconStatus, TerminalStatuses

LEMMA ArmedType ==
  ASSUME NEW r \in Row \cup {Null}, NEW left \in TimeLeft
  PROVE  Armed(r, left) \in Row
<1>1. CASE r = Null
  BY <1>1, PipelineAssumption, AgeType, StatusType, LeastType DEF Armed, Row
<1>2. CASE r # Null
  BY <1>2, AgeType, StatusType, LeastType DEF Armed, Row
<1> QED
  BY <1>1, <1>2

LEMMA DisputedType ==
  ASSUME NEW r \in Row \cup {Null}
  PROVE  Disputed(r) \in Row
<1>1. CASE r = Null
  BY <1>1, PipelineAssumption, AgeType, StatusType DEF Disputed, Row
<1>2. CASE r # Null
  BY <1>2, AgeType, StatusType DEF Disputed, Row
<1> QED
  BY <1>1, <1>2

LEMMA ClosedType ==
  ASSUME NEW r \in Row, NEW s \in TerminalStatuses
  PROVE  Completed(r, s) \in Row /\ ResolvedNaturally(r) \in Row
BY AgeType, StatusType DEF Completed, ResolvedNaturally, Row

LEMMA RetriedType ==
  ASSUME NEW r \in Row, NEW left \in TimeLeft, r.retry < MaxRetries
  PROVE  Rearmed(r, left) \in Row /\ Reclaimed(r) \in Row
<1>1. r.retry + 1 \in 0..MaxRetries
  BY PipelineAssumption DEF Row
<1> QED
  BY <1>1, AgeType, StatusType DEF Rearmed, Reclaimed, Row

LEMMA OlderType ==
  ASSUME NEW r \in Row \cup {Null}
  PROVE  Older(r) \in Row \cup {Null}
<1>1. CASE r = Null
  BY <1>1 DEF Older
<1>2. CASE r # Null
  <2>1. Sooner(r.recheck) \in TimeLeft \cup {Null}
    BY <1>2, TimeLeftType DEF Row
  <2>2. (IF r.status = "PROCESSING" /\ r.age <= StuckTimeout THEN r.age + 1 ELSE r.age) \in Age
    BY <1>2, PipelineAssumption DEF Row, Age
  <2> QED
    BY <1>2, <2>1, <2>2 DEF Older, Row
<1> QED
  BY <1>1, <1>2

-----------------------------------------------------------------------------
(* Type correctness.                                                       *)

LEMMA IdleTypes == IdleHandler \in Handler /\ IdleResolution \in Resolution
BY TimeLeftType DEF IdleHandler, IdleResolution, Handler, Resolution

LEMMA LogType ==
  ASSUME TypeOK
  PROVE  /\ Len(log) \in Nat /\ \A i \in 1..Len(log) : log[i] \in Event \cup {Null}
         /\ \A i \in 1..Len(log) : log[i] # Null => log[i].order \in Orders /\ log[i].id \in EventIds
<1>1. log \in Seq(Event \cup {Null}) /\ \A i \in DOMAIN log : log[i] # Null => log[i].order # Null
  BY LogsAssumption DEF TypeOK
<1>2. Len(log) \in Nat /\ DOMAIN log = 1..Len(log)
      /\ \A i \in 1..Len(log) : log[i] \in Event \cup {Null}
  BY <1>1
<1> QED
  BY <1>1, <1>2 DEF Event

LEMMA HandlerType ==
  ASSUME TypeOK, NEW c \in Consumers
  PROVE  /\ cons[c] \in Handler
         /\ cons[c].pc \in {"idle", "row", "view", "apply", "mark", "push", "commit"}
         /\ cons[c].at \in Nat /\ cons[c].left \in TimeLeft /\ cons[c].moved \in BOOLEAN
         /\ cons[c].status \in ReconStatus \cup {Null}
         /\ cons[c].view \in View \cup {Null} /\ cons[c].push \in BOOLEAN
BY DEF TypeOK, Handler

\* The event a consumer is busy with.
LEMMA EventAt ==
  ASSUME TypeOK, HandlersHaveEvents, NEW c \in Consumers,
         cons[c].pc \in {"row", "view", "apply", "mark", "push"}
  PROVE  /\ log[cons[c].at] \in Event /\ OrderAt(c) \in Orders /\ IdAt(c) \in EventIds
         /\ cons[c].at \in 1..Len(log)
<1>1. cons[c].at \in 1..Len(log) /\ log[cons[c].at] # Null
  BY DEF HandlersHaveEvents, HandlerHasEvent
<1> QED
  BY <1>1, LogType DEF OrderAt, IdAt

\* The next message of the partition's owner.
LEMMA NextMessage ==
  ASSUME TypeOK, NEW c \in Consumers, NextAt(c)
  PROVE  /\ committed + 1 \in 1..Len(log) /\ committed + 1 \in Nat
         /\ log[committed + 1] # Null => log[committed + 1].id \in EventIds
<1>1. committed + 1 \in 1..Len(log)
  BY LogType DEF TypeOK, NextAt
<1> QED
  BY <1>1, LogType

LEMMA ResolutionType ==
  ASSUME TypeOK, NEW r \in Resolvers
  PROVE  /\ res[r] \in Resolution /\ res[r].batch \in SUBSET Orders
         /\ res[r].left \in TimeLeft /\ res[r].rearm \in TimeLeft \cup {Null}
         /\ res[r].order \in Orders \cup {Null} /\ res[r].token \in Nat \cup {Null}
BY DEF TypeOK, Resolution

LEMMA TurnType ==
  ASSUME NEW s \in Resolution
  PROVE  Turn(s) \in Resolution
BY IdleTypes DEF Turn, Resolution

LEMMA OvertakenType ==
  ASSUME TypeOK, NEW c, NEW o
  PROVE  Overtaken(c, o) \in [Consumers -> Handler]
<1>1. \A d \in Consumers : [cons[d] EXCEPT !.moved = TRUE] \in Handler
  BY HandlerType DEF Handler
<1> QED
  BY <1>1, HandlerType DEF Overtaken, Told

LEMMA FiledType ==
  ASSUME reviews \subseteq ReviewItem, NEW items \in SUBSET ReviewItem
  PROVE  Filed(items) \subseteq ReviewItem
BY DEF Filed

\* The row a consumer's decision leaves.
LEMMA NewPointerType ==
  ASSUME NEW d, NEW r \in Row \cup {Null}, NEW h, h.left \in TimeLeft, PointerMoves(d, r, h)
  PROVE  NewPointer(d, r, h) \in Row
<1>1. Armed(r, h.left) \in Row /\ Disputed(r) \in Row
  BY ArmedType, DisputedType
<1>2. CASE d.action \in {"ARM_RECHECK", "ROUTE_DISPUTED"}
  BY <1>1, <1>2 DEF NewPointer
<1>3. CASE d.action \notin {"ARM_RECHECK", "ROUTE_DISPUTED"}
  <2>1. CanResolve(r)
    BY <1>3 DEF PointerMoves
  <2>2. ResolvedNaturally(r) \in Row
    BY <2>1, ClosedType, StatusType DEF CanResolve
  <2> QED
    BY <1>3, <2>2 DEF NewPointer
<1> QED
  BY <1>2, <1>3

\* What a consumer evaluates, and the types of what comes out.
LEMMA ApplyFacts ==
  ASSUME TypeOK, HandlersHaveEvents, NEW c \in Consumers, cons[c].pc = "apply",
         NEW result, result = Evaluate(log[cons[c].at], cons[c].view, cons[c].status, FALSE)
  PROVE  /\ result.decision \in Decision /\ result.view \in View
         /\ Entry(IdAt(c), OrderAt(c), result.decision.action, cons[c].status,
                  OrElse(result.decision.new, cons[c].status)) \in AuditEntry
         /\ result.decision.review # Null =>
              Review(IdAt(c), OrderAt(c), result.decision.review) \in ReviewItem
<1>1. result.decision \in Decision
  BY EvaluateType
<1>2. result.view \in View
  BY EventAt, EvaluateViewType DEF HandlersHaveEvents, HandlerHasEvent
<1>3. OrElse(result.decision.new, cons[c].status) \in ReconStatus \cup {Null}
  BY <1>1, HandlerType DEF OrElse, Decision
<1>4. Entry(IdAt(c), OrderAt(c), result.decision.action, cons[c].status,
            OrElse(result.decision.new, cons[c].status)) \in AuditEntry
  BY <1>1, <1>3, EventAt, HandlerType DEF Entry, AuditEntry, AuditId, Decision
<1>5. result.decision.review # Null =>
        Review(IdAt(c), OrderAt(c), result.decision.review) \in ReviewItem
  BY <1>1, EventAt DEF Review, ReviewItem, AuditId, Decision
<1> QED
  BY <1>1, <1>2, <1>4, <1>5

LEMMA ApplyType ==
  ASSUME TypeOK, HandlersHaveEvents, NEW c \in Consumers, Apply(c)
  PROVE  TypeOK'
<1> DEFINE h      == cons[c]
           o      == OrderAt(c)
           result == Evaluate(log[h.at], h.view, h.status, FALSE)
           d      == result.decision
           moves  == PointerMoves(d, rows[o], h)
           marked == [IdleHandler EXCEPT !.pc = "mark", !.at = h.at]
           done   == IF d.action = "ARM_RECHECK" /\ moves
                     THEN [marked EXCEPT !.push = TRUE, !.left = h.left] ELSE marked
<1>1. h.pc = "apply" /\ o \in Orders /\ IdAt(c) \in EventIds
  BY EventAt DEF Apply, ApplyAs, Overtaken
<1>2. d \in Decision /\ result.view \in View
      /\ Entry(IdAt(c), o, d.action, h.status, OrElse(d.new, h.status)) \in AuditEntry
      /\ (d.review # Null => Review(IdAt(c), o, d.review) \in ReviewItem)
  BY <1>1, ApplyFacts
<1>3. marked \in Handler /\ done \in Handler
  BY IdleTypes, HandlerType DEF Handler
<1>4. UNCHANGED <<redisVars, kafkaVars, res, faults>>
  BY DEF Apply, ApplyAs, Overtaken
<1>5. CASE Replay(IdAt(c))
  <2>1. cons' = [cons EXCEPT ![c] = marked] /\ UNCHANGED dbVars
    BY <1>5, Zenon DEF Apply, ApplyAs, Overtaken, IdAt
  <2> HIDE DEF marked
  <2>2. cons' \in [Consumers -> Handler]
    BY <1>3, <2>1 DEF TypeOK
  <2> QED
    BY <1>4, <2>1, <2>2 DEF TypeOK, dbVars, redisVars, kafkaVars
<1>6. CASE ~Replay(IdAt(c))
  <2>1. /\ audit' = audit \cup {Entry(IdAt(c), o, d.action, h.status, OrElse(d.new, h.status))}
        /\ views' = [views EXCEPT ![o] = result.view]
        /\ reviews' = IF d.review = Null THEN reviews ELSE Filed({Review(IdAt(c), o, d.review)})
        /\ rows' = IF moves THEN [rows EXCEPT ![o] = NewPointer(d, @, h)] ELSE rows
        /\ cons' = [(IF moves THEN Overtaken(c, o) ELSE cons) EXCEPT ![c] = done]
        /\ UNCHANGED claims
    BY <1>6, Zenon DEF Apply, ApplyAs, Overtaken, IdAt, OrderAt
  <2> HIDE DEF done
  <2>2. moves => NewPointer(d, rows[o], h) \in Row
    BY <1>1, HandlerType, NewPointerType DEF TypeOK
  <2> HIDE DEF moves, d, result, o
  <2>3. rows' \in [Orders -> Row \cup {Null}]
    BY <1>1, <2>1, <2>2 DEF TypeOK
  <2>4. views' \in [Orders -> View \cup {Null}]
    BY <1>1, <1>2, <2>1 DEF TypeOK
  <2>5. audit' \subseteq AuditEntry
    BY <1>2, <2>1 DEF TypeOK
  <2>6. reviews' \subseteq ReviewItem
    BY <1>2, <2>1, FiledType DEF TypeOK
  <2>7. cons' \in [Consumers -> Handler]
    BY <1>3, <2>1, OvertakenType DEF TypeOK
  <2> QED
    BY <1>4, <2>1, <2>3, <2>4, <2>5, <2>6, <2>7 DEF TypeOK, redisVars, kafkaVars
<1> QED
  BY <1>5, <1>6

LEMMA ConsumerType ==
  ASSUME TypeOK, HandlersHaveEvents, NEW c \in Consumers, ConsumerStep(c)
  PROVE  TypeOK'
<1> USE DEF dbVars, redisVars, kafkaVars
<1>1. CASE FileMalformed(c)
  <2>1. Review(MalformedId(committed + 1), Null, "unusable_envelope") \in ReviewItem
    BY <1>1, NextMessage DEF FileMalformed, Review, ReviewItem, MalformedId
  <2>2. reviews' \subseteq ReviewItem
    BY <1>1, <2>1, FiledType DEF FileMalformed, TypeOK
  <2>3. cons' \in [Consumers -> Handler]
    BY <1>1, NextMessage, IdleTypes DEF FileMalformed, TypeOK, Handler
  <2> QED
    BY <1>1, <2>2, <2>3 DEF FileMalformed, TypeOK
<1>2. CASE SkipSeen(c)
  <2>1. cons' \in [Consumers -> Handler]
    BY <1>2, NextMessage, IdleTypes DEF SkipSeen, TypeOK, Handler
  <2> QED
    BY <1>2, <2>1 DEF SkipSeen, TypeOK
<1>3. CASE StartEvent(c)
  <2>1. cons' \in [Consumers -> Handler]
    BY <1>3, NextMessage, IdleTypes DEF StartEvent, TypeOK, Handler
  <2>2. faults' \in 0..MaxFaults
    BY <1>3, PipelineAssumption DEF StartEvent, TypeOK
  <2> QED
    BY <1>3, <2>1, <2>2 DEF StartEvent, TypeOK
<1>4. CASE ReadRow(c)
  <2>1. rows[log[cons[c].at].order] \in Row \cup {Null}
    BY <1>4, EventAt DEF ReadRow, TypeOK, OrderAt
  <2>2. \A s \in ReconStatus \cup {Null} :
          [cons[c] EXCEPT !.pc = "view", !.status = s] \in Handler
    BY HandlerType DEF Handler
  <2>3. cons' \in [Consumers -> Handler]
    BY <1>4, <2>1, <2>2 DEF ReadRow, TypeOK, Row
  <2> QED
    BY <1>4, <2>3 DEF ReadRow, TypeOK
<1>5. CASE ReadView(c)
  <2>1. OrElse(views[log[cons[c].at].order], EmptyView) \in View
    BY <1>5, EventAt DEF ReadView, TypeOK, OrderAt, OrElse, EmptyView, View
  <2>2. \A v \in View : [cons[c] EXCEPT !.pc = "apply", !.view = v] \in Handler
    BY HandlerType DEF Handler
  <2>3. cons' \in [Consumers -> Handler]
    BY <1>5, <2>1, <2>2 DEF ReadView, TypeOK
  <2> QED
    BY <1>5, <2>3 DEF ReadView, TypeOK
<1>7. CASE MarkSeen(c)
  <2>1. seen' \subseteq EventIds
    BY <1>7, EventAt DEF MarkSeen, TypeOK, IdAt
  <2>2. [cons[c] EXCEPT !.pc = IF cons[c].push THEN "push" ELSE "commit"] \in Handler
    BY HandlerType DEF Handler
  <2>4. cons' \in [Consumers -> Handler]
    BY <1>7, <2>2 DEF MarkSeen, TypeOK
  <2>3. faults' \in 0..MaxFaults
    BY <1>7, PipelineAssumption DEF MarkSeen, TypeOK
  <2> QED
    BY <1>7, <2>1, <2>3, <2>4 DEF MarkSeen, TypeOK
<1>8. CASE Push(c)
  <2>1. queue' \in [Orders -> TimeLeft \cup {Null}]
    <3>1. Least(queue[OrderAt(c)], cons[c].left) \in TimeLeft
      BY <1>8, EventAt, HandlerType, LeastType DEF Push, TypeOK
    <3> QED
      BY <1>8, <3>1 DEF Push, TypeOK, OrderAt
  <2>2. cons' \in [Consumers -> Handler]
    BY <1>8, HandlerType, IdleTypes DEF Push, TypeOK, Handler
  <2>3. faults' \in 0..MaxFaults
    BY <1>8, PipelineAssumption DEF Push, TypeOK
  <2> QED
    BY <1>8, <2>1, <2>2, <2>3 DEF Push, TypeOK
<1>9. CASE Commit(c)
  <2>1. committed' \in 0..Len(log)
    BY <1>9, LogType DEF Commit, TypeOK, HandlersHaveEvents, HandlerHasEvent
  <2>2. cons' \in [Consumers -> Handler]
    BY <1>9, IdleTypes DEF Commit, TypeOK
  <2> QED
    BY <1>9, <2>1, <2>2 DEF Commit, TypeOK
<1>6. CASE Apply(c)
  BY <1>6, ApplyType
<1>10. CASE StopOnMessage(c)
  BY <1>10 DEF StopOnMessage, TypeOK
<1> QED
  BY <1>1, <1>2, <1>3, <1>4, <1>5, <1>6, <1>7, <1>8, <1>9, <1>10 DEF ConsumerStep

\* What a resolver evaluates.
LEMMA RecheckFacts ==
  ASSUME NEW id, NEW o, NEW v, NEW d, d = EvaluateRecheck(id, o, v).decision
  PROVE  /\ d \in Decision
         /\ d.action \in {"APPLY_AUTOCORRECT", "MARK_RESOLVED_NATURALLY", "ROUTE_DISPUTED"}
              => d.new \in {"RESOLVED_AUTOCORRECTED", "RESOLVED_NATURALLY", "DISPUTED"}
<1> DEFINE e       == RecheckEvent(id, o)
           failure == Correlate(v, e, TRUE)
           drift   == Assess(Project(v, e))
<1>1. d \in Decision
  BY EvaluateType DEF EvaluateRecheck
<1>2. d = Decide(e, failure, drift, "PROCESSING")
  BY DEF EvaluateRecheck, Evaluate
<1>3. d = IF failure # Null THEN Flag(failure, "NEUTRAL") ELSE DecideClaimed(drift)
  BY <1>2 DEF Decide, TerminalStatuses
<1>4. DecideClaimed(drift).action \in {"APPLY_AUTOCORRECT", "MARK_RESOLVED_NATURALLY", "ROUTE_DISPUTED"}
        => DecideClaimed(drift).new \in {"RESOLVED_AUTOCORRECTED", "RESOLVED_NATURALLY", "DISPUTED"}
  BY DEF DecideClaimed, AutoCorrect, ResolveNaturally, Dispute, Arm, Move, Quiet
<1>5. Flag(failure, "NEUTRAL").action = "FLAG_FOR_REVIEW"
  BY DEF Flag, Quiet
<1> QED
  BY <1>1, <1>3, <1>4, <1>5

LEMMA ResolverType ==
  ASSUME TypeOK, RetryBudget, ResolversOnOrders, NEW r \in Resolvers, ResolveStep(r)
  PROVE  TypeOK'
<1> USE DEF dbVars, redisVars, kafkaVars
<1>1. ASSUME NEW o \in Orders, Claim(r, o) PROVE TypeOK'
  <2> DEFINE token == claims[o] + 1
             s     == [res[r] EXCEPT !.batch = @ \ {o}, !.order = o]
  <2>1. token \in Nat
    BY DEF TypeOK
  <2>2. s \in Resolution
    BY ResolutionType DEF Resolution
  <2>3. CASE CanClaim(rows[o])
    <3>0. rows[o] \in Row
      BY <2>3 DEF CanClaim, TypeOK
    <3>1. [rows[o] EXCEPT !.status = "PROCESSING", !.token = token, !.age = 0] \in Row
      BY <2>1, <3>0, AgeType, StatusType DEF Row
    <3>2. rows' \in [Orders -> Row \cup {Null}] /\ claims' \in [Orders -> Nat]
      BY <1>1, <2>1, <2>3, <3>1 DEF Claim, TypeOK
    <3>3. [s EXCEPT !.pc = "read", !.token = token] \in Resolution
      BY <2>1, <2>2 DEF Resolution
    <3>4. res' \in [Resolvers -> Resolution]
      BY <1>1, <2>3, <3>3 DEF Claim, TypeOK
    <3>5. cons' \in [Consumers -> Handler]
      BY <1>1, <2>3, OvertakenType DEF Claim
    <3> QED
      BY <1>1, <3>2, <3>4, <3>5 DEF Claim, TypeOK
  <2>4. CASE ~CanClaim(rows[o])
    <3>1. [s EXCEPT !.pc = "drop"] \in Resolution
      BY <2>2 DEF Resolution
    <3>2. res' \in [Resolvers -> Resolution]
      BY <1>1, <2>4, <3>1 DEF Claim, TypeOK
    <3> QED
      BY <1>1, <2>4, <3>2 DEF Claim, TypeOK
  <2> QED
    BY <2>3, <2>4
<1>2. CASE ReadOrder(r)
  <2>1. OrElse(views[res[r].order], EmptyView) \in View
    BY <1>2 DEF ReadOrder, ResolversOnOrders, ResolverOnOrder, TypeOK, OrElse, EmptyView, View
  <2>2. \A v \in View : [res[r] EXCEPT !.pc = "finish", !.view = v] \in Resolution
    BY ResolutionType DEF Resolution
  <2>3. res' \in [Resolvers -> Resolution]
    BY <1>2, <2>1, <2>2 DEF ReadOrder, TypeOK
  <2> QED
    BY <1>2, <2>3 DEF ReadOrder, TypeOK
<1> DEFINE o  == res[r].order
           id == RecheckId(o, res[r].token)
           d  == EvaluateRecheck(id, o, res[r].view).decision
<1>3. Ended(res[r], "drop") \in Resolution /\ Ended(res[r], "requeue") \in Resolution
      /\ \A left \in TimeLeft : [Ended(res[r], "requeue") EXCEPT !.rearm = left] \in Resolution
  BY ResolutionType DEF Ended, Resolution
<1>4. CASE FinishStolen(r)
  <2>1. res' \in [Resolvers -> Resolution]
    BY <1>3, <1>4 DEF FinishStolen, TypeOK
  <2> QED
    BY <1>4, <2>1 DEF FinishStolen, TypeOK
<1>5. ASSUME res[r].pc = "finish"
      PROVE  o \in Orders /\ id \in AuditId /\ d \in Decision
  BY <1>5, RecheckFacts DEF ResolversOnOrders, ResolverOnOrder, RecheckId, AuditId, SystemId, TypeOK
<1>6. CASE FinishResolved(r)
  <2>1. d.new \in {"RESOLVED_AUTOCORRECTED", "RESOLVED_NATURALLY", "DISPUTED"}
    BY <1>6, RecheckFacts DEF FinishResolved
  <2>2. d.new \in TerminalStatuses /\ d.action \in Actions
    BY <1>5, <1>6, <2>1 DEF TerminalStatuses, Decision, FinishResolved
  <2>3. Entry(id, o, d.action, "PROCESSING", d.new) \in AuditEntry
    BY <1>5, <1>6, <2>2, StatusType DEF Entry, AuditEntry, FinishResolved
  <2>4. Completed(rows[o], d.new) \in Row
    BY <1>5, <1>6, <2>2, ClosedType DEF FinishResolved, Holds, TypeOK
  <2>5. /\ rows' = [rows EXCEPT ![o] = Completed(@, d.new)]
        /\ audit' = IF Replay(id) THEN audit
                    ELSE audit \cup {Entry(id, o, d.action, "PROCESSING", d.new)}
        /\ res' = [res EXCEPT ![r] = Ended(@, "drop")]
        /\ cons' = Overtaken(Null, o)
        /\ UNCHANGED <<views, reviews, claims, redisVars, kafkaVars, faults>>
    BY <1>6, Zenon DEF FinishResolved
  <2> HIDE DEF d, id, o
  <2>6. rows' \in [Orders -> Row \cup {Null}] /\ audit' \subseteq AuditEntry
    BY <2>3, <2>4, <2>5 DEF TypeOK
  <2>7. res' \in [Resolvers -> Resolution] /\ cons' \in [Consumers -> Handler]
    BY <1>3, <2>5, OvertakenType DEF TypeOK
  <2> QED
    BY <2>5, <2>6, <2>7 DEF TypeOK
<1>7. CASE FinishUnresolved(r)
  <2> DEFINE left == IF d.rearm THEN res[r].left ELSE RecheckDelay
             dead == Spent(rows[o])
  <2>1. left \in TimeLeft
    BY ResolutionType, TimeLeftType
  <2>2. rows[o] \in Row /\ rows[o].retry < MaxRetries /\ o \in Orders
    BY <1>5, <1>7 DEF FinishUnresolved, Holds, RetryBudget, Retries, Status, TypeOK
  <2>3. Rearmed(rows[o], left) \in Row
    BY <2>1, <2>2, RetriedType
  <2>4. UnresolvedEntry(id, o, d, dead) \in AuditEntry
    BY <1>5, <1>7, StatusType DEF FinishUnresolved, UnresolvedEntry, Entry, AuditEntry, Decision
  <2>5. Review(id, o, "dead_letter") \in ReviewItem
    BY <1>5, <1>7 DEF FinishUnresolved, Review, ReviewItem
  <2>6. /\ rows' = [rows EXCEPT ![o] = Rearmed(@, left)]
        /\ audit' = IF Replay(id) THEN audit ELSE audit \cup {UnresolvedEntry(id, o, d, dead)}
        /\ reviews' = IF dead THEN Filed({Review(id, o, "dead_letter")}) ELSE reviews
        /\ res' = [res EXCEPT ![r] = IF dead THEN Ended(@, "drop")
                                     ELSE [Ended(@, "requeue") EXCEPT !.rearm = left]]
        /\ cons' = Overtaken(Null, o)
        /\ UNCHANGED <<views, claims, redisVars, kafkaVars, faults>>
    BY <1>7, Zenon DEF FinishUnresolved
  <2> HIDE DEF d, id, o, left, dead
  <2>7. rows' \in [Orders -> Row \cup {Null}] /\ audit' \subseteq AuditEntry
    BY <2>3, <2>4, <2>6 DEF TypeOK
  <2>8. res' \in [Resolvers -> Resolution] /\ cons' \in [Consumers -> Handler]
    BY <1>3, <2>1, <2>6, OvertakenType DEF TypeOK
  <2>9. reviews' \subseteq ReviewItem
    BY <2>5, <2>6, FiledType DEF TypeOK
  <2> QED
    BY <2>6, <2>7, <2>8, <2>9 DEF TypeOK
<1>8. Turn(res[r]) \in Resolution
  BY ResolutionType, TurnType
<1>9. CASE Requeue(r)
  <2>1. res' \in [Resolvers -> Resolution]
    BY <1>8, <1>9 DEF Requeue, TypeOK
  <2>2. queue' \in [Orders -> TimeLeft \cup {Null}]
    BY <1>9 DEF Requeue, ResolversOnOrders, ResolverOnOrder, TypeOK
  <2> QED
    BY <1>9, <2>1, <2>2 DEF Requeue, TypeOK
<1>10. CASE Drop(r)
  <2>1. res' \in [Resolvers -> Resolution]
    BY <1>8, <1>10 DEF Drop, TypeOK
  <2>2. queue' \in [Orders -> TimeLeft \cup {Null}]
    BY <1>10 DEF Drop, ResolversOnOrders, ResolverOnOrder, TypeOK
  <2> QED
    BY <1>10, <2>1, <2>2 DEF Drop, TypeOK
<1> QED
  BY <1>1, <1>2, <1>4, <1>6, <1>7, <1>9, <1>10 DEF ResolveStep

\* The sweep's first transaction, of the worker's sweep or of a tick.
LEMMA ReclaimType ==
  ASSUME TypeOK, RetryBudget, ReclaimStuck
  PROVE  /\ rows' \in [Orders -> Row \cup {Null}] /\ audit' \subseteq AuditEntry
         /\ reviews' \subseteq ReviewItem /\ cons' \in [Consumers -> Handler]
<1> DEFINE stuck    == {o \in Orders : Stuck(rows[o])}
           dead     == {o \in stuck : Spent(rows[o])}
           entry(o) ==
             Entry(SweepId(o, rows[o].retry + 1), o,
                   IF o \in dead THEN "DEAD_LETTER" ELSE "RECLAIM", "PROCESSING",
                   IF o \in dead THEN "DEAD_LETTER" ELSE "PENDING_RECHECK")
<1>1. \A o \in stuck : rows[o] \in Row /\ rows[o].retry \in Nat /\ rows[o].retry < MaxRetries
  BY PipelineAssumption DEF Stuck, TypeOK, Row
<1>2. rows' \in [Orders -> Row \cup {Null}]
  <2>1. \A o \in stuck : Reclaimed(rows[o]) \in Row
    BY <1>1, RetriedType, TimeLeftType
  <2>2. rows' = [o \in Orders |-> IF o \in stuck THEN Reclaimed(rows[o]) ELSE rows[o]]
    BY Zenon DEF ReclaimStuck
  <2> HIDE DEF stuck
  <2> QED
    BY <2>1, <2>2 DEF TypeOK
<1>3. \A o \in stuck : entry(o) \in AuditEntry
  <2>1. \A o \in stuck : SweepId(o, rows[o].retry + 1) \in AuditId
    BY <1>1 DEF SweepId, AuditId, SystemId
  <2> QED
    BY <2>1, StatusType DEF Entry, AuditEntry
<1>4. audit' = audit \cup {entry(o) : o \in {x \in stuck : ~Replay(SweepId(x, rows[x].retry + 1))}}
  BY Zenon DEF ReclaimStuck
<1>5. audit' \subseteq AuditEntry
  <2> HIDE DEF entry, stuck
  <2> QED
    BY <1>3, <1>4 DEF TypeOK
<1>6. reviews' \subseteq ReviewItem
  <2>1. {Review(Null, o, "dead_letter") : o \in dead} \subseteq ReviewItem
    BY DEF Review, ReviewItem
  <2>2. reviews' = Filed({Review(Null, o, "dead_letter") : o \in dead})
    BY Zenon DEF ReclaimStuck
  <2> QED
    BY <2>1, <2>2, FiledType DEF TypeOK
<1>7. cons' \in [Consumers -> Handler]
  <2>1. \A c \in Consumers : [cons[c] EXCEPT !.moved = TRUE] \in Handler
    BY HandlerType DEF Handler
  <2> QED
    BY <2>1, HandlerType DEF ReclaimStuck
<1> QED
  BY <1>2, <1>5, <1>6, <1>7

LEMMA SweepType ==
  ASSUME TypeOK, RetryBudget, SweepStuck
  PROVE  TypeOK'
<1>1. [IdleResolution EXCEPT !.pc = "list"] \in Resolution
  BY IdleTypes DEF Resolution
<1>2. res' \in [Resolvers -> Resolution]
  BY <1>1 DEF SweepStuck, TypeOK
<1>3. ReclaimStuck
  BY DEF SweepStuck
<1> QED
  BY <1>2, <1>3, ReclaimType DEF SweepStuck, ReclaimStuck, TypeOK, redisVars, kafkaVars

\* Time.
LEMMA TimeType ==
  ASSUME TypeOK, TimePasses
  PROVE  /\ rows' \in [Orders -> Row \cup {Null}] /\ cons' \in [Consumers -> Handler]
         /\ res' \in [Resolvers -> Resolution]
<1>1. rows' \in [Orders -> Row \cup {Null}]
  BY OlderType DEF TimePasses, TypeOK
<1>2. cons' \in [Consumers -> Handler]
  <2>1. \A c \in Consumers : [cons[c] EXCEPT !.left = Sooner(@)] \in Handler
    BY HandlerType, TimeLeftType DEF Handler
  <2> QED
    BY <2>1, HandlerType DEF TimePasses
<1>3. res' \in [Resolvers -> Resolution]
  <2>1. \A r \in Resolvers : Sooner(res[r].left) \in TimeLeft /\ Sooner(res[r].rearm) \in TimeLeft \cup {Null}
    BY ResolutionType, TimeLeftType
  <2>2. \A r \in Resolvers :
          [res[r] EXCEPT !.left = Sooner(@), !.rearm = Sooner(@)] \in Resolution
    BY <2>1, ResolutionType DEF Resolution
  <2> QED
    BY <2>2, ResolutionType DEF TimePasses
<1> QED
  BY <1>1, <1>2, <1>3

LEMMA TickType ==
  ASSUME TypeOK, Tick
  PROVE  TypeOK'
<1>1. queue' \in [Orders -> TimeLeft \cup {Null}]
  BY TimeLeftType DEF Tick, TypeOK
<1> QED
  BY <1>1, TimeType DEF Tick, TimePasses, TypeOK, kafkaVars

\* The resolvers' other steps, and the failures.
LEMMA FaultType ==
  ASSUME TypeOK,
         \/ PollDue \/ ListOrphans
         \/ \E c \in Consumers : Assign(c) \/ CrashConsumer(c) \/ Rebalance(c)
         \/ \E r \in Resolvers : CrashResolver(r) \/ FailResolution(r)
         \/ \E o \in Orders : LoseQueued(o)
         \/ \E id \in EventIds : ForgetSeen(id)
  PROVE  TypeOK'
<1> USE DEF dbVars, redisVars, kafkaVars
<1>1. Fault => faults' \in 0..MaxFaults
  BY PipelineAssumption DEF Fault, TypeOK
<1>2. CASE PollDue
  <2>1. \A b \in SUBSET Orders : [IdleResolution EXCEPT !.pc = "claim", !.batch = b] \in Resolution
    BY IdleTypes DEF Resolution
  <2> QED
    BY <1>2, <2>1 DEF PollDue, TypeOK
<1>3. CASE ListOrphans
  <2>1. \A b \in SUBSET Orders : Turn([res["sweep"] EXCEPT !.batch = b]) \in Resolution
    <3>1. \A b \in SUBSET Orders : [res["sweep"] EXCEPT !.batch = b] \in Resolution
      BY <1>3, ResolutionType DEF ListOrphans, Resolution
    <3> QED
      BY <3>1, TurnType
  <2> QED
    BY <1>3, <2>1 DEF ListOrphans, TypeOK
<1>4. ASSUME NEW c \in Consumers, Assign(c) \/ CrashConsumer(c) \/ Rebalance(c) PROVE TypeOK'
  <2>1. CASE Assign(c)
    BY <2>1 DEF Assign, TypeOK
  <2>2. CASE CrashConsumer(c)
    BY <1>1, <2>2, IdleTypes DEF CrashConsumer, TypeOK
  <2>3. CASE Rebalance(c)
    BY <1>1, <2>3 DEF Rebalance, TypeOK
  <2> QED
    BY <1>4, <2>1, <2>2, <2>3
<1>5. ASSUME NEW r \in Resolvers, CrashResolver(r) PROVE TypeOK'
  BY <1>1, <1>5, IdleTypes DEF CrashResolver, TypeOK
<1>6. ASSUME NEW r \in Resolvers, FailResolution(r) PROVE TypeOK'
  <2>1. \A o : [res[r] EXCEPT !.batch = res[r].batch \ {o}] \in Resolution
    BY ResolutionType DEF Resolution
  <2>2. Turn(res[r]) \in Resolution
        /\ \A o : Turn([res[r] EXCEPT !.batch = res[r].batch \ {o}]) \in Resolution
    BY <2>1, ResolutionType, TurnType
  <2>3. \E s \in Resolution : res' = [res EXCEPT ![r] = s]
    <3>1. CASE res[r].pc = "claim"
      BY <1>6, <2>2, <3>1 DEF FailResolution
    <3>2. CASE res[r].pc # "claim"
      BY <1>6, <2>2, <3>2 DEF FailResolution
    <3> QED
      BY <3>1, <3>2
  <2>4. res' \in [Resolvers -> Resolution]
    BY <2>3 DEF TypeOK
  <2> QED
    BY <1>1, <1>6, <2>4 DEF FailResolution, TypeOK
<1>7. ASSUME NEW o \in Orders, LoseQueued(o) PROVE TypeOK'
  BY <1>1, <1>7 DEF LoseQueued, TypeOK
<1>8. ASSUME NEW id \in EventIds, ForgetSeen(id) PROVE TypeOK'
  BY <1>1, <1>8 DEF ForgetSeen, TypeOK
<1> QED
  BY <1>2, <1>3, <1>4, <1>5, <1>6, <1>7, <1>8

\* Every step keeps the types, given what the types alone do not say: that a
\* claimed row has budget left, and that processes work on real messages and
\* real orders.
LEMMA NextType ==
  ASSUME TypeOK, RetryBudget, HandlersHaveEvents, ResolversOnOrders, [Next]_vars
  PROVE  TypeOK'
<1>1. CASE UNCHANGED vars
  BY <1>1 DEF TypeOK, vars, dbVars, redisVars, kafkaVars
<1>2. CASE Next
  BY <1>2, ConsumerType, ResolverType, SweepType, TickType, FaultType DEF Next
<1> QED
  BY <1>1, <1>2

\* The initial state has its types.
LEMMA InitType ==
  ASSUME Init
  PROVE  TypeOK
<1>1. log \in Logs /\ Len(log) \in Nat
  BY LogsAssumption DEF Init
<1> QED
  BY <1>1, IdleTypes, PipelineAssumption DEF Init, TypeOK
=============================================================================
