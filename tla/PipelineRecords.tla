-------------------------- MODULE PipelineRecords --------------------------
(***************************************************************************)
(* What the records of the reconciliation pipeline say of its orders: the  *)
(* audit log, the review queue and the deadlines, for any orders,          *)
(* consumers and messages, any delays and any number of faults.            *)
(*                                                                         *)
(* RecordStep lists what one step can add to the records and how that goes *)
(* with the move of each order's pointer (OrderStep, in PipelineProofs).   *)
(* That a report is never swallowed by ON CONFLICT DO NOTHING is part of   *)
(* it: the ids the worker makes up have not been used when it writes them. *)
(***************************************************************************)
EXTENDS PipelineProofs, FiniteSetTheorems

-----------------------------------------------------------------------------
(* Ids and decisions.                                                      *)

LEMMA SystemIds ==
  ASSUME NEW o \in Orders, NEW n \in Nat
  PROVE  /\ RecheckId(o, n) \in SystemId /\ SweepId(o, n) \in SystemId
         /\ RecheckId(o, n)[1] = "recheck" /\ RecheckId(o, n)[2] = o /\ RecheckId(o, n)[3] = n
         /\ SweepId(o, n)[1] = "sweep" /\ SweepId(o, n)[2] = o /\ SweepId(o, n)[3] = n
         /\ RecheckId(o, n) # Null
BY NullColumnAssumption DEF RecheckId, SweepId, SystemId

LEMMA OtherIds ==
  /\ Null \notin SystemId
  /\ \A id \in EventIds : id \notin SystemId
  /\ \A n \in Nat : MalformedId(n) \notin SystemId
<1>1. \A n \in Nat, id \in SystemId : MalformedId(n)[1] # id[1]
  BY DEF MalformedId, SystemId
<1> QED
  BY <1>1, NullColumnAssumption, IdAssumption

\* What a decision that moves the pointer or flags the order carries.
Carries(d) ==
  /\ d.action = "ARM_RECHECK" => d.new = "PENDING_RECHECK"
  /\ d.action = "ROUTE_DISPUTED" => d.new = "DISPUTED"
  /\ d.action = "MARK_RESOLVED_NATURALLY" => d.new = "RESOLVED_NATURALLY"
  /\ d.action = "FLAG_FOR_REVIEW" => d.review # Null

LEMMA DecisionCarries ==
  ASSUME NEW e, NEW v, NEW status, NEW b
  PROVE  Carries(Evaluate(e, v, status, b).decision)
<1> DEFINE failure == Correlate(v, e, b)
           drift   == Assess(Project(v, e))
<1>1. Evaluate(e, v, status, b).decision = Decide(e, failure, drift, status)
  BY DEF Evaluate
<1>2. Carries(Arm("SAFE")) /\ Carries(Arm(drift)) /\ Carries(Dispute) /\ Carries(ResolveNaturally)
      /\ Carries(AutoCorrect)
  BY DEF Carries, Arm, Dispute, ResolveNaturally, AutoCorrect, Move, Quiet
<1>3. Carries(Quiet("NO_OP")) /\ Carries(Quiet("LOCKED_REPLAY_IGNORED"))
  BY DEF Carries, Quiet
<1>4. Carries(Flag("unsafe_drift", "UNSAFE")) /\ (failure # Null => Carries(Flag(failure, "NEUTRAL")))
  BY NullAssumption DEF Carries, Flag, Quiet
<1> HIDE DEF failure, drift
<1>5. Carries(DecideClaimed(drift)) /\ Carries(DecideFresh(drift, status))
  BY <1>2, <1>3, <1>4 DEF DecideClaimed, DecideFresh
<1> QED
  BY <1>1, <1>2, <1>3, <1>4, <1>5 DEF Decide

-----------------------------------------------------------------------------
(* What one step does to the records.                                      *)

\* The log says where the order was moved to.
OnRecord(o) == \E a \in audit' : a.order = o /\ a.new = rows'[o].status

DeadReviewed(o) == \E v \in reviews' : v.order = o /\ v.reason = "dead_letter"

\* The system's audit row a is the one it adds for order o: the report on the
\* live claim, or on the retry it cost.
Reported(o, a) ==
  /\ SystemAudit(o)' = SystemAudit(o) \cup {a}
  /\ a.order = o /\ a.new = rows'[o].status
  /\ \/ EndedAs(rows[o], rows'[o]) /\ a.id = RecheckId(o, claims[o])
     \/ /\ RetriedAs(rows[o], rows'[o])
        /\ a.id \in {RecheckId(o, claims[o]), SweepId(o, rows[o].retry + 1)}
        /\ a.new = "DEAD_LETTER" => DeadReviewed(o)

Accounted(o) ==
  \/ /\ claims'[o] = claims[o] /\ SystemAudit(o)' = SystemAudit(o)
     /\ \/ Same(rows[o], rows'[o])
        \/ /\ OnRecord(o)
           /\ CreatedAs(rows[o], rows'[o]) \/ CaughtUp(rows[o], rows'[o]) \/ DisputedBy(rows[o], rows'[o])
  \/ /\ claims'[o] = claims[o] + 1 /\ SystemAudit(o)' = SystemAudit(o)
     /\ ClaimedAs(rows[o], rows'[o], claims'[o])
  \/ claims'[o] = claims[o] /\ \E a \in audit' \ audit : Reported(o, a)

RecordStep ==
  /\ reviews \subseteq reviews'
  /\ \A v \in reviews' \ reviews : v.id \in SystemId => Audited(v.id)'
  /\ \A a \in audit' \ audit :
       (a.decision = "FLAG_FOR_REVIEW" /\ ~BySystem(a)) => \E v \in reviews' : v.id = a.id
  /\ \A o \in Orders : Accounted(o)

\* A step that leaves the pointers, the claims and the log alone.
LEMMA NothingRecorded ==
  ASSUME UNCHANGED <<audit, claims>>, \A o \in Orders : Same(rows[o], rows'[o]),
         reviews \subseteq reviews', \A v \in reviews' \ reviews : v.id \notin SystemId
  PROVE  RecordStep
<1>1. \A o \in Orders : SystemAudit(o)' = SystemAudit(o)
  BY DEF SystemAudit, BySystem
<1> QED
  BY <1>1 DEF RecordStep, Accounted

\* An order whose pointer is as it was, and that the log says nothing new of.
LEMMA StillAccounted ==
  ASSUME NEW o, rows'[o] = rows[o], claims'[o] = claims[o], SystemAudit(o)' = SystemAudit(o)
  PROVE  Accounted(o)
BY DEF Accounted, Same

LEMMA ApplyRecords ==
  ASSUME StoreInv, HandlersHaveEvents, NEW c \in Consumers, ArmsKnown(c), Apply(c)
  PROVE  RecordStep
<1> USE DEF StoreInv
<1> DEFINE h     == cons[c]
           o     == OrderAt(c)
           d     == Evaluate(log[h.at], h.view, h.status, FALSE).decision
           moves == PointerMoves(d, rows[o], h)
           a     == Entry(IdAt(c), o, d.action, h.status, OrElse(d.new, h.status))
           item  == Review(IdAt(c), o, d.review)
<1>1. h.pc = "apply" /\ o \in Orders /\ h.left \in TimeLeft /\ rows[o] \in Row \cup {Null}
      /\ IdAt(c) \in EventIds
  BY EventAt, HandlerType DEF Apply, ApplyAs, Overtaken, TypeOK
<1>2. CASE Replay(IdAt(c))
  <2>1. UNCHANGED dbVars
    BY <1>2, Zenon DEF Apply, ApplyAs, Overtaken, IdAt
  <2> QED
    BY <2>1, NothingRecorded DEF dbVars, Same
<1>3. CASE ~Replay(IdAt(c))
  <2>1. /\ audit' = audit \cup {a}
        /\ reviews' = IF d.review = Null THEN reviews ELSE Filed({item})
        /\ rows' = IF moves THEN [rows EXCEPT ![o] = NewPointer(d, @, h)] ELSE rows
        /\ UNCHANGED claims
    BY <1>3, Zenon DEF Apply, ApplyAs, Overtaken, IdAt, OrderAt
  <2>2. ~BySystem(a) /\ a.id = IdAt(c) /\ a.order = o /\ a.decision = d.action
        /\ a.new = OrElse(d.new, h.status)
    BY <1>1, OtherIds DEF BySystem, Entry
  <2>3. item.id = IdAt(c)
    BY DEF Review
  <2>4. Carries(d)
    BY DecisionCarries, Zenon
  <2>5. moves => /\ rows[o] # Null => rows[o].status # "PROCESSING"
                 /\ NewPointer(d, rows[o], h).status = d.new /\ d.new # Null
    <3>1. CASE d.action = "ARM_RECHECK"
      BY <1>1, <2>4, <3>1, StatusType DEF Carries, PointerMoves, NewPointer, CanArm, Armed, Row
    <3>2. CASE d.action = "ROUTE_DISPUTED"
      BY <1>1, <2>4, <3>2, StatusType DEF Carries, PointerMoves, NewPointer, CanDispute, Disputed, Row
    <3>3. CASE d.action = "MARK_RESOLVED_NATURALLY"
      BY <1>1, <2>4, <3>3, StatusType DEF Carries, PointerMoves, NewPointer, CanResolve, ResolvedNaturally, Row
    <3>4. CASE d.action \notin {"ARM_RECHECK", "ROUTE_DISPUTED", "MARK_RESOLVED_NATURALLY"}
      BY <3>4 DEF PointerMoves
    <3> QED
      BY <3>1, <3>2, <3>3, <3>4
  <2>6. \A x \in Orders : OrderStep(x)
    BY ApplyMoves
  <2> DEFINE q == NewPointer(d, rows[o], h)
  <2>7. rows' = IF moves THEN [rows EXCEPT ![o] = q] ELSE rows
    BY <2>1
  <2> HIDE DEF a, item, q, moves, d, o
  <2>8. reviews \subseteq reviews' /\ \A v \in reviews' \ reviews : v = item
    BY <2>1, FiledGrows DEF Filed
  <2>9. d.review # Null => \E v \in reviews' : v.id = IdAt(c)
    BY <2>1, <2>3 DEF Filed
  <2>10. \A x \in Orders : SystemAudit(x)' = SystemAudit(x)
    BY <2>1, <2>2 DEF SystemAudit, BySystem
  <2>11. ASSUME NEW x \in Orders PROVE Accounted(x)
    <3>1. CASE x = o /\ moves
      <4>1. rows'[o] = q /\ claims'[o] = claims[o]
        BY <1>1, <2>1, <2>7, <3>1 DEF TypeOK
      <4>2. OnRecord(o)
        BY <2>1, <2>2, <2>5, <3>1, <4>1 DEF OnRecord, OrElse, q
      <4>3. ~EndedAs(rows[o], rows'[o]) /\ ~RetriedAs(rows[o], rows'[o])
        BY <2>5, <3>1 DEF EndedAs, RetriedAs
      <4>4. claims[o] \in Nat
        BY <1>1 DEF TypeOK
      <4> QED
        BY <1>1, <2>6, <2>10, <3>1, <4>1, <4>2, <4>3, <4>4 DEF Accounted, OrderStep, Pointer
    <3>2. CASE ~(x = o /\ moves)
      BY <2>1, <2>7, <2>10, <3>2, StillAccounted DEF TypeOK
    <3> QED
      BY <3>1, <3>2
  <2> QED
    BY <1>1, <2>1, <2>2, <2>3, <2>4, <2>8, <2>9, <2>11, OtherIds DEF RecordStep, Carries
<1> QED
  BY <1>2, <1>3

\* The live claim has not been reported on, nor has the retry it may cost: the
\* audit log's unique constraint never swallows either.
LEMMA ReportIsFresh ==
  ASSUME StoreInv, IdsAreUsed, NEW o \in Orders, rows[o] # Null, rows[o].status = "PROCESSING"
  PROVE  ~Replay(RecheckId(o, claims[o])) /\ ~Replay(SweepId(o, rows[o].retry + 1))
<1>1. claims[o] \in Nat /\ rows[o].retry \in Nat
  BY PipelineAssumption DEF StoreInv, TypeOK, Row
<1>2. ASSUME NEW a \in audit, a.id = RecheckId(o, claims[o]) PROVE FALSE
  <2>1. BySystem(a) /\ a.id[1] = "recheck" /\ a.id[2] = o /\ a.id[3] = claims[o]
    BY <1>1, <1>2, SystemIds DEF BySystem
  <2> QED
    BY <2>1 DEF IdsAreUsed, Status
<1>3. ASSUME NEW a \in audit, a.id = SweepId(o, rows[o].retry + 1) PROVE FALSE
  <2>1. rows[o].retry + 1 \in Nat
    BY <1>1
  <2>2. BySystem(a) /\ a.id[1] = "sweep" /\ a.id[2] = o /\ a.id[3] = rows[o].retry + 1
    BY <1>3, <2>1, SystemIds DEF BySystem
  <2>3. rows[o].retry + 1 <= rows[o].retry
    BY <2>2 DEF IdsAreUsed, Retries
  <2> QED
    BY <1>1, <2>3
<1> QED
  BY <1>2, <1>3 DEF Replay

\* One order is reported on, the others stay.
LEMMA OneReported ==
  ASSUME TypeOK, NEW o \in Orders, NEW q, NEW a, rows' = [rows EXCEPT ![o] = q], UNCHANGED claims,
         audit' = audit \cup {a}, a \notin audit, BySystem(a), a.order = o,
         SystemAudit(o)' = SystemAudit(o) \cup {a} => Reported(o, a)
  PROVE  \A x \in Orders : Accounted(x)
<1> SUFFICES ASSUME NEW x \in Orders PROVE Accounted(x)
  OBVIOUS
<1>1. CASE x = o
  <2>1. SystemAudit(o)' = SystemAudit(o) \cup {a}
    BY DEF SystemAudit, BySystem
  <2> QED
    BY <1>1, <2>1 DEF Accounted
<1>2. CASE x # o
  <2>1. SystemAudit(x)' = SystemAudit(x)
    BY <1>2 DEF SystemAudit, BySystem
  <2> QED
    BY <1>2, <2>1, StillAccounted DEF TypeOK
<1> QED
  BY <1>1, <1>2

LEMMA ResolverRecords ==
  ASSUME StoreInv, IdsAreUsed, ReviewsAreAudited, NEW r \in Resolvers, ResolveStep(r)
  PROVE  RecordStep
<1> USE DEF StoreInv
<1>1. ASSUME NEW o \in Orders, Claim(r, o) PROVE RecordStep
  <2>1. UNCHANGED <<audit, reviews>>
    BY <1>1 DEF Claim
  <2>2. CASE ~CanClaim(rows[o])
    BY <1>1, <2>1, <2>2, NothingRecorded DEF Claim, Same
  <2>3. CASE CanClaim(rows[o])
    <3>1. /\ rows' = [rows EXCEPT ![o] =
                        [@ EXCEPT !.status = "PROCESSING", !.token = claims[o] + 1, !.age = 0]]
          /\ claims' = [claims EXCEPT ![o] = claims[o] + 1]
      BY <1>1, <2>3 DEF Claim
    <3>2. rows[o] \in Row /\ rows[o].status = "PENDING_RECHECK" /\ claims[o] \in Nat
      BY <2>3 DEF CanClaim, TypeOK
    <3>3. \A x \in Orders : OrderStep(x)
      BY <1>1, ResolverMoves DEF ResolveStep
    <3>4. claims'[o] = claims[o] + 1 /\ \A x \in Orders : x # o => rows'[x] = rows[x] /\ claims'[x] = claims[x]
      BY <3>1 DEF TypeOK
    <3>5. \A x \in Orders : SystemAudit(x)' = SystemAudit(x)
      BY <2>1 DEF SystemAudit, BySystem
    <3>6. Accounted(o)
      BY <3>2, <3>3, <3>4, <3>5 DEF Accounted, OrderStep, Pointer
    <3>7. \A x \in Orders : Accounted(x)
      BY <3>4, <3>5, <3>6, StillAccounted
    <3> QED
      BY <2>1, <3>7 DEF RecordStep
  <2> QED
    BY <2>2, <2>3
<1>2. CASE ReadOrder(r) \/ FinishStolen(r) \/ Requeue(r) \/ Drop(r)
  BY <1>2, NothingRecorded DEF ReadOrder, FinishStolen, Requeue, Drop, dbVars, Same
<1>3. ASSUME NEW o \in Orders, o = res[r].order, res[r].pc = "finish", Holds(rows[o], res[r].token)
      PROVE  /\ rows[o] \in Row /\ rows[o].status = "PROCESSING" /\ rows[o].retry < MaxRetries
             /\ res[r].token = claims[o] /\ claims[o] \in Nat
             /\ RecheckId(o, res[r].token) \in SystemId /\ ~Replay(RecheckId(o, res[r].token))
  <2>1. rows[o] # Null /\ rows[o].status = "PROCESSING" /\ res[r].token \in 1..claims[o]
    BY <1>3 DEF Holds, ResolversOnOrders, ResolverOnOrder
  <2>2. claims[o] \in Nat
    BY <2>1 DEF TypeOK
  <2>3. res[r].token = claims[o]
    BY <1>3, <2>1, <2>2, NullColumnAssumption DEF Holds, TokenIsLatest
  <2> QED
    BY <2>1, <2>2, <2>3, HeldRow, ReportIsFresh, SystemIds
<1>4. FinishResolved(r) \/ FinishUnresolved(r) => \E o \in Orders : o = res[r].order
  BY DEF FinishResolved, FinishUnresolved, ResolversOnOrders, ResolverOnOrder
<1>5. CASE FinishResolved(r)
  <2> PICK o \in Orders : o = res[r].order
    BY <1>4, <1>5
  <2> DEFINE id == RecheckId(o, res[r].token)
             d  == EvaluateRecheck(id, o, res[r].view).decision
             a  == Entry(id, o, d.action, "PROCESSING", d.new)
             q  == Completed(rows[o], d.new)
  <2>1. /\ rows' = [rows EXCEPT ![o] = Completed(@, d.new)] /\ UNCHANGED <<claims, reviews>>
        /\ audit' = IF Replay(id) THEN audit ELSE audit \cup {a}
        /\ res[r].pc = "finish" /\ Holds(rows[o], res[r].token)
    BY <1>5, Zenon DEF FinishResolved
  <2>2. d.new \in {"RESOLVED_AUTOCORRECTED", "RESOLVED_NATURALLY", "DISPUTED"}
    BY <1>5, RecheckFacts DEF FinishResolved
  <2>3. q.status = d.new /\ q.token = Null /\ q.retry = rows[o].retry
    BY <1>3, <2>1 DEF Completed, Row
  <2>4. a.order = o /\ a.id = id /\ a.new = d.new
    BY DEF Entry
  <2>5. rows' = [rows EXCEPT ![o] = q]
    BY <2>1
  <2>6. q # Null
    BY <1>3, <2>1, <2>2, ClosedType, NullColumnAssumption DEF TerminalStatuses
  <2> HIDE DEF a, q, d
  <2>7. audit' = audit \cup {a} /\ a \notin audit /\ BySystem(a)
    BY <1>3, <2>1, <2>4 DEF Replay, BySystem
  <2>8. rows'[o] = q
    BY <1>3, <2>1, <2>5 DEF TypeOK
  <2>9. EndedAs(rows[o], rows'[o])
    BY <1>3, <2>1, <2>2, <2>3, <2>6, <2>8, NullColumnAssumption DEF EndedAs, Unclaimed
  <2>10. SystemAudit(o)' = SystemAudit(o) \cup {a} => Reported(o, a)
    BY <1>3, <2>1, <2>3, <2>4, <2>8, <2>9 DEF Reported
  <2>11. \A x \in Orders : Accounted(x)
    BY <1>3, <2>1, <2>4, <2>5, <2>7, <2>10, OneReported
  <2> QED
    BY <2>1, <2>7, <2>11 DEF RecordStep
<1>6. CASE FinishUnresolved(r)
  <2> PICK o \in Orders : o = res[r].order
    BY <1>4, <1>6
  <2> DEFINE id   == RecheckId(o, res[r].token)
             d    == EvaluateRecheck(id, o, res[r].view).decision
             left == IF d.rearm THEN res[r].left ELSE RecheckDelay
             dead == Spent(rows[o])
             a    == UnresolvedEntry(id, o, d, dead)
             item == Review(id, o, "dead_letter")
             q    == Rearmed(rows[o], left)
  <2>1. /\ rows' = [rows EXCEPT ![o] = Rearmed(@, left)] /\ UNCHANGED claims
        /\ audit' = IF Replay(id) THEN audit ELSE audit \cup {a}
        /\ reviews' = IF dead THEN Filed({item}) ELSE reviews
        /\ res[r].pc = "finish" /\ Holds(rows[o], res[r].token)
    BY <1>6, Zenon DEF FinishUnresolved
  <2>2. left \in TimeLeft
    BY ResolutionType, TimeLeftType
  <2>3. /\ q.status = (IF dead THEN "DEAD_LETTER" ELSE "PENDING_RECHECK")
        /\ q.token = Null /\ q.retry = rows[o].retry + 1
    BY <1>3, <2>1 DEF Rearmed, Row
  <2>4. a.order = o /\ a.id = id /\ a.new = (IF dead THEN "DEAD_LETTER" ELSE "PENDING_RECHECK")
    BY DEF UnresolvedEntry, Entry
  <2>5. rows' = [rows EXCEPT ![o] = q] /\ (dead <=> rows[o].retry + 1 >= MaxRetries)
    BY <2>1 DEF Spent
  <2>6. q # Null
    BY <1>3, <2>1, <2>2, RetriedType, NullColumnAssumption
  <2>7. item.id = id /\ item.order = o /\ item.reason = "dead_letter"
    BY DEF Review
  <2> HIDE DEF a, q, d, left, dead, item
  <2>8. audit' = audit \cup {a} /\ a \notin audit /\ BySystem(a)
    BY <1>3, <2>1, <2>4 DEF Replay, BySystem
  <2>9. ~\E v \in reviews : v.id = id
    BY <1>3, <2>1 DEF ReviewsAreAudited, Audited, Replay
  <2>10. reviews' = IF dead THEN reviews \cup {item} ELSE reviews
    BY <2>1, <2>7, <2>9 DEF Filed
  <2>11. rows'[o] = q
    BY <1>3, <2>1, <2>5 DEF TypeOK
  <2>12. RetriedAs(rows[o], rows'[o])
    BY <1>3, <2>1, <2>3, <2>5, <2>6, <2>11, NullColumnAssumption DEF RetriedAs, Unclaimed
  <2>13. a.new = "DEAD_LETTER" => DeadReviewed(o)
    BY <2>4, <2>7, <2>10 DEF DeadReviewed
  <2>14. SystemAudit(o)' = SystemAudit(o) \cup {a} => Reported(o, a)
    BY <1>3, <2>1, <2>3, <2>4, <2>11, <2>12, <2>13 DEF Reported
  <2>15. \A x \in Orders : Accounted(x)
    BY <1>3, <2>1, <2>4, <2>5, <2>8, <2>14, OneReported
  <2>16. \A v \in reviews' \ reviews : Audited(v.id)'
    BY <2>4, <2>7, <2>8, <2>10 DEF Audited
  <2> QED
    BY <2>8, <2>10, <2>15, <2>16 DEF RecordStep
<1> QED
  BY <1>1, <1>2, <1>5, <1>6 DEF ResolveStep

LEMMA SweepRecords ==
  ASSUME StoreInv, IdsAreUsed, ReclaimStuck
  PROVE  RecordStep
<1> USE DEF StoreInv
<1> DEFINE stuck    == {o \in Orders : Stuck(rows[o])}
           dead     == {o \in stuck : Spent(rows[o])}
           entry(o) ==
             Entry(SweepId(o, rows[o].retry + 1), o,
                   IF o \in dead THEN "DEAD_LETTER" ELSE "RECLAIM", "PROCESSING",
                   IF o \in dead THEN "DEAD_LETTER" ELSE "PENDING_RECHECK")
           fresh    == {x \in stuck : ~Replay(SweepId(x, rows[x].retry + 1))}
           items    == {Review(Null, o, "dead_letter") : o \in dead}
<1>1. /\ rows' = [o \in Orders |-> IF o \in stuck THEN Reclaimed(rows[o]) ELSE rows[o]]
      /\ audit' = audit \cup {entry(o) : o \in fresh}
      /\ reviews' = Filed(items) /\ UNCHANGED claims
  BY Zenon DEF ReclaimStuck
<1>2. \A o \in stuck : /\ o \in Orders /\ rows[o] # Null /\ rows[o].status = "PROCESSING"
                      /\ rows[o] \in Row /\ rows[o].retry < MaxRetries /\ rows[o].retry + 1 \in Nat
  BY HeldRow, PipelineAssumption DEF Stuck, Row
<1>3. fresh = stuck
  <2>1. \A o \in stuck : ~Replay(SweepId(o, rows[o].retry + 1))
    BY <1>2, ReportIsFresh
  <2> HIDE DEF stuck
  <2> QED
    BY <2>1
<1>4. \A o \in stuck :
        /\ entry(o).order = o /\ entry(o).id = SweepId(o, rows[o].retry + 1)
        /\ entry(o).new = (IF o \in dead THEN "DEAD_LETTER" ELSE "PENDING_RECHECK")
  BY DEF Entry
<1>5. \A v \in items : v.id = Null /\ v.reason = "dead_letter"
  BY DEF Review
<1>6. \A o \in dead : \E v \in items : v.order = o
  <2>1. \A o : Review(Null, o, "dead_letter").order = o
    BY DEF Review
  <2> HIDE DEF dead
  <2> QED
    BY <2>1
<1>7. dead \subseteq stuck /\ \A o \in stuck : o \in dead <=> rows[o].retry + 1 >= MaxRetries
  BY DEF Spent
<1>8. \A o \in stuck :
        /\ Reclaimed(rows[o]) # Null /\ Reclaimed(rows[o]).token = Null
        /\ Reclaimed(rows[o]).retry = rows[o].retry + 1
        /\ Reclaimed(rows[o]).status = (IF o \in dead THEN "DEAD_LETTER" ELSE "PENDING_RECHECK")
  <2> SUFFICES ASSUME NEW o \in stuck
               PROVE  /\ Reclaimed(rows[o]) # Null /\ Reclaimed(rows[o]).token = Null
                      /\ Reclaimed(rows[o]).retry = rows[o].retry + 1
                      /\ Reclaimed(rows[o]).status = (IF o \in dead THEN "DEAD_LETTER" ELSE "PENDING_RECHECK")
    OBVIOUS
  <2>1. Reclaimed(rows[o]) # Null
    BY <1>2, RetriedType, TimeLeftType, NullColumnAssumption
  <2> QED
    BY <1>2, <2>1 DEF Reclaimed, Row
<1> HIDE DEF entry, fresh, items, dead, stuck
<1>9. \A o \in stuck : BySystem(entry(o)) /\ entry(o) \notin audit
  BY <1>2, <1>4, ReportIsFresh, SystemIds DEF BySystem, Replay
<1>10. reviews' = reviews \cup items
  BY <1>1, <1>5 DEF Filed
<1>11. ASSUME NEW o \in Orders PROVE Accounted(o)
  <2>1. CASE o \in stuck
    <3>1. SystemAudit(o)' = SystemAudit(o) \cup {entry(o)}
      BY <1>1, <1>3, <1>4, <1>9, <2>1 DEF SystemAudit, BySystem
    <3>2. RetriedAs(rows[o], rows'[o])
      BY <1>1, <1>2, <1>7, <1>8, <2>1 DEF RetriedAs, Unclaimed
    <3>3. o \in dead => DeadReviewed(o)
      BY <1>5, <1>6, <1>10 DEF DeadReviewed
    <3>4. entry(o).new = rows'[o].status
      BY <1>1, <1>4, <1>8, <2>1
    <3>5. Reported(o, entry(o))
      BY <1>4, <2>1, <3>1, <3>2, <3>3, <3>4 DEF Reported
    <3>6. entry(o) \in audit' \ audit
      BY <1>1, <1>3, <1>9, <2>1
    <3> QED
      BY <1>1, <3>5, <3>6 DEF Accounted
  <2>2. CASE o \notin stuck
    <3>1. SystemAudit(o)' = SystemAudit(o)
      BY <1>1, <1>3, <1>4, <2>2 DEF SystemAudit, BySystem
    <3> QED
      BY <1>1, <2>2, <3>1, StillAccounted
  <2> QED
    BY <2>1, <2>2
<1>12. \A a \in audit' \ audit : BySystem(a)
  BY <1>1, <1>3, <1>9
<1> QED
  BY <1>5, <1>10, <1>11, <1>12, OtherIds DEF RecordStep

LEMMA TimeRecords ==
  ASSUME TypeOK, TimePasses
  PROVE  RecordStep
BY OlderSame, NothingRecorded DEF TimePasses, TypeOK

LEMMA RecordSteps ==
  ASSUME PipelineInv, IdsAreUsed, ReviewsAreAudited, [Next]_vars
  PROVE  RecordStep
<1> USE DEF dbVars
<1>0. StoreInv /\ HandlersHaveEvents /\ ReadsAreCurrent
  BY HaveEvents DEF PipelineInv
<1>1. ASSUME NEW c \in Consumers, ConsumerStep(c) PROVE RecordStep
  <2>1. CASE Apply(c)
    <3>1. cons[c].pc = "apply"
      BY <2>1 DEF Apply, ApplyAs
    <3> QED
      BY <1>0, <2>1, <3>1, ApplyRecords, CurrentIsKnown
  <2>2. CASE FileMalformed(c)
    <3> DEFINE item == Review(MalformedId(committed + 1), Null, "unusable_envelope")
    <3>1. UNCHANGED <<rows, audit, claims>> /\ reviews' = Filed({item}) /\ NextAt(c)
      BY <2>2 DEF FileMalformed
    <3>2. item.id \notin SystemId
      BY <1>0, <3>1, NextMessage, OtherIds DEF Review, StoreInv
    <3> HIDE DEF item
    <3> QED
      BY <3>1, <3>2, NothingRecorded, FiledGrows DEF Filed, Same
  <2>3. CASE ~Apply(c) /\ ~FileMalformed(c)
    BY <1>1, <2>3, NothingRecorded DEF ConsumerStep, StopOnMessage, SkipSeen, StartEvent, ReadRow, ReadView,
         MarkSeen, Push, Commit, Same
  <2> QED
    BY <2>1, <2>2, <2>3
<1>2. CASE Tick
  BY <1>0, <1>2, TimeRecords DEF Tick, StoreInv
<1>3. CASE \/ UNCHANGED vars \/ PollDue \/ ListOrphans
           \/ \E c \in Consumers : Assign(c) \/ CrashConsumer(c) \/ Rebalance(c)
           \/ \E r \in Resolvers : CrashResolver(r) \/ FailResolution(r)
           \/ (\E o \in Orders : LoseQueued(o)) \/ (\E id \in EventIds : ForgetSeen(id))
  <2>1. UNCHANGED <<rows, audit, reviews, claims>>
    BY <1>3 DEF vars, PollDue, ListOrphans, Assign, CrashConsumer, Rebalance, CrashResolver,
         FailResolution, LoseQueued, ForgetSeen
  <2> QED
    BY <2>1, NothingRecorded DEF Same
<1> QED
  BY <1>0, <1>1, <1>2, <1>3, ResolverRecords, SweepRecords DEF Next, SweepStuck

-----------------------------------------------------------------------------
(* What such steps preserve.                                               *)

\* Retries are never given back, and a row is claimed only with a new token.
LEMMA MovedForward ==
  ASSUME TypeOK, NEW o \in Orders, OrderStep(o)
  PROVE  /\ Retries(o) \in Nat /\ Retries(o)' \in Nat /\ Retries(o) <= Retries(o)'
         /\ (claims'[o] = claims[o] /\ Status(o) # "PROCESSING") => Status(o)' # "PROCESSING"
<1>1. claims[o] \in Nat /\ (rows[o] # Null => rows[o].retry \in Nat) /\ Null # "PROCESSING"
  BY NullAssumption DEF TypeOK, Row, ReconStatus
<1> QED
  BY <1>1 DEF OrderStep, Pointer, Same, CreatedAs, CaughtUp, DisputedBy, EndedAs, RetriedAs,
              ClaimedAs, Unclaimed, Retries, Status

\* The system's audit row that is new is the report on the order it names.
LEMMA NewReport ==
  ASSUME TypeOK', RecordStep, NEW a \in audit' \ audit, BySystem(a)
  PROVE  a.order \in Orders /\ claims'[a.order] = claims[a.order] /\ Reported(a.order, a)
<1> DEFINE o == a.order
<1>1. o \in Orders
  BY DEF TypeOK, AuditEntry
<1>2. a \in SystemAudit(o)' /\ a \notin SystemAudit(o)
  BY DEF SystemAudit, BySystem
<1>3. PICK b \in audit' \ audit : claims'[o] = claims[o] /\ Reported(o, b)
  BY <1>1, <1>2 DEF RecordStep, Accounted
<1>4. a = b
  BY <1>2, <1>3 DEF Reported
<1> QED
  BY <1>1, <1>3, <1>4

LEMMA IdsKept ==
  ASSUME TypeOK, TypeOK', IdsAreUsed, RecordStep, \A o \in Orders : OrderStep(o)
  PROVE  IdsAreUsed'
<1> SUFFICES ASSUME NEW a \in audit', BySystem(a)
             PROVE  /\ a.id[2] = a.order
                    /\ IF a.id[1] = "recheck"
                       THEN /\ a.id[3] <= claims'[a.order]
                            /\ a.id[3] = claims'[a.order] => Status(a.order)' # "PROCESSING"
                       ELSE a.id[3] <= Retries(a.order)'
  BY DEF IdsAreUsed, BySystem
<1> DEFINE o == a.order
<1>1. o \in Orders /\ a.id[3] \in Nat
  BY DEF TypeOK, AuditEntry, BySystem, SystemId
<1>2. claims[o] \in Nat /\ claims'[o] \in Nat /\ claims'[o] >= claims[o]
  BY <1>1, Monotone
<1>3. Retries(o) \in Nat /\ Retries(o)' \in Nat /\ Retries(o) <= Retries(o)'
      /\ ((claims'[o] = claims[o] /\ Status(o) # "PROCESSING") => Status(o)' # "PROCESSING")
  BY <1>1, MovedForward
<1>4. CASE a \in audit
  BY <1>1, <1>2, <1>3, <1>4 DEF IdsAreUsed
<1>5. CASE a \notin audit
  <2>1. claims'[o] = claims[o] /\ Reported(o, a)
    BY <1>5, NewReport
  <2>2. Status(o)' # "PROCESSING"
    BY <2>1 DEF Reported, EndedAs, RetriedAs, Unclaimed, Status
  <2>3. CASE a.id = RecheckId(o, claims[o])
    BY <1>1, <1>2, <2>1, <2>2, <2>3, SystemIds
  <2>4. CASE RetriedAs(rows[o], rows'[o]) /\ a.id = SweepId(o, rows[o].retry + 1)
    <3>1. rows[o].retry + 1 \in Nat /\ Retries(o)' = rows[o].retry + 1
      BY <1>1, <2>4 DEF RetriedAs, Unclaimed, Retries, TypeOK, Row
    <3> QED
      BY <1>1, <2>4, <3>1, SystemIds
  <2> QED
    BY <2>1, <2>3, <2>4 DEF Reported
<1> QED
  BY <1>4, <1>5

LEMMA ReviewsKept ==
  ASSUME ReviewsAreAudited, RecordStep, AuditStep
  PROVE  ReviewsAreAudited'
<1>1. \A id : Audited(id) => Audited(id)'
  BY DEF Audited, AuditStep
<1> QED
  BY <1>1 DEF ReviewsAreAudited, RecordStep

LEMMA GivenUpKept ==
  ASSUME GivenUpIsReviewed, RecordStep, AuditStep
  PROVE  GivenUpIsReviewed'
<1>1. ASSUME NEW o \in Orders, Status(o)' = "DEAD_LETTER" PROVE DeadReviewed(o)
  <2>1. rows'[o] # Null /\ rows'[o].status = "DEAD_LETTER"
    BY <1>1, NullAssumption DEF Status, ReconStatus, TerminalStatuses
  <2>2. Accounted(o)
    BY DEF RecordStep
  <2>3. CASE Same(rows[o], rows'[o])
    <3>1. Status(o) = "DEAD_LETTER"
      BY <2>1, <2>3 DEF Same, Status
    <3> QED
      BY <3>1 DEF GivenUpIsReviewed, RecordStep, DeadReviewed
  <2>4. ASSUME NEW a, Reported(o, a) PROVE DeadReviewed(o)
    BY <2>1, <2>4 DEF Reported, EndedAs, Unclaimed
  <2> QED
    BY <2>1, <2>2, <2>3, <2>4 DEF Accounted, CreatedAs, CaughtUp, DisputedBy, ClaimedAs, Unclaimed
<1>2. ASSUME NEW a \in audit', a.decision = "FLAG_FOR_REVIEW", ~BySystem(a)
      PROVE  \E v \in reviews' : v.id = a.id
  BY <1>2 DEF GivenUpIsReviewed, RecordStep
<1> QED
  BY <1>1, <1>2 DEF GivenUpIsReviewed, DeadReviewed, BySystem

LEMMA PointerKept ==
  ASSUME PointerDerivedFromAudit, RecordStep, AuditStep
  PROVE  PointerDerivedFromAudit'
<1> SUFFICES ASSUME NEW o \in Orders, Status(o)' \notin {Null, "PROCESSING"}
             PROVE  \E a \in audit' : a.order = o /\ a.new = Status(o)'
  BY DEF PointerDerivedFromAudit
<1>1. rows'[o] # Null /\ Status(o)' = rows'[o].status /\ Accounted(o)
  BY DEF Status, RecordStep
<1>2. CASE Same(rows[o], rows'[o])
  <2>1. Status(o) = Status(o)'
    BY <1>1, <1>2 DEF Same, Status
  <2> QED
    BY <2>1 DEF PointerDerivedFromAudit, AuditStep
<1>3. CASE OnRecord(o)
  BY <1>1, <1>3 DEF OnRecord
<1>4. ASSUME NEW a \in audit', Reported(o, a)
      PROVE  a.order = o /\ a.new = rows'[o].status
  BY <1>4 DEF Reported
<1> QED
  BY <1>1, <1>2, <1>3, <1>4 DEF Accounted, ClaimedAs

RetriesIn(S) == {a \in S : a.new \in {"PENDING_RECHECK", "DEAD_LETTER"}}

\* Counting one more audit row, apart by whether it was a retry.
LEMMA OneMoreCounted ==
  ASSUME NEW S, IsFiniteSet(S), NEW a, a \notin S
  PROVE  /\ IsFiniteSet(S \cup {a})
         /\ Cardinality(RetriesIn(S)) \in Nat /\ Cardinality(S \ RetriesIn(S)) \in Nat
         /\ IF a.new \in {"PENDING_RECHECK", "DEAD_LETTER"}
            THEN /\ Cardinality(RetriesIn(S \cup {a})) = Cardinality(RetriesIn(S)) + 1
                 /\ (S \cup {a}) \ RetriesIn(S \cup {a}) = S \ RetriesIn(S)
            ELSE /\ RetriesIn(S \cup {a}) = RetriesIn(S)
                 /\ Cardinality((S \cup {a}) \ RetriesIn(S \cup {a})) = Cardinality(S \ RetriesIn(S)) + 1
<1>1. IsFiniteSet(S \cup {a})
  BY FS_AddElement
<1>2. IsFiniteSet(RetriesIn(S)) /\ IsFiniteSet(S \ RetriesIn(S))
  BY FS_Subset DEF RetriesIn
<1>3. Cardinality(RetriesIn(S)) \in Nat /\ Cardinality(S \ RetriesIn(S)) \in Nat
  BY <1>2, FS_CardinalityType
<1>4. CASE a.new \in {"PENDING_RECHECK", "DEAD_LETTER"}
  <2>1. /\ RetriesIn(S \cup {a}) = RetriesIn(S) \cup {a} /\ a \notin RetriesIn(S)
        /\ (S \cup {a}) \ RetriesIn(S \cup {a}) = S \ RetriesIn(S)
    BY <1>4 DEF RetriesIn
  <2>2. Cardinality(RetriesIn(S) \cup {a}) = Cardinality(RetriesIn(S)) + 1
    BY <1>2, <2>1, FS_AddElement
  <2> QED
    BY <1>1, <1>3, <1>4, <2>1, <2>2
<1>5. CASE a.new \notin {"PENDING_RECHECK", "DEAD_LETTER"}
  <2>1. /\ RetriesIn(S \cup {a}) = RetriesIn(S) /\ a \notin S \ RetriesIn(S)
        /\ (S \cup {a}) \ RetriesIn(S \cup {a}) = (S \ RetriesIn(S)) \cup {a}
    BY <1>5 DEF RetriesIn
  <2>2. Cardinality((S \ RetriesIn(S)) \cup {a}) = Cardinality(S \ RetriesIn(S)) + 1
    BY <1>2, <2>1, FS_AddElement
  <2> QED
    BY <1>1, <1>3, <1>5, <2>1, <2>2
<1> QED
  BY <1>4, <1>5

LEMMA CountKept ==
  ASSUME TypeOK, \A o \in Orders : IsFiniteSet(SystemAudit(o)), ClaimsAccounted, RecordStep
  PROVE  (\A o \in Orders : IsFiniteSet(SystemAudit(o))') /\ ClaimsAccounted'
<1> DEFINE held(s) == IF s = "PROCESSING" THEN 1 ELSE 0
           Balance(S, n, k, s) ==
             /\ Cardinality(RetriesIn(S)) = n
             /\ k = Cardinality(RetriesIn(S)) + Cardinality(S \ RetriesIn(S)) + held(s)
<1>1. \A o \in Orders : Balance(SystemAudit(o), Retries(o), claims[o], Status(o))
  BY DEF ClaimsAccounted, RetriesIn
<1>2. ASSUME NEW o \in Orders
      PROVE  IsFiniteSet(SystemAudit(o)') /\ Balance(SystemAudit(o)', Retries(o)', claims'[o], Status(o)')
  <2> DEFINE S == SystemAudit(o)
             T == SystemAudit(o)'
  <2>1. Accounted(o) /\ IsFiniteSet(S) /\ Balance(S, Retries(o), claims[o], Status(o))
    BY <1>1 DEF RecordStep
  <2>2. CASE T = S
    <3>1. CASE Same(rows[o], rows'[o]) /\ claims'[o] = claims[o]
      <4>1. Retries(o)' = Retries(o) /\ Status(o)' = Status(o)
        BY <3>1 DEF Same, Retries, Status
      <4> QED
        BY <2>1, <2>2, <3>1, <4>1
    <3>2. CASE /\ claims'[o] = claims[o]
               /\ CreatedAs(rows[o], rows'[o]) \/ CaughtUp(rows[o], rows'[o]) \/ DisputedBy(rows[o], rows'[o])
      <4>1. Retries(o)' = Retries(o) /\ Status(o)' # "PROCESSING" /\ Status(o) # "PROCESSING"
        BY <3>2, NullAssumption DEF CreatedAs, CaughtUp, DisputedBy, Unclaimed, Retries, Status, ReconStatus
      <4>2. held(Status(o)) = held(Status(o)')
        BY <4>1
      <4> HIDE DEF held
      <4> QED
        BY <2>1, <2>2, <3>2, <4>1, <4>2
    <3>3. CASE ClaimedAs(rows[o], rows'[o], claims'[o]) /\ claims'[o] = claims[o] + 1
      <4>1. Retries(o)' = Retries(o) /\ Status(o)' = "PROCESSING" /\ Status(o) = "PENDING_RECHECK"
        BY <3>3 DEF ClaimedAs, Retries, Status
      <4>2. held(Status(o)) = 0 /\ held(Status(o)') = 1
        BY <4>1
      <4>3. IsFiniteSet(RetriesIn(S)) /\ IsFiniteSet(S \ RetriesIn(S))
        BY <2>1, FS_Subset DEF RetriesIn
      <4>4. Cardinality(RetriesIn(S)) \in Nat /\ Cardinality(S \ RetriesIn(S)) \in Nat
        BY <4>3, FS_CardinalityType
      <4> HIDE DEF held
      <4> QED
        BY <2>1, <2>2, <3>3, <4>1, <4>2, <4>4
    <3>4. ASSUME NEW a \in audit' \ audit, Reported(o, a) PROVE FALSE
      BY <2>2, <3>4 DEF Reported, SystemAudit
    <3> QED
      BY <2>1, <3>1, <3>2, <3>3, <3>4 DEF Accounted
  <2>3. CASE T # S
    <3>1. PICK a \in audit' \ audit : Reported(o, a) /\ claims'[o] = claims[o]
      BY <2>1, <2>3 DEF Accounted
    <3>2. T = S \cup {a} /\ a \notin S
      BY <3>1 DEF Reported, SystemAudit
    <3>3. /\ IsFiniteSet(T)
          /\ Cardinality(RetriesIn(S)) \in Nat /\ Cardinality(S \ RetriesIn(S)) \in Nat
          /\ Cardinality(RetriesIn(T)) = Cardinality(RetriesIn(S))
               + (IF a.new \in {"PENDING_RECHECK", "DEAD_LETTER"} THEN 1 ELSE 0)
          /\ Cardinality(T \ RetriesIn(T)) = Cardinality(S \ RetriesIn(S))
               + (IF a.new \in {"PENDING_RECHECK", "DEAD_LETTER"} THEN 0 ELSE 1)
      <4> HIDE DEF S, T
      <4>1. IsFiniteSet(S)
        BY <2>1 DEF S
      <4> DEFINE U == S \cup {a}
      <4>2. /\ IsFiniteSet(U)
            /\ Cardinality(RetriesIn(S)) \in Nat /\ Cardinality(S \ RetriesIn(S)) \in Nat
            /\ IF a.new \in {"PENDING_RECHECK", "DEAD_LETTER"}
               THEN /\ Cardinality(RetriesIn(U)) = Cardinality(RetriesIn(S)) + 1
                    /\ U \ RetriesIn(U) = S \ RetriesIn(S)
               ELSE /\ RetriesIn(U) = RetriesIn(S)
                    /\ Cardinality(U \ RetriesIn(U)) = Cardinality(S \ RetriesIn(S)) + 1
        BY <3>2, <4>1, OneMoreCounted, Zenon
      <4>3. T = U
        BY <3>2
      <4> HIDE DEF U
      <4> QED
        BY <4>2, <4>3
    <3>4. Status(o) = "PROCESSING" /\ Status(o)' # "PROCESSING"
      BY <3>1 DEF Reported, EndedAs, RetriedAs, Unclaimed, Status
    <3>5. held(Status(o)) = 1 /\ held(Status(o)') = 0
      BY <3>4
    <3>6. Retries(o)' = Retries(o) + (IF a.new \in {"PENDING_RECHECK", "DEAD_LETTER"} THEN 1 ELSE 0)
      <4>1. Retries(o) \in Nat
        BY PipelineAssumption DEF Retries, TypeOK, Row
      <4> QED
        BY <3>1, <4>1 DEF Reported, EndedAs, RetriedAs, Unclaimed, Retries
    <3> HIDE DEF held, S, T
    <3> QED
      BY <2>1, <3>1, <3>3, <3>5, <3>6 DEF S, T
  <2> QED
    BY <2>2, <2>3
<1>3. ClaimsAccounted'
  BY <1>2 DEF ClaimsAccounted, RetriesIn
<1> QED
  BY <1>2, <1>3

-----------------------------------------------------------------------------
(* Deadlines.                                                              *)

\* An armed or claimed row has a deadline, or the lack of one is nothing new;
\* one that stays armed keeps its deadline or gets an earlier one.
DeadlineStep(r, q) ==
  /\ (q # Null /\ q.status \in {"PENDING_RECHECK", "PROCESSING"}) =>
       \/ q.recheck # Null
       \/ r # Null /\ r.status \in {"PENDING_RECHECK", "PROCESSING"} /\ q.recheck = r.recheck
  /\ (/\ r # Null /\ r.status = "PENDING_RECHECK" /\ r.recheck # Null
      /\ q # Null /\ q.status = "PENDING_RECHECK") => q.recheck <= r.recheck

LEMMA DeadlineStays ==
  ASSUME NEW r \in Row \cup {Null}
  PROVE  DeadlineStep(r, r)
<1>1. r # Null /\ r.recheck # Null => r.recheck \in Int
  BY TimeLeftType DEF Row
<1> QED
  BY <1>1 DEF DeadlineStep

\* The pointer statements: an arm keeps the earlier deadline, the other two
\* leave the row neither armed nor claimed.
LEMMA PointerDeadline ==
  ASSUME NEW r \in Row \cup {Null}, NEW h, h.left \in TimeLeft, NEW d, PointerMoves(d, r, h)
  PROVE  DeadlineStep(r, NewPointer(d, r, h))
<1>1. CASE d.action = "ARM_RECHECK"
  <2>1. NewPointer(d, r, h) = Armed(r, h.left)
    BY <1>1 DEF NewPointer
  <2>2. CASE r = Null
    <3>1. Armed(r, h.left).recheck = h.left
      BY <2>2 DEF Armed
    <3> QED
      BY <2>1, <2>2, <3>1, TimeLeftType DEF DeadlineStep
  <2>3. CASE r # Null
    <3>1. r.recheck \in TimeLeft \cup {Null}
      BY <2>3 DEF Row
    <3>2. Armed(r, h.left).recheck = Least(r.recheck, h.left)
      BY <2>3 DEF Armed, Row
    <3>3. Least(r.recheck, h.left) \in TimeLeft
          /\ (r.recheck # Null => Least(r.recheck, h.left) <= r.recheck)
      <4>1. h.left \in Int /\ (r.recheck # Null => r.recheck \in Int)
        BY <3>1, TimeLeftType
      <4>2. Least(r.recheck, h.left) \in TimeLeft
        BY <3>1, LeastType
      <4> QED
        BY <4>1, <4>2 DEF Least
    <3> QED
      BY <2>1, <3>2, <3>3, TimeLeftType DEF DeadlineStep
  <2> QED
    BY <2>2, <2>3
<1>2. CASE d.action = "ROUTE_DISPUTED"
  <2>1. NewPointer(d, r, h).status = "DISPUTED"
    BY <1>2 DEF NewPointer, Disputed, Row
  <2> QED
    BY <2>1 DEF DeadlineStep
<1>3. CASE d.action \notin {"ARM_RECHECK", "ROUTE_DISPUTED"}
  <2>1. CanResolve(r)
    BY <1>3 DEF PointerMoves
  <2>2. NewPointer(d, r, h).status = "RESOLVED_NATURALLY"
    BY <1>3, <2>1 DEF NewPointer, CanResolve, ResolvedNaturally, Row
  <2> QED
    BY <2>2 DEF DeadlineStep
<1> QED
  BY <1>1, <1>2, <1>3

\* The statements on a claimed row, and the claim itself.
LEMMA ClaimDeadline ==
  ASSUME NEW r \in Row, NEW left \in TimeLeft, NEW t
  PROVE  /\ \A s \in TerminalStatuses : DeadlineStep(r, Completed(r, s))
         /\ r.status = "PROCESSING" => DeadlineStep(r, Rearmed(r, left)) /\ DeadlineStep(r, Reclaimed(r))
         /\ r.status = "PENDING_RECHECK" =>
              DeadlineStep(r, [r EXCEPT !.status = "PROCESSING", !.token = t, !.age = 0])
<1>1. r # Null
  BY NullColumnAssumption
<1>2. ASSUME NEW s \in TerminalStatuses PROVE DeadlineStep(r, Completed(r, s))
  <2>1. Completed(r, s).status = s
    BY DEF Completed, Row
  <2> QED
    BY <2>1, StatusType DEF DeadlineStep
<1>3. ASSUME r.status = "PROCESSING" PROVE DeadlineStep(r, Rearmed(r, left)) /\ DeadlineStep(r, Reclaimed(r))
  <2>1. Rearmed(r, left).recheck = left \/ Rearmed(r, left).status = "DEAD_LETTER"
    BY DEF Rearmed, Row
  <2>2. Reclaimed(r).recheck = r.recheck
    BY DEF Reclaimed, Row
  <2> QED
    BY <1>1, <1>3, <2>1, <2>2, TimeLeftType DEF DeadlineStep
<1>4. ASSUME r.status = "PENDING_RECHECK"
      PROVE  DeadlineStep(r, [r EXCEPT !.status = "PROCESSING", !.token = t, !.age = 0])
  <2> DEFINE q == [r EXCEPT !.status = "PROCESSING", !.token = t, !.age = 0]
  <2>1. q.recheck = r.recheck /\ q.status = "PROCESSING"
    BY DEF Row
  <2> HIDE DEF q
  <2>2. DeadlineStep(r, q)
    BY <1>1, <1>4, <2>1 DEF DeadlineStep
  <2> QED
    BY <2>2 DEF q
<1> QED
  BY <1>2, <1>3, <1>4

LEMMA OlderDeadline ==
  ASSUME NEW r \in Row \cup {Null}
  PROVE  DeadlineStep(r, Older(r))
<1>1. CASE r = Null
  BY <1>1 DEF DeadlineStep, Older
<1>2. CASE r # Null
  <2>1. Older(r).recheck = Sooner(r.recheck) /\ Older(r).status = r.status
    BY <1>2 DEF Older, Row
  <2>2. r.recheck # Null => Sooner(r.recheck) \in TimeLeft /\ Sooner(r.recheck) <= r.recheck
    <3>1. r.recheck # Null => r.recheck \in TimeLeft /\ r.recheck \in Int
      BY <1>2, TimeLeftType DEF Row
    <3> QED
      BY <3>1, TimeLeftType DEF Sooner
  <2>3. r.recheck = Null => Sooner(r.recheck) = Null
    BY TimeLeftType
  <2> QED
    BY <1>2, <2>1, <2>2, <2>3, TimeLeftType DEF DeadlineStep
<1> QED
  BY <1>1, <1>2

\* One order's row is written, the others stay.
LEMMA OneDeadline ==
  ASSUME TypeOK, NEW o \in Orders, NEW q, rows' = [rows EXCEPT ![o] = q], DeadlineStep(rows[o], q)
  PROVE  \A x \in Orders : DeadlineStep(rows[x], rows'[x])
<1> SUFFICES ASSUME NEW x \in Orders PROVE DeadlineStep(rows[x], rows'[x])
  OBVIOUS
<1>1. CASE x = o
  BY <1>1 DEF TypeOK
<1>2. CASE x # o
  BY <1>2, DeadlineStays DEF TypeOK
<1> QED
  BY <1>1, <1>2

LEMMA NoDeadline ==
  ASSUME TypeOK, UNCHANGED rows
  PROVE  \A o \in Orders : DeadlineStep(rows[o], rows'[o])
BY DeadlineStays DEF TypeOK

LEMMA ApplyDeadlines ==
  ASSUME TypeOK, HandlersHaveEvents, NEW c \in Consumers, Apply(c)
  PROVE  \A o \in Orders : DeadlineStep(rows[o], rows'[o])
<1> USE DEF dbVars
<1> DEFINE h     == cons[c]
           o     == OrderAt(c)
           d     == Evaluate(log[h.at], h.view, h.status, FALSE).decision
           moves == PointerMoves(d, rows[o], h)
           q     == NewPointer(d, rows[o], h)
<1>1. o \in Orders /\ h.left \in TimeLeft /\ rows[o] \in Row \cup {Null}
  BY EventAt, HandlerType DEF Apply, ApplyAs, Overtaken, TypeOK
<1>2. UNCHANGED rows \/ (moves /\ rows' = [rows EXCEPT ![o] = q])
  <2>1. CASE Replay(IdAt(c))
    BY <2>1, Zenon DEF Apply, ApplyAs, Overtaken, IdAt
  <2>2. CASE ~Replay(IdAt(c))
    <3>1. rows' = IF moves THEN [rows EXCEPT ![o] = NewPointer(d, @, h)] ELSE rows
      BY <2>2, Zenon DEF Apply, ApplyAs, Overtaken, IdAt, OrderAt
    <3> HIDE DEF moves, d, o, h
    <3> QED
      BY <3>1
  <2> QED
    BY <2>1, <2>2
<1>3. moves => DeadlineStep(rows[o], q)
  BY <1>1, PointerDeadline
<1> HIDE DEF moves, d, o, h, q
<1> QED
  BY <1>1, <1>2, <1>3, NoDeadline, OneDeadline

LEMMA ResolverDeadlines ==
  ASSUME TypeOK, RetryBudget, ResolversOnOrders, NEW r \in Resolvers, ResolveStep(r)
  PROVE  \A o \in Orders : DeadlineStep(rows[o], rows'[o])
<1> USE DEF dbVars
<1>1. ASSUME NEW o \in Orders, Claim(r, o)
      PROVE  \A x \in Orders : DeadlineStep(rows[x], rows'[x])
  <2>1. CASE ~CanClaim(rows[o])
    BY <1>1, <2>1, NoDeadline DEF Claim
  <2>2. CASE CanClaim(rows[o])
    <3> DEFINE q == [rows[o] EXCEPT !.status = "PROCESSING", !.token = claims[o] + 1, !.age = 0]
    <3>1. rows' = [rows EXCEPT ![o] = q]
      BY <1>1, <2>2 DEF Claim
    <3>2. rows[o] \in Row /\ rows[o].status = "PENDING_RECHECK"
      BY <2>2 DEF CanClaim, TypeOK
    <3>3. DeadlineStep(rows[o], q)
      BY <3>2, ClaimDeadline, TimeLeftType
    <3> HIDE DEF q
    <3> QED
      BY <3>1, <3>3, OneDeadline
  <2> QED
    BY <2>1, <2>2
<1>2. CASE ReadOrder(r) \/ FinishStolen(r) \/ Requeue(r) \/ Drop(r)
  BY <1>2, NoDeadline DEF ReadOrder, FinishStolen, Requeue, Drop
<1> DEFINE o == res[r].order
           d == EvaluateRecheck(RecheckId(o, res[r].token), o, res[r].view).decision
<1>3. ASSUME res[r].pc = "finish", Holds(rows[o], res[r].token)
      PROVE  o \in Orders /\ rows[o] \in Row /\ rows[o].status = "PROCESSING"
  BY <1>3, HeldRow DEF Holds, ResolversOnOrders, ResolverOnOrder
<1>4. CASE FinishResolved(r)
  <2> DEFINE q == Completed(rows[o], d.new)
  <2>1. d.new \in TerminalStatuses
    BY <1>4, RecheckFacts DEF FinishResolved, TerminalStatuses
  <2>2. rows' = [rows EXCEPT ![o] = Completed(@, d.new)]
        /\ res[r].pc = "finish" /\ Holds(rows[o], res[r].token)
    BY <1>4, Zenon DEF FinishResolved
  <2>3. DeadlineStep(rows[o], q)
    BY <1>3, <2>1, <2>2, ClaimDeadline, TimeLeftType
  <2>4. rows' = [rows EXCEPT ![o] = q]
    BY <2>2
  <2> HIDE DEF q, d, o
  <2> QED
    BY <1>3, <2>2, <2>3, <2>4, OneDeadline
<1>5. CASE FinishUnresolved(r)
  <2> DEFINE left == IF d.rearm THEN res[r].left ELSE RecheckDelay
             q    == Rearmed(rows[o], left)
  <2>1. left \in TimeLeft
    BY ResolutionType, TimeLeftType
  <2>2. rows' = [rows EXCEPT ![o] = Rearmed(@, left)]
        /\ res[r].pc = "finish" /\ Holds(rows[o], res[r].token)
    BY <1>5, Zenon DEF FinishUnresolved
  <2>3. DeadlineStep(rows[o], q)
    BY <1>3, <2>1, <2>2, ClaimDeadline
  <2>4. rows' = [rows EXCEPT ![o] = q]
    BY <2>2
  <2> HIDE DEF q, left, d, o
  <2> QED
    BY <1>3, <2>2, <2>3, <2>4, OneDeadline
<1> QED
  BY <1>1, <1>2, <1>4, <1>5 DEF ResolveStep

LEMMA SweepDeadlines ==
  ASSUME TypeOK, RetryBudget, ReclaimStuck
  PROVE  \A o \in Orders : DeadlineStep(rows[o], rows'[o])
<1> SUFFICES ASSUME NEW o \in Orders PROVE DeadlineStep(rows[o], rows'[o])
  OBVIOUS
<1>1. rows'[o] = IF Stuck(rows[o]) THEN Reclaimed(rows[o]) ELSE rows[o]
  BY DEF ReclaimStuck
<1>2. CASE Stuck(rows[o])
  <2>1. rows[o] \in Row /\ rows[o].status = "PROCESSING"
    BY <1>2, HeldRow DEF Stuck
  <2> QED
    BY <1>1, <1>2, <2>1, ClaimDeadline, TimeLeftType
<1>3. CASE ~Stuck(rows[o])
  BY <1>1, <1>3, DeadlineStays DEF TypeOK
<1> QED
  BY <1>2, <1>3

LEMMA TimeDeadlines ==
  ASSUME TypeOK, TimePasses
  PROVE  \A o \in Orders : DeadlineStep(rows[o], rows'[o])
BY OlderDeadline DEF TimePasses, TypeOK

LEMMA DeadlineSteps ==
  ASSUME PipelineInv, [Next]_vars
  PROVE  \A o \in Orders : DeadlineStep(rows[o], rows'[o])
<1> USE DEF dbVars
<1>1. TypeOK /\ RetryBudget /\ ResolversOnOrders /\ HandlersHaveEvents
  BY HaveEvents DEF PipelineInv, StoreInv
<1>2. ASSUME NEW c \in Consumers,
             \/ ConsumerStep(c) /\ ~Apply(c)
             \/ Assign(c) \/ CrashConsumer(c) \/ Rebalance(c)
      PROVE  UNCHANGED rows
  BY <1>2 DEF ConsumerStep, FileMalformed, StopOnMessage, SkipSeen, StartEvent, ReadRow, ReadView, MarkSeen,
       Push, Commit, Assign, CrashConsumer, Rebalance
<1>3. CASE \/ UNCHANGED vars \/ PollDue \/ ListOrphans
           \/ \E r \in Resolvers : CrashResolver(r) \/ FailResolution(r)
           \/ (\E o \in Orders : LoseQueued(o)) \/ (\E id \in EventIds : ForgetSeen(id))
  <2>1. UNCHANGED rows
    BY <1>3 DEF vars, PollDue, ListOrphans, CrashResolver, FailResolution, LoseQueued, ForgetSeen
  <2> QED
    BY <1>1, <2>1, NoDeadline
<1> QED
  BY <1>1, <1>2, <1>3, NoDeadline, ApplyDeadlines, ResolverDeadlines, SweepDeadlines, TimeDeadlines
     DEF Next, SweepStuck, Tick

LEMMA DeadlineStaysKept ==
  ASSUME DeadlineKept, \A o \in Orders : DeadlineStep(rows[o], rows'[o])
  PROVE  DeadlineKept'
<1> SUFFICES ASSUME NEW o \in Orders, Status(o)' \in {"PENDING_RECHECK", "PROCESSING"}
             PROVE  rows'[o].recheck # Null
  BY DEF DeadlineKept
<1>1. rows'[o] # Null /\ rows'[o].status \in {"PENDING_RECHECK", "PROCESSING"}
  BY NullAssumption DEF Status, ReconStatus
<1> QED
  BY <1>1 DEF DeadlineStep, DeadlineKept, Status

-----------------------------------------------------------------------------
(* The theorems.                                                           *)

LEMMA InitRecords ==
  ASSUME Init
  PROVE  RecordInv
<1>1. audit = {} /\ reviews = {} /\ \A o \in Orders : rows[o] = Null /\ claims[o] = 0
  BY DEF Init
<1>2. \A o \in Orders : Status(o) = Null /\ Retries(o) = 0 /\ SystemAudit(o) = {}
  BY <1>1 DEF Status, Retries, SystemAudit
<1>3. Null \notin {"PENDING_RECHECK", "PROCESSING", "DEAD_LETTER"}
  BY NullAssumption DEF ReconStatus, TerminalStatuses
<1>4. IsFiniteSet({}) /\ Cardinality({}) = 0
  BY FS_EmptySet
<1>5. IdsAreUsed /\ ReviewsAreAudited /\ DeadlineKept /\ GivenUpIsReviewed /\ PointerDerivedFromAudit
  BY <1>1, <1>2, <1>3 DEF IdsAreUsed, ReviewsAreAudited, DeadlineKept, GivenUpIsReviewed,
                          PointerDerivedFromAudit
<1>6. ClaimsAccounted
  <2> SUFFICES ASSUME NEW o \in Orders
               PROVE  /\ Cardinality(RetriesIn(SystemAudit(o))) = Retries(o)
                      /\ claims[o] = Cardinality(RetriesIn(SystemAudit(o)))
                           + Cardinality(SystemAudit(o) \ RetriesIn(SystemAudit(o)))
                           + (IF Status(o) = "PROCESSING" THEN 1 ELSE 0)
    BY DEF ClaimsAccounted, RetriesIn
  <2>1. RetriesIn(SystemAudit(o)) = {} /\ SystemAudit(o) \ RetriesIn(SystemAudit(o)) = {}
    BY <1>2 DEF RetriesIn
  <2>2. 0 = 0 + 0 + (IF Status(o) = "PROCESSING" THEN 1 ELSE 0)
    BY <1>2, <1>3
  <2> QED
    BY <1>1, <1>2, <1>4, <2>1, <2>2
<1> QED
  BY <1>2, <1>4, <1>5, <1>6 DEF RecordInv

\* What every such step preserves.
LEMMA RecordsKept ==
  ASSUME TypeOK, TypeOK', RecordInv, RecordStep, AuditStep, \A o \in Orders : OrderStep(o),
         \A o \in Orders : DeadlineStep(rows[o], rows'[o])
  PROVE  RecordInv'
<1> USE DEF RecordInv
<1>1. IdsAreUsed'
  BY IdsKept
<1>2. ReviewsAreAudited' /\ GivenUpIsReviewed' /\ PointerDerivedFromAudit'
  BY ReviewsKept, GivenUpKept, PointerKept
<1>3. DeadlineKept'
  BY DeadlineStaysKept
<1>4. (\A o \in Orders : IsFiniteSet(SystemAudit(o))') /\ ClaimsAccounted'
  BY CountKept
<1> QED
  BY <1>1, <1>2, <1>3, <1>4

LEMMA NextRecords ==
  ASSUME PipelineInv, RecordInv, [Next]_vars
  PROVE  RecordInv'
<1>1. TypeOK /\ TypeOK' /\ AuditStep /\ \A o \in Orders : OrderStep(o)
  BY NextInv DEF PipelineInv, StoreInv
<1>2. RecordStep
  BY RecordSteps DEF RecordInv
<1> QED
  BY <1>1, <1>2, DeadlineSteps, RecordsKept

LEMMA PulledIn ==
  ASSUME RecordInv, \A o \in Orders : DeadlineStep(rows[o], rows'[o]), NEW o \in Orders,
         Status(o) = "PENDING_RECHECK", Status(o)' = "PENDING_RECHECK"
  PROVE  rows'[o].recheck <= rows[o].recheck
<1>1. /\ rows[o] # Null /\ rows[o].status = "PENDING_RECHECK"
      /\ rows'[o] # Null /\ rows'[o].status = "PENDING_RECHECK"
  BY NullAssumption DEF Status, ReconStatus
<1>2. rows[o].recheck # Null
  BY DEF RecordInv, DeadlineKept
<1> QED
  BY <1>1, <1>2 DEF DeadlineStep

\* The audit log, the review queue and the deadlines always agree with the
\* pointers, next to the invariant of the pointers themselves.
THEOREM RecordInvariance == Spec => [](PipelineInv /\ RecordInv)
<1>1. Init => RecordInv
  BY InitRecords
<1>2. PipelineInv /\ RecordInv /\ [Next]_vars => RecordInv'
  BY NextRecords
<1> QED
  BY <1>1, <1>2, Invariance, PTL DEF Spec

\* Every claim resolved its order, or cost a retry with an audit row of its own,
\* or is the one now held: none is taken for free and no report is swallowed.
THEOREM EveryClaimAccounted == Spec => []ClaimsAccounted
<1>1. RecordInv => ClaimsAccounted
  BY DEF RecordInv
<1> QED
  BY <1>1, RecordInvariance, PTL

\* A person is told of every order the worker gave up and of every event a
\* consumer flagged.
THEOREM EveryGiveUpReviewed == Spec => []GivenUpIsReviewed
<1>1. RecordInv => GivenUpIsReviewed
  BY DEF RecordInv
<1> QED
  BY <1>1, RecordInvariance, PTL

\* The status of an unclaimed row is one the audit log moved the order to.
THEOREM PointersDerived == Spec => []PointerDerivedFromAudit
<1>1. RecordInv => PointerDerivedFromAudit
  BY DEF RecordInv
<1> QED
  BY <1>1, RecordInvariance, PTL

\* An armed order has a deadline, so the sweep finds it without Redis; it keeps
\* one while it is claimed, for a reclaim to go back to.
THEOREM ArmedSweepable == Spec => []ArmedIsSweepable
<1>1. RecordInv => ArmedIsSweepable
  BY DEF RecordInv, DeadlineKept, ArmedIsSweepable
<1> QED
  BY <1>1, RecordInvariance, PTL

\* No step, of a consumer or of time, pushes an armed deadline out.
THEOREM DeadlinesPulledIn == Spec => DeadlineOnlyPulledIn
<1>1. PipelineInv /\ RecordInv /\ [Next]_vars =>
        [\A o \in Orders :
           (Status(o) = "PENDING_RECHECK" /\ Status(o)' = "PENDING_RECHECK")
             => rows[o]'.recheck <= rows[o].recheck]_vars
  BY DeadlineSteps, PulledIn
<1> QED
  BY <1>1, RecordInvariance, PTL DEF Spec, DeadlineOnlyPulledIn
=============================================================================
