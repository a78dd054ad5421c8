--------------------------- MODULE PipelineProofs ---------------------------
(***************************************************************************)
(* What the reconciliation pipeline guarantees for any orders, consumers   *)
(* and messages, any delays and any number of faults.                      *)
(*                                                                         *)
(* The argument is by order: OrderStep lists the ways one order's pointer  *)
(* can move in a step of the pipeline, and every step of the pipeline is   *)
(* shown to move every order in one of them.  The invariants about the     *)
(* pointers, the terminal lock and the refinement of OrderLifecycle follow *)
(* from that alone.                                                        *)
(***************************************************************************)
EXTENDS PipelineTypes

-----------------------------------------------------------------------------
(* How one order's pointer can move.                                       *)

Same(r, q) ==
  /\ r = Null <=> q = Null
  /\ r # Null => q.status = r.status /\ q.retry = r.retry /\ q.token = r.token

Unclaimed(q, status, retry) ==
  q # Null /\ q.status = status /\ q.retry = retry /\ q.token = Null

\* r, k: the row and its claims before; q, n: after.
CreatedAs(r, q) == r = Null /\ \E s \in {"PENDING_RECHECK", "DISPUTED"} : Unclaimed(q, s, 0)
CaughtUp(r, q)  == r # Null /\ r.status = "PENDING_RECHECK" /\ Unclaimed(q, "RESOLVED_NATURALLY", r.retry)
DisputedBy(r, q) == r # Null /\ r.status # "PROCESSING" /\ Unclaimed(q, "DISPUTED", r.retry)
EndedAs(r, q) ==
  /\ r # Null /\ r.status = "PROCESSING"
  /\ \E s \in {"RESOLVED_AUTOCORRECTED", "RESOLVED_NATURALLY", "DISPUTED"} : Unclaimed(q, s, r.retry)
RetriedAs(r, q) ==
  /\ r # Null /\ r.status = "PROCESSING"
  /\ Unclaimed(q, IF r.retry + 1 >= MaxRetries THEN "DEAD_LETTER" ELSE "PENDING_RECHECK", r.retry + 1)
ClaimedAs(r, q, n) ==
  /\ r # Null /\ r.status = "PENDING_RECHECK"
  /\ q # Null /\ q.status = "PROCESSING" /\ q.retry = r.retry /\ q.token = n

Pointer(r, k, q, n) ==
  \/ n = k /\ Same(r, q)
  \/ n = k /\ (CreatedAs(r, q) \/ CaughtUp(r, q) \/ DisputedBy(r, q) \/ EndedAs(r, q) \/ RetriedAs(r, q))
  \/ n = k + 1 /\ ClaimedAs(r, q, n)

OrderStep(o) == Pointer(rows[o], claims[o], rows'[o], claims'[o])

LEMMA NothingMoves ==
  ASSUME UNCHANGED <<rows, claims>>
  PROVE  \A o \in Orders : OrderStep(o)
BY DEF OrderStep, Pointer, Same

\* One order moves, the others stay.
LEMMA OneMoves ==
  ASSUME TypeOK, NEW o \in Orders, NEW q, NEW n,
         rows' = [rows EXCEPT ![o] = q], claims' = [claims EXCEPT ![o] = n],
         Pointer(rows[o], claims[o], q, n)
  PROVE  \A x \in Orders : OrderStep(x)
<1> SUFFICES ASSUME NEW x \in Orders PROVE OrderStep(x)
  OBVIOUS
<1>1. CASE x = o
  BY <1>1 DEF OrderStep, TypeOK
<1>2. CASE x # o
  BY <1>2 DEF OrderStep, TypeOK, Pointer, Same
<1> QED
  BY <1>1, <1>2

\* decide() never arms a terminal order.
LEMMA ArmIsFresh ==
  ASSUME NEW e, NEW v, NEW status, NEW b,
         Evaluate(e, v, status, b).decision.action = "ARM_RECHECK"
  PROVE  status \notin TerminalStatuses
<1>1. Quiet("LOCKED_REPLAY_IGNORED").action # "ARM_RECHECK" /\ Dispute.action # "ARM_RECHECK"
  BY DEF Quiet, Dispute, Move
<1> QED
  BY <1>1, TerminalRowsAreLocked

\* The row is as the consumer read it, or the consumer was told otherwise.
RowKnown(c) ==
  IF cons[c].status = Null THEN rows[OrderAt(c)] = Null
  ELSE cons[c].moved \/ (rows[OrderAt(c)] # Null /\ cons[c].status = rows[OrderAt(c)].status)

\* What consumer c is about to decide.
Decides(c) == Evaluate(log[cons[c].at], cons[c].view, cons[c].status, FALSE).decision

\* A consumer that arms an order knows its row.
ArmsKnown(c) == (Decides(c).action = "ARM_RECHECK" /\ ~Audited(IdAt(c))) => RowKnown(c)

LEMMA CurrentIsKnown ==
  ASSUME ReadsAreCurrent, NEW c \in Consumers, cons[c].pc = "apply"
  PROVE  ArmsKnown(c)
BY DEF ReadsAreCurrent, ReadIsCurrent, ArmsKnown, RowKnown

\* A row that a consumer arms is new or armed already: the status it decided on
\* is the row's, or the optimistic guard stops it.
LEMMA ArmsPending ==
  ASSUME TypeOK, HandlersHaveEvents, NEW c \in Consumers, cons[c].pc = "apply",
         RowKnown(c), Decides(c).action = "ARM_RECHECK", CanArm(rows[OrderAt(c)], cons[c])
  PROVE  rows[OrderAt(c)] = Null \/ rows[OrderAt(c)].status = "PENDING_RECHECK"
<1> DEFINE r == rows[OrderAt(c)]
<1>1. r \in Row \cup {Null}
  BY EventAt DEF TypeOK
<1>2. IF cons[c].status = Null THEN r = Null
      ELSE cons[c].moved \/ (r # Null /\ cons[c].status = r.status)
  BY DEF RowKnown
<1>3. cons[c].status \notin TerminalStatuses
  BY ArmIsFresh DEF Decides
<1>4. CASE r # Null
  <2>1. r.status # "PROCESSING" /\ cons[c].status = r.status
    BY <1>2, <1>4 DEF CanArm
  <2> QED
    BY <1>1, <1>3, <1>4, <2>1 DEF Row, ReconStatus
<1> QED
  BY <1>4

LEMMA PointerMoved ==
  ASSUME NEW r \in Row \cup {Null}, NEW left \in TimeLeft,
         r # Null => (r.status = "PROCESSING" <=> r.token # Null), NEW k
  PROVE  /\ (r = Null \/ r.status = "PENDING_RECHECK") => Pointer(r, k, Armed(r, left), k)
         /\ CanDispute(r) => Pointer(r, k, Disputed(r), k)
         /\ CanResolve(r) => Pointer(r, k, ResolvedNaturally(r), k)
<1>1. CASE r = Null
  <2>1. Armed(r, left) \in Row /\ Unclaimed(Armed(r, left), "PENDING_RECHECK", 0)
    BY <1>1, ArmedType, NullColumnAssumption DEF Armed, Unclaimed
  <2>2. Disputed(r) \in Row /\ Unclaimed(Disputed(r), "DISPUTED", 0)
    BY <1>1, DisputedType, NullColumnAssumption DEF Disputed, Unclaimed
  <2> QED
    BY <1>1, <2>1, <2>2 DEF Pointer, CreatedAs, CanResolve
<1>2. CASE r # Null
  <2>1. ASSUME r.status = "PENDING_RECHECK" PROVE Same(r, Armed(r, left))
    <3>1. Armed(r, left) # Null
      BY ArmedType, NullColumnAssumption
    <3> QED
      BY <1>2, <2>1, <3>1 DEF Same, Armed, Row
  <2>2. ASSUME CanDispute(r) PROVE DisputedBy(r, Disputed(r))
    <3>1. Disputed(r) # Null
      BY DisputedType, NullColumnAssumption
    <3> QED
      BY <1>2, <2>2, <3>1 DEF DisputedBy, Unclaimed, CanDispute, Disputed, Row
  <2>3. ASSUME CanResolve(r) PROVE CaughtUp(r, ResolvedNaturally(r))
    <3>1. ResolvedNaturally(r) # Null
      BY <1>2, ClosedType, StatusType, NullColumnAssumption
    <3> QED
      BY <1>2, <2>3, <3>1 DEF CaughtUp, Unclaimed, CanResolve, ResolvedNaturally, Row
  <2> QED
    BY <1>2, <2>1, <2>2, <2>3 DEF Pointer
<1> QED
  BY <1>1, <1>2

LEMMA ApplyMoves ==
  ASSUME TypeOK, HandlersHaveEvents, TokenIsLatest, NEW c \in Consumers, ArmsKnown(c), Apply(c)
  PROVE  \A x \in Orders : OrderStep(x)
<1> DEFINE h     == cons[c]
           o     == OrderAt(c)
           d     == Evaluate(log[h.at], h.view, h.status, FALSE).decision
           moves == PointerMoves(d, rows[o], h)
<1>1. h.pc = "apply" /\ o \in Orders /\ h.left \in TimeLeft /\ rows[o] \in Row \cup {Null}
  BY EventAt, HandlerType DEF Apply, ApplyAs, Overtaken, TypeOK
<1>2. CASE Replay(IdAt(c))
  <2>1. UNCHANGED dbVars
    BY <1>2, Zenon DEF Apply, ApplyAs, Overtaken, IdAt
  <2> QED
    BY <2>1, NothingMoves DEF dbVars
<1>3. CASE ~Replay(IdAt(c))
  <2>1. /\ rows' = IF moves THEN [rows EXCEPT ![o] = NewPointer(d, @, h)] ELSE rows
        /\ UNCHANGED claims
    BY <1>3, Zenon DEF Apply, ApplyAs, Overtaken, IdAt, OrderAt
  <2>2. CASE ~moves
    BY <2>1, <2>2, NothingMoves
  <2>3. CASE moves
    <3>1. ASSUME d.action = "ARM_RECHECK"
          PROVE  rows[o] = Null \/ rows[o].status = "PENDING_RECHECK"
      BY <1>1, <1>3, <2>3, <3>1, ArmsPending DEF PointerMoves, Replay, Audited, ArmsKnown, Decides
    <3>2. rows[o] # Null => (rows[o].status = "PROCESSING" <=> rows[o].token # Null)
      BY <1>1 DEF TokenIsLatest
    <3>3. Pointer(rows[o], claims[o], NewPointer(d, rows[o], h), claims[o])
      <4>1. CASE d.action = "ARM_RECHECK"
        BY <1>1, <3>1, <3>2, <4>1, PointerMoved DEF NewPointer
      <4>2. CASE d.action = "ROUTE_DISPUTED"
        BY <1>1, <2>3, <3>2, <4>2, PointerMoved DEF NewPointer, PointerMoves
      <4>3. CASE d.action \notin {"ARM_RECHECK", "ROUTE_DISPUTED"}
        BY <1>1, <2>3, <3>2, <4>3, PointerMoved DEF NewPointer, PointerMoves
      <4> QED
        BY <4>1, <4>2, <4>3
    <3> DEFINE q == NewPointer(d, rows[o], h)
    <3> HIDE DEF q, d, o, moves
    <3>4. rows' = [rows EXCEPT ![o] = q] /\ claims' = [claims EXCEPT ![o] = claims[o]]
      BY <2>1, <2>3 DEF TypeOK, q
    <3> QED
      BY <1>1, <3>3, <3>4, OneMoves DEF q
  <2> QED
    BY <2>2, <2>3
<1> QED
  BY <1>2, <1>3

\* The statements of the resolvers and the sweep.
LEMMA ResolvedMoved ==
  ASSUME NEW r \in Row, r.status = "PROCESSING", NEW k, NEW left \in TimeLeft, r.retry < MaxRetries,
         NEW s \in {"RESOLVED_AUTOCORRECTED", "RESOLVED_NATURALLY", "DISPUTED"}
  PROVE  /\ Pointer(r, k, Completed(r, s), k)
         /\ Pointer(r, k, Rearmed(r, left), k) /\ Pointer(r, k, Reclaimed(r), k)
<1>1. r # Null
  BY NullColumnAssumption
<1>2. EndedAs(r, Completed(r, s))
  <2>1. Completed(r, s) # Null
    BY ClosedType, NullColumnAssumption DEF TerminalStatuses
  <2> QED
    BY <1>1, <2>1 DEF EndedAs, Unclaimed, Completed, Row
<1>3. RetriedAs(r, Rearmed(r, left)) /\ RetriedAs(r, Reclaimed(r))
  <2>1. Rearmed(r, left) # Null /\ Reclaimed(r) # Null
    BY RetriedType, NullColumnAssumption
  <2> QED
    BY <1>1, <2>1 DEF RetriedAs, Unclaimed, Rearmed, Reclaimed, Spent, Row
<1> QED
  BY <1>2, <1>3 DEF Pointer

\* A claimed row has budget left.
LEMMA HeldRow ==
  ASSUME TypeOK, RetryBudget, NEW o \in Orders, rows[o] # Null, rows[o].status = "PROCESSING"
  PROVE  rows[o] \in Row /\ rows[o].retry < MaxRetries
BY DEF TypeOK, RetryBudget, Retries, Status

LEMMA ResolverMoves ==
  ASSUME TypeOK, RetryBudget, ResolversOnOrders, NEW r \in Resolvers, ResolveStep(r)
  PROVE  \A x \in Orders : OrderStep(x)
<1>1. ASSUME NEW o \in Orders, Claim(r, o) PROVE \A x \in Orders : OrderStep(x)
  <2>1. CASE ~CanClaim(rows[o])
    BY <1>1, <2>1, NothingMoves DEF Claim
  <2>2. CASE CanClaim(rows[o])
    <3> DEFINE q == [rows[o] EXCEPT !.status = "PROCESSING", !.token = claims[o] + 1, !.age = 0]
    <3>1. rows[o] \in Row /\ claims[o] \in Nat
      BY <2>2 DEF TypeOK, CanClaim
    <3>2. q \in Row
      <4>1. \A t \in Nat : [rows[o] EXCEPT !.status = "PROCESSING", !.token = t, !.age = 0] \in Row
        BY <3>1, AgeType, StatusType DEF Row
      <4>2. claims[o] + 1 \in Nat
        BY <3>1
      <4> QED
        BY <4>1, <4>2, Zenon DEF q
    <3>3. q # Null
      BY <3>2, NullColumnAssumption
    <3>4. Pointer(rows[o], claims[o], q, claims[o] + 1)
      BY <2>2, <3>1, <3>3 DEF Pointer, ClaimedAs, CanClaim, Row
    <3>5. rows' = [rows EXCEPT ![o] = q] /\ claims' = [claims EXCEPT ![o] = claims[o] + 1]
      BY <1>1, <2>2 DEF Claim
    <3> HIDE DEF q
    <3> QED
      BY <3>4, <3>5, OneMoves
  <2> QED
    BY <2>1, <2>2
<1>2. CASE ReadOrder(r) \/ FinishStolen(r) \/ Requeue(r) \/ Drop(r)
  BY <1>2, NothingMoves DEF ReadOrder, FinishStolen, Requeue, Drop, dbVars
<1> DEFINE o == res[r].order
           d == EvaluateRecheck(RecheckId(o, res[r].token), o, res[r].view).decision
<1>3. ASSUME res[r].pc = "finish", Holds(rows[o], res[r].token)
      PROVE  o \in Orders /\ rows[o] \in Row /\ rows[o].status = "PROCESSING"
             /\ rows[o].retry < MaxRetries
  BY <1>3, HeldRow DEF Holds, ResolversOnOrders, ResolverOnOrder
<1>4. CASE FinishResolved(r)
  <2>1. d.new \in {"RESOLVED_AUTOCORRECTED", "RESOLVED_NATURALLY", "DISPUTED"}
    BY <1>4, RecheckFacts DEF FinishResolved
  <2>2. rows' = [rows EXCEPT ![o] = Completed(@, d.new)] /\ UNCHANGED claims
        /\ res[r].pc = "finish" /\ Holds(rows[o], res[r].token)
    BY <1>4, Zenon DEF FinishResolved
  <2> DEFINE q == Completed(rows[o], d.new)
  <2>3. Pointer(rows[o], claims[o], q, claims[o])
    BY <1>3, <2>1, <2>2, ResolvedMoved, TimeLeftType
  <2>4. rows' = [rows EXCEPT ![o] = q] /\ claims' = [claims EXCEPT ![o] = claims[o]]
    BY <2>2 DEF TypeOK
  <2> HIDE DEF q, d, o
  <2> QED
    BY <1>3, <2>2, <2>3, <2>4, OneMoves
<1>5. CASE FinishUnresolved(r)
  <2> DEFINE left == IF d.rearm THEN res[r].left ELSE RecheckDelay
  <2>1. left \in TimeLeft
    BY ResolutionType, TimeLeftType
  <2>2. rows' = [rows EXCEPT ![o] = Rearmed(@, left)] /\ UNCHANGED claims
        /\ res[r].pc = "finish" /\ Holds(rows[o], res[r].token)
    BY <1>5, Zenon DEF FinishUnresolved
  <2> DEFINE q == Rearmed(rows[o], left)
  <2>3. Pointer(rows[o], claims[o], q, claims[o])
    BY <1>3, <2>1, <2>2, ResolvedMoved
  <2>4. rows' = [rows EXCEPT ![o] = q] /\ claims' = [claims EXCEPT ![o] = claims[o]]
    BY <2>2 DEF TypeOK
  <2> HIDE DEF q, left, d, o
  <2> QED
    BY <1>3, <2>2, <2>3, <2>4, OneMoves
<1> QED
  BY <1>1, <1>2, <1>4, <1>5 DEF ResolveStep

LEMMA SweepMoves ==
  ASSUME TypeOK, RetryBudget, ReclaimStuck
  PROVE  \A o \in Orders : OrderStep(o)
<1> SUFFICES ASSUME NEW o \in Orders PROVE OrderStep(o)
  OBVIOUS
<1>1. rows'[o] = (IF Stuck(rows[o]) THEN Reclaimed(rows[o]) ELSE rows[o]) /\ claims' = claims
  BY DEF ReclaimStuck
<1>2. CASE Stuck(rows[o])
  <2>1. rows[o] \in Row /\ rows[o].status = "PROCESSING" /\ rows[o].retry < MaxRetries
    BY <1>2, HeldRow DEF Stuck
  <2>2. Pointer(rows[o], claims[o], Reclaimed(rows[o]), claims[o])
    BY <2>1, ResolvedMoved, TimeLeftType
  <2> QED
    BY <1>1, <1>2, <2>2 DEF OrderStep
<1>3. CASE ~Stuck(rows[o])
  BY <1>1, <1>3 DEF OrderStep, Pointer, Same
<1> QED
  BY <1>2, <1>3

LEMMA OlderSame ==
  ASSUME NEW r \in Row \cup {Null}
  PROVE  Same(r, Older(r))
<1>1. CASE r = Null
  BY <1>1 DEF Same, Older
<1>2. CASE r # Null
  <2>1. Older(r) = [r EXCEPT !.recheck = Sooner(@),
                      !.age = IF r.status = "PROCESSING" /\ @ <= StuckTimeout THEN @ + 1 ELSE @]
    BY <1>2 DEF Older
  <2>2. Older(r).status = r.status /\ Older(r).retry = r.retry /\ Older(r).token = r.token
        /\ Older(r) \in [{"status", "recheck", "retry", "token", "age"} -> {Older(r)[f] : f \in {"status", "recheck", "retry", "token", "age"}}]
    BY <1>2, <2>1 DEF Row
  <2>3. Older(r) # Null
    <3>1. Sooner(r.recheck) \in TimeLeft \cup {Null}
      BY <1>2, TimeLeftType DEF Row
    <3>2. (IF r.status = "PROCESSING" /\ r.age <= StuckTimeout THEN r.age + 1 ELSE r.age) \in Age
      BY <1>2, PipelineAssumption DEF Row, Age
    <3> QED
      BY <1>2, <2>1, <3>1, <3>2, NullColumnAssumption DEF Row
  <2> QED
    BY <1>2, <2>2, <2>3 DEF Same
<1> QED
  BY <1>1, <1>2

LEMMA TimeMoves ==
  ASSUME TypeOK, TimePasses
  PROVE  \A o \in Orders : OrderStep(o)
BY OlderSame DEF TimePasses, TypeOK, OrderStep, Pointer

LEMMA HaveEvents ==
  ASSUME HandlersOnLog
  PROVE  HandlersHaveEvents
BY DEF HandlersOnLog, HandlerOnLog, HandlersHaveEvents

\* Every step of the pipeline moves every order in one of the ways above.
LEMMA OrderSteps ==
  ASSUME TypeOK, RetryBudget, HandlersOnLog, ReadsAreCurrent, ResolversOnOrders, TokenIsLatest,
         [Next]_vars
  PROVE  \A o \in Orders : OrderStep(o)
<1> USE DEF dbVars
<1>1. ASSUME NEW c \in Consumers, ConsumerStep(c) PROVE \A o \in Orders : OrderStep(o)
  <2>1. CASE Apply(c)
    BY <2>1, ApplyMoves, CurrentIsKnown, HaveEvents DEF Apply, ApplyAs
  <2>2. CASE ~Apply(c)
    BY <1>1, <2>2, NothingMoves DEF ConsumerStep, FileMalformed, StopOnMessage, SkipSeen, StartEvent, ReadRow,
         ReadView, MarkSeen, Push, Commit
  <2> QED
    BY <2>1, <2>2
<1>2. ASSUME NEW c \in Consumers, Assign(c) \/ CrashConsumer(c) \/ Rebalance(c)
      PROVE  \A o \in Orders : OrderStep(o)
  BY <1>2, NothingMoves DEF Assign, CrashConsumer, Rebalance
<1>3. CASE PollDue \/ ListOrphans
  BY <1>3, NothingMoves DEF PollDue, ListOrphans
<1>4. ASSUME NEW r \in Resolvers, CrashResolver(r) \/ FailResolution(r)
      PROVE  \A o \in Orders : OrderStep(o)
  BY <1>4, NothingMoves DEF CrashResolver, FailResolution
<1>5. CASE Tick
  BY <1>5, TimeMoves DEF Tick
<1>6. ASSUME NEW o \in Orders, LoseQueued(o) PROVE \A x \in Orders : OrderStep(x)
  BY <1>6, NothingMoves DEF LoseQueued
<1>7. ASSUME NEW id \in EventIds, ForgetSeen(id) PROVE \A o \in Orders : OrderStep(o)
  BY <1>7, NothingMoves DEF ForgetSeen
<1>8. CASE UNCHANGED vars
  BY <1>8, NothingMoves DEF vars
<1> QED
  BY <1>1, <1>2, <1>3, <1>4, <1>5, <1>6, <1>7, <1>8, ResolverMoves, SweepMoves DEF Next, SweepStuck

-----------------------------------------------------------------------------
(* What the moves preserve.                                                *)

LEMMA BudgetKept ==
  ASSUME TypeOK, TypeOK', RetryBudget, \A o \in Orders : OrderStep(o)
  PROVE  RetryBudget'
<1> SUFFICES ASSUME NEW o \in Orders
             PROVE  /\ Retries(o)' <= MaxRetries
                    /\ Status(o)' \in {"PENDING_RECHECK", "PROCESSING"} => Retries(o)' < MaxRetries
                    /\ Status(o)' = "DEAD_LETTER" => Retries(o)' = MaxRetries
  BY DEF RetryBudget
<1>1. rows[o] # Null => rows[o].retry \in Nat /\ rows[o].retry <= MaxRetries
  BY PipelineAssumption DEF TypeOK, Row
<1>2. Pointer(rows[o], claims[o], rows'[o], claims'[o])
  BY DEF OrderStep
<1>3. rows[o] # Null =>
        /\ rows[o].status \in {"PENDING_RECHECK", "PROCESSING"} => rows[o].retry < MaxRetries
        /\ rows[o].status = "DEAD_LETTER" => rows[o].retry = MaxRetries
  BY DEF RetryBudget, Retries, Status
<1>4. CASE Same(rows[o], rows'[o])
  <2>1. CASE rows[o] = Null
    <3>1. Null \notin {"PENDING_RECHECK", "PROCESSING", "DEAD_LETTER"}
      BY NullAssumption DEF ReconStatus, TerminalStatuses
    <3> QED
      BY <1>4, <2>1, <3>1, PipelineAssumption DEF Same, Retries, Status
  <2>2. CASE rows[o] # Null
    BY <1>1, <1>3, <1>4, <2>2 DEF Same, Retries, Status
  <2> QED
    BY <2>1, <2>2
<1>5. CASE CreatedAs(rows[o], rows'[o])
  BY <1>5, PipelineAssumption DEF CreatedAs, Unclaimed, Retries, Status
<1>6. CASE CaughtUp(rows[o], rows'[o]) \/ DisputedBy(rows[o], rows'[o]) \/ EndedAs(rows[o], rows'[o])
  BY <1>1, <1>6 DEF CaughtUp, DisputedBy, EndedAs, Unclaimed, Retries, Status
<1>7. CASE RetriedAs(rows[o], rows'[o])
  BY <1>1, <1>3, <1>7, PipelineAssumption DEF RetriedAs, Unclaimed, Retries, Status
<1>8. CASE ClaimedAs(rows[o], rows'[o], claims'[o])
  BY <1>1, <1>3, <1>8 DEF ClaimedAs, Retries, Status
<1> QED
  BY <1>2, <1>4, <1>5, <1>6, <1>7, <1>8 DEF Pointer

LEMMA TokenKept ==
  ASSUME TypeOK, TokenIsLatest, \A o \in Orders : OrderStep(o)
  PROVE  TokenIsLatest'
<1> SUFFICES ASSUME NEW o \in Orders, rows'[o] # Null
             PROVE  /\ rows'[o].status = "PROCESSING" <=> rows'[o].token # Null
                    /\ rows'[o].token # Null => rows'[o].token = claims'[o]
  BY DEF TokenIsLatest
<1>1. Pointer(rows[o], claims[o], rows'[o], claims'[o])
  BY DEF OrderStep
<1>2. CASE Same(rows[o], rows'[o]) /\ claims'[o] = claims[o]
  BY <1>2 DEF Same, TokenIsLatest
<1>3. CASE ClaimedAs(rows[o], rows'[o], claims'[o]) /\ claims'[o] = claims[o] + 1
  BY <1>3, NullColumnAssumption DEF ClaimedAs, TypeOK
<1>4. ASSUME NEW s, NEW n, Unclaimed(rows'[o], s, n), s # "PROCESSING"
      PROVE  rows'[o].status # "PROCESSING" /\ rows'[o].token = Null
  BY <1>4 DEF Unclaimed
<1> QED
  BY <1>1, <1>2, <1>3, <1>4 DEF Pointer, CreatedAs, CaughtUp, DisputedBy, EndedAs, RetriedAs

\* The way out of a terminal status.
LEMMA TerminalKept ==
  ASSUME NEW o \in Orders, OrderStep(o), rows[o] # Null, rows[o].status \in TerminalStatuses
  PROVE  /\ rows'[o] # Null
         /\ rows'[o].status = rows[o].status \/ rows'[o].status = "DISPUTED"
BY DEF OrderStep, Pointer, Same, CreatedAs, CaughtUp, DisputedBy, EndedAs, RetriedAs, ClaimedAs,
       Unclaimed, TerminalStatuses

-----------------------------------------------------------------------------
(* What a step adds to the audit log.                                      *)

\* The order is resolved or given up in this step.
Closes(o) ==
  /\ rows[o] # Null /\ rows[o].status = "PROCESSING"
  /\ rows'[o] # Null /\ rows'[o].status \in TerminalStatuses

AuditStep ==
  /\ audit \subseteq audit'
  /\ \A a \in audit' \ audit : (BySystem(a) /\ a.new \in TerminalStatuses) => Closes(a.order)
  /\ \A a, b \in audit' \ audit : a.order = b.order => a = b
  /\ \A a \in audit' \ audit, o \in Orders, t \in Nat : a.id = RecheckId(o, t) => Holds(rows[o], t)

LEMMA OneAudited ==
  ASSUME NEW a, audit' \subseteq audit \cup {a}, audit \subseteq audit',
         (BySystem(a) /\ a.new \in TerminalStatuses) => Closes(a.order),
         \A o \in Orders, t \in Nat : a.id = RecheckId(o, t) => Holds(rows[o], t)
  PROVE  AuditStep
BY DEF AuditStep

LEMMA ApplyAudits ==
  ASSUME TypeOK, HandlersHaveEvents, NEW c \in Consumers, Apply(c)
  PROVE  AuditStep
<1> DEFINE h == cons[c]
           d == Evaluate(log[h.at], h.view, h.status, FALSE).decision
           a == Entry(IdAt(c), OrderAt(c), d.action, h.status, OrElse(d.new, h.status))
<1>1. IdAt(c) \in EventIds
  BY EventAt DEF Apply, ApplyAs, Overtaken
<1>2. ~BySystem(a)
  BY <1>1, IdAssumption DEF BySystem, Entry
<1>3. \A x \in Orders, t \in Nat : a.id # RecheckId(x, t)
  BY <1>1, IdAssumption DEF Entry, RecheckId, SystemId
<1>4. audit' = audit \/ audit' = audit \cup {a}
  <2>1. CASE Replay(IdAt(c))
    BY <2>1, Zenon DEF Apply, ApplyAs, Overtaken, IdAt, dbVars
  <2>2. CASE ~Replay(IdAt(c))
    BY <2>2, Zenon DEF Apply, ApplyAs, Overtaken, IdAt, OrderAt
  <2> QED
    BY <2>1, <2>2
<1> HIDE DEF a
<1> QED
  BY <1>2, <1>3, <1>4, OneAudited

LEMMA ResolverAudits ==
  ASSUME TypeOK, RetryBudget, ResolversOnOrders, NEW r \in Resolvers, ResolveStep(r)
  PROVE  AuditStep
<1> DEFINE o  == res[r].order
           id == RecheckId(o, res[r].token)
           d  == EvaluateRecheck(id, o, res[r].view).decision
<1>1. ASSUME res[r].pc = "finish", Holds(rows[o], res[r].token)
      PROVE  o \in Orders /\ rows[o] \in Row /\ rows[o].status = "PROCESSING" /\ rows[o] # Null
             /\ rows[o].retry < MaxRetries
  BY <1>1, HeldRow DEF Holds, ResolversOnOrders, ResolverOnOrder
<1>2. \A x, t : id = RecheckId(x, t) => x = o /\ t = res[r].token
  BY DEF RecheckId
<1>3. CASE FinishResolved(r)
  <2> DEFINE a == Entry(id, o, d.action, "PROCESSING", d.new)
             q == Completed(rows[o], d.new)
  <2>1. d.new \in {"RESOLVED_AUTOCORRECTED", "RESOLVED_NATURALLY", "DISPUTED"}
    BY <1>3, RecheckFacts DEF FinishResolved
  <2>2. /\ rows' = [rows EXCEPT ![o] = Completed(@, d.new)]
        /\ audit' = IF Replay(id) THEN audit ELSE audit \cup {a}
        /\ res[r].pc = "finish" /\ Holds(rows[o], res[r].token)
    BY <1>3, Zenon DEF FinishResolved
  <2>3. q \in Row /\ q # Null /\ q.status \in TerminalStatuses
    <3>1. q \in Row /\ d.new \in TerminalStatuses
      BY <1>1, <2>1, <2>2, ClosedType DEF TerminalStatuses
    <3>2. q.status = d.new
      BY <1>1, <2>2 DEF Completed, Row
    <3> QED
      BY <3>1, <3>2, NullColumnAssumption
  <2>4. a.order = o /\ a.id = id
    BY DEF Entry
  <2>5. rows' = [rows EXCEPT ![o] = q]
    BY <2>2
  <2> HIDE DEF a, q, d, id
  <2>6. Closes(o)
    BY <1>1, <2>2, <2>3, <2>5 DEF Closes, TypeOK
  <2> QED
    BY <1>2, <2>2, <2>4, <2>6, OneAudited
<1>4. CASE FinishUnresolved(r)
  <2> DEFINE left == IF d.rearm THEN res[r].left ELSE RecheckDelay
             a    == UnresolvedEntry(id, o, d, Spent(rows[o]))
             q    == Rearmed(rows[o], left)
  <2>1. /\ rows' = [rows EXCEPT ![o] = Rearmed(@, left)]
        /\ audit' = IF Replay(id) THEN audit ELSE audit \cup {a}
        /\ res[r].pc = "finish" /\ Holds(rows[o], res[r].token)
    BY <1>4, Zenon DEF FinishUnresolved
  <2>2. left \in TimeLeft
    BY ResolutionType, TimeLeftType
  <2>3. q \in Row /\ q # Null /\ (Spent(rows[o]) => q.status \in TerminalStatuses)
    <3>1. q \in Row
      BY <1>1, <2>1, <2>2, RetriedType
    <3>2. Spent(rows[o]) => q.status = "DEAD_LETTER"
      BY <1>1, <2>1 DEF Rearmed, Row
    <3> QED
      BY <3>1, <3>2, StatusType, NullColumnAssumption
  <2>4. a.order = o /\ a.id = id /\ (~Spent(rows[o]) => a.new \notin TerminalStatuses)
    BY StatusType DEF UnresolvedEntry, Entry
  <2>5. rows' = [rows EXCEPT ![o] = q]
    BY <2>1
  <2> HIDE DEF a, q, left, d, id
  <2>6. Spent(rows[o]) => Closes(o)
    BY <1>1, <2>1, <2>3, <2>5 DEF Closes, TypeOK
  <2> QED
    BY <1>2, <2>1, <2>4, <2>6, OneAudited
<1>5. CASE UNCHANGED audit
  BY <1>5 DEF AuditStep
<1> QED
  BY <1>3, <1>4, <1>5 DEF ResolveStep, Claim, ReadOrder, FinishStolen, Requeue, Drop, dbVars

LEMMA SweepAudits ==
  ASSUME TypeOK, RetryBudget, ReclaimStuck
  PROVE  AuditStep
<1> DEFINE stuck    == {o \in Orders : Stuck(rows[o])}
           dead     == {o \in stuck : Spent(rows[o])}
           entry(o) ==
             Entry(SweepId(o, rows[o].retry + 1), o,
                   IF o \in dead THEN "DEAD_LETTER" ELSE "RECLAIM", "PROCESSING",
                   IF o \in dead THEN "DEAD_LETTER" ELSE "PENDING_RECHECK")
           fresh    == {x \in stuck : ~Replay(SweepId(x, rows[x].retry + 1))}
<1>1. audit' = audit \cup {entry(o) : o \in fresh}
  BY Zenon DEF ReclaimStuck
<1>2. \A o \in stuck : entry(o).order = o /\ (entry(o).new \in TerminalStatuses => o \in dead)
  BY StatusType DEF Entry
<1>3. \A o \in dead : Closes(o)
  <2> SUFFICES ASSUME NEW o \in dead PROVE Closes(o)
    OBVIOUS
  <2>1. rows[o] # Null /\ rows[o].status = "PROCESSING" /\ Spent(rows[o]) /\ o \in Orders
    BY DEF Stuck
  <2>2. rows[o] \in Row /\ rows[o].retry < MaxRetries
    BY <2>1, HeldRow
  <2>3. rows'[o] = Reclaimed(rows[o])
    BY DEF ReclaimStuck
  <2>4. Reclaimed(rows[o]).status = "DEAD_LETTER" /\ Reclaimed(rows[o]) \in Row
    BY <2>1, <2>2, RetriedType, TimeLeftType DEF Reclaimed, Row
  <2> QED
    BY <2>1, <2>3, <2>4, StatusType, NullColumnAssumption DEF Closes
<1>4. \A o \in stuck : \A x, t : entry(o).id # RecheckId(x, t)
  BY DEF Entry, SweepId, RecheckId
<1>5. fresh \subseteq stuck
  OBVIOUS
<1> HIDE DEF entry, fresh, dead, stuck
<1>6. ASSUME NEW a \in audit' \ audit
      PROVE  \E o \in stuck : a = entry(o)
  BY <1>1, <1>5
<1> QED
  BY <1>1, <1>2, <1>3, <1>4, <1>6 DEF AuditStep

LEMMA AuditSteps ==
  ASSUME TypeOK, RetryBudget, HandlersHaveEvents, ResolversOnOrders, [Next]_vars
  PROVE  AuditStep
<1> USE DEF dbVars
<1>1. ASSUME NEW c \in Consumers, ConsumerStep(c) PROVE AuditStep
  <2>1. CASE Apply(c)
    BY <2>1, ApplyAudits
  <2>2. CASE ~Apply(c)
    <3>1. UNCHANGED audit
      BY <1>1, <2>2 DEF ConsumerStep, FileMalformed, StopOnMessage, SkipSeen, StartEvent, ReadRow, ReadView,
           MarkSeen, Push, Commit
    <3> QED
      BY <3>1 DEF AuditStep
  <2> QED
    BY <2>1, <2>2
<1>2. CASE \/ UNCHANGED vars \/ PollDue \/ ListOrphans \/ Tick
           \/ \E c \in Consumers : Assign(c) \/ CrashConsumer(c) \/ Rebalance(c)
           \/ \E r \in Resolvers : CrashResolver(r) \/ FailResolution(r)
           \/ (\E o \in Orders : LoseQueued(o)) \/ (\E id \in EventIds : ForgetSeen(id))
  <2>1. UNCHANGED audit
    BY <1>2 DEF vars, PollDue, ListOrphans, Tick, TimePasses, Assign, CrashConsumer, Rebalance, CrashResolver,
         FailResolution, LoseQueued, ForgetSeen
  <2> QED
    BY <2>1 DEF AuditStep
<1> QED
  BY <1>1, <1>2, ResolverAudits, SweepAudits DEF Next, SweepStuck

\* An order the system closed stays closed, and is closed once.
LEMMA EndingKept ==
  ASSUME TypeOK, SystemEndingHolds, OneSystemResolution, AuditStep, \A o \in Orders : OrderStep(o)
  PROVE  SystemEndingHolds' /\ OneSystemResolution'
<1>1. \A a \in audit : (BySystem(a) /\ a.new \in TerminalStatuses) =>
        /\ a.order \in Orders /\ rows[a.order] # Null /\ rows[a.order].status \in TerminalStatuses
        /\ rows'[a.order] # Null /\ rows'[a.order].status \in TerminalStatuses
  <2>1. \A a \in audit : a.order \in Orders
    BY DEF TypeOK, AuditEntry
  <2> QED
    BY <2>1, TerminalKept, StatusType DEF SystemEndingHolds
<1>2. SystemEndingHolds'
  BY <1>1 DEF SystemEndingHolds, AuditStep, Closes, BySystem
<1>3. OneSystemResolution'
  <2> SUFFICES ASSUME NEW a \in audit', NEW b \in audit', BySystem(a), BySystem(b),
                      a.order = b.order, a.new \in TerminalStatuses, b.new \in TerminalStatuses
               PROVE  a = b
    BY DEF OneSystemResolution, SystemAudit, BySystem
  <2>1. ~(a \in audit /\ b \notin audit) /\ ~(b \in audit /\ a \notin audit)
    BY <1>1, StatusType DEF AuditStep, Closes
  <2>2. CASE a \in audit /\ b \in audit
    BY <1>1, <2>2 DEF OneSystemResolution, SystemAudit
  <2>3. CASE a \notin audit /\ b \notin audit
    BY <2>3 DEF AuditStep
  <2> QED
    BY <2>1, <2>2, <2>3
<1> QED
  BY <1>2, <1>3

-----------------------------------------------------------------------------
(* The resolvers' claims.                                                  *)

\* Claims only grow and rows are never deleted.
LEMMA Monotone ==
  ASSUME TypeOK, NEW o \in Orders, OrderStep(o)
  PROVE  /\ claims[o] \in Nat /\ claims'[o] \in Nat /\ claims'[o] >= claims[o]
         /\ rows[o] # Null => rows'[o] # Null
<1>1. claims[o] \in Nat
  BY DEF TypeOK
<1> QED
  BY <1>1 DEF OrderStep, Pointer, Same, CreatedAs, CaughtUp, DisputedBy, EndedAs, RetriedAs,
              ClaimedAs, Unclaimed

LEMMA ResolverKept ==
  ASSUME TypeOK, NEW r \in Resolvers, ResolverOnOrder(r), \A o \in Orders : OrderStep(o),
         res'[r].pc = res[r].pc, res'[r].order = res[r].order, res'[r].token = res[r].token,
         res'[r].view = res[r].view,
         res[r].pc = "requeue" => res'[r].rearm \in TimeLeft
  PROVE  ResolverOnOrder(r)'
<1>1. ASSUME res[r].pc \in {"read", "finish"}
      PROVE  res[r].token \in 1..claims'[res[r].order] /\ rows'[res[r].order] # Null
  <2>1. res[r].order \in Orders /\ res[r].token \in 1..claims[res[r].order]
        /\ rows[res[r].order] # Null
    BY <1>1 DEF ResolverOnOrder
  <2> QED
    BY <2>1, Monotone
<1> QED
  BY <1>1 DEF ResolverOnOrder

\* One resolver moves: it lets go of its order, goes on with it, or claims one.
LEMMA OneResolves ==
  ASSUME TypeOK, ResolversOnOrders, TokensDiffer, \A o \in Orders : OrderStep(o),
         NEW r \in Resolvers, NEW s, res' = [res EXCEPT ![r] = s], ResolverOnOrder(r)',
         s.pc \in {"read", "finish"} =>
           \/ res[r].pc \in {"read", "finish"} /\ s.order = res[r].order /\ s.token = res[r].token
           \/ s.order \in Orders /\ s.token = claims[s.order] + 1
  PROVE  ResolversOnOrders' /\ TokensDiffer'
<1>1. res'[r] = s /\ \A q \in Resolvers : q # r => res'[q] = res[q]
  BY DEF TypeOK
<1>2. \A q \in Resolvers : ResolverOnOrder(q)'
  BY <1>1, ResolverKept DEF ResolversOnOrders, ResolverOnOrder
<1>3. \A q \in Resolvers \ {r} :
        (/\ s.pc \in {"read", "finish"} /\ res[q].pc \in {"read", "finish"}
         /\ s.order = res[q].order) => s.token # res[q].token
  <2> SUFFICES ASSUME NEW q \in Resolvers \ {r}, s.pc \in {"read", "finish"},
                      res[q].pc \in {"read", "finish"}, s.order = res[q].order
               PROVE  s.token # res[q].token
    OBVIOUS
  <2>1. CASE res[r].pc \in {"read", "finish"} /\ s.order = res[r].order /\ s.token = res[r].token
    BY <2>1 DEF TokensDiffer
  <2>2. CASE s.order \in Orders /\ s.token = claims[s.order] + 1
    <3>1. res[q].token \in 1..claims[s.order] /\ claims[s.order] \in Nat
      BY <2>2 DEF ResolversOnOrders, ResolverOnOrder, TypeOK
    <3> QED
      BY <2>2, <3>1
  <2> QED
    BY <2>1, <2>2
<1>4. TokensDiffer'
  BY <1>1, <1>3 DEF TokensDiffer
<1> QED
  BY <1>2, <1>4 DEF ResolversOnOrders

\* No resolver moves, except that time passes for it.
LEMMA NoneResolves ==
  ASSUME TypeOK, ResolversOnOrders, TokensDiffer, \A o \in Orders : OrderStep(o),
         \A r \in Resolvers :
           /\ res'[r].pc = res[r].pc /\ res'[r].order = res[r].order
           /\ res'[r].token = res[r].token /\ res'[r].view = res[r].view
           /\ res[r].pc = "requeue" => res'[r].rearm \in TimeLeft
  PROVE  ResolversOnOrders' /\ TokensDiffer'
<1>1. ResolversOnOrders'
  BY ResolverKept DEF ResolversOnOrders
<1>2. TokensDiffer'
  BY DEF TokensDiffer
<1> QED
  BY <1>1, <1>2

\* A resolver lets go of its order.
LEMMA LetsGo ==
  ASSUME TypeOK, ResolversOnOrders, TokensDiffer, \A o \in Orders : OrderStep(o),
         NEW r \in Resolvers, NEW s, res' = [res EXCEPT ![r] = s],
         \/ s.pc \in {"idle", "list", "claim"}
         \/ s.pc = "drop" /\ s.order \in Orders
         \/ s.pc = "requeue" /\ s.order \in Orders /\ s.rearm \in TimeLeft
  PROVE  ResolversOnOrders' /\ TokensDiffer'
<1>1. res'[r] = s
  BY DEF TypeOK
<1>2. ResolverOnOrder(r)'
  BY <1>1 DEF ResolverOnOrder
<1>3. s.pc \notin {"read", "finish"}
  OBVIOUS
<1> QED
  BY <1>2, <1>3, OneResolves

LEMMA TurnLetsGo ==
  ASSUME NEW s \in Resolution
  PROVE  Turn(s).pc \in {"idle", "claim"}
BY DEF Turn, IdleResolution, Resolution

LEMMA ResolveStepKeepsClaims ==
  ASSUME TypeOK, ResolversOnOrders, TokensDiffer, \A o \in Orders : OrderStep(o),
         NEW r \in Resolvers, ResolveStep(r)
  PROVE  ResolversOnOrders' /\ TokensDiffer'
<1>1. ASSUME NEW o \in Orders, Claim(r, o) PROVE ResolversOnOrders' /\ TokensDiffer'
  <2> DEFINE s == [res[r] EXCEPT !.batch = @ \ {o}, !.order = o]
  <2>1. CASE CanClaim(rows[o])
    <3> DEFINE t == [s EXCEPT !.pc = "read", !.token = claims[o] + 1]
    <3>1. t.pc = "read" /\ t.order = o /\ t.token = claims[o] + 1
      BY ResolutionType DEF Resolution
    <3>2. res' = [res EXCEPT ![r] = t] /\ claims' = [claims EXCEPT ![o] = claims[o] + 1]
      BY <1>1, <2>1 DEF Claim
    <3>3. claims'[o] = claims[o] + 1 /\ claims[o] \in Nat /\ rows[o] # Null
      BY <2>1, <3>2 DEF TypeOK, CanClaim
    <3>4. rows'[o] # Null
      BY <3>3, Monotone
    <3> HIDE DEF t
    <3>5. res'[r] = t
      BY <3>2 DEF TypeOK
    <3>6. ResolverOnOrder(r)'
      BY <3>1, <3>3, <3>4, <3>5 DEF ResolverOnOrder
    <3> QED
      BY <3>1, <3>2, <3>6, OneResolves
  <2>2. CASE ~CanClaim(rows[o])
    <3>1. [s EXCEPT !.pc = "drop"].pc = "drop" /\ [s EXCEPT !.pc = "drop"].order = o
      BY ResolutionType DEF Resolution
    <3>2. res' = [res EXCEPT ![r] = [s EXCEPT !.pc = "drop"]]
      BY <1>1, <2>2 DEF Claim
    <3> HIDE DEF s
    <3> QED
      BY <3>1, <3>2, LetsGo
  <2> QED
    BY <2>1, <2>2
<1>2. CASE ReadOrder(r)
  <2> DEFINE v == OrElse(views[res[r].order], EmptyView)
             t == [res[r] EXCEPT !.pc = "finish", !.view = v]
  <2>1. res' = [res EXCEPT ![r] = t] /\ res[r].pc = "read"
    BY <1>2 DEF ReadOrder
  <2>2. res[r].order \in Orders /\ res[r].token \in 1..claims[res[r].order]
        /\ rows[res[r].order] # Null
    BY <2>1 DEF ResolversOnOrders, ResolverOnOrder
  <2>3. v \in View
    BY <2>2 DEF TypeOK, OrElse, EmptyView, View
  <2>4. t.pc = "finish" /\ t.order = res[r].order /\ t.token = res[r].token /\ t.view = v
    BY ResolutionType DEF Resolution
  <2> HIDE DEF t, v
  <2>5. res'[r] = t
    BY <2>1 DEF TypeOK
  <2>6. rows'[res[r].order] # Null /\ res[r].token \in 1..claims'[res[r].order]
    BY <2>2, Monotone
  <2>7. ResolverOnOrder(r)'
    BY <2>2, <2>3, <2>4, <2>5, <2>6 DEF ResolverOnOrder
  <2> QED
    BY <2>1, <2>4, <2>7, OneResolves
<1>3. ASSUME res[r].pc = "finish"
      PROVE  /\ Ended(res[r], "drop").pc = "drop" /\ Ended(res[r], "drop").order \in Orders
             /\ \A left \in TimeLeft :
                  /\ [Ended(res[r], "requeue") EXCEPT !.rearm = left].pc = "requeue"
                  /\ [Ended(res[r], "requeue") EXCEPT !.rearm = left].order \in Orders
                  /\ [Ended(res[r], "requeue") EXCEPT !.rearm = left].rearm = left
  BY <1>3, ResolutionType DEF Ended, Resolution, ResolversOnOrders, ResolverOnOrder
<1>4. CASE FinishStolen(r) \/ FinishResolved(r)
  <2>1. res[r].pc = "finish" /\ res' = [res EXCEPT ![r] = Ended(res[r], "drop")]
    BY <1>4, Zenon DEF FinishStolen, FinishResolved
  <2> QED
    BY <1>3, <2>1, LetsGo
<1>5. CASE FinishUnresolved(r)
  <2> DEFINE o    == res[r].order
             d    == EvaluateRecheck(RecheckId(o, res[r].token), o, res[r].view).decision
             left == IF d.rearm THEN res[r].left ELSE RecheckDelay
             t    == [Ended(res[r], "requeue") EXCEPT !.rearm = left]
  <2>1. res[r].pc = "finish"
        /\ res' = [res EXCEPT ![r] = IF Spent(rows[o]) THEN Ended(@, "drop")
                                     ELSE [Ended(@, "requeue") EXCEPT !.rearm = left]]
    BY <1>5, Zenon DEF FinishUnresolved
  <2>2. left \in TimeLeft
    BY ResolutionType, TimeLeftType
  <2>3. t.pc = "requeue" /\ t.order \in Orders /\ t.rearm \in TimeLeft
    BY <1>3, <2>1, <2>2
  <2>4. res' = [res EXCEPT ![r] = IF Spent(rows[o]) THEN Ended(res[r], "drop") ELSE t]
    BY <2>1
  <2> HIDE DEF t, left, d, o
  <2>5. CASE Spent(rows[o])
    BY <1>3, <2>1, <2>4, <2>5, LetsGo
  <2>6. CASE ~Spent(rows[o])
    BY <2>3, <2>4, <2>6, LetsGo
  <2> QED
    BY <2>5, <2>6
<1>6. CASE Requeue(r) \/ Drop(r)
  <2>1. res' = [res EXCEPT ![r] = Turn(res[r])]
    BY <1>6 DEF Requeue, Drop
  <2>2. Turn(res[r]).pc \in {"idle", "claim"}
    BY ResolutionType, TurnLetsGo
  <2> QED
    BY <2>1, <2>2, LetsGo
<1> QED
  BY <1>1, <1>2, <1>4, <1>5, <1>6 DEF ResolveStep

LEMMA FailKeepsClaims ==
  ASSUME TypeOK, ResolversOnOrders, TokensDiffer, \A o \in Orders : OrderStep(o),
         NEW r \in Resolvers, FailResolution(r)
  PROVE  ResolversOnOrders' /\ TokensDiffer'
<1>1. \E s \in Resolution : res' = [res EXCEPT ![r] = Turn(s)]
  <2>1. \A o : [res[r] EXCEPT !.batch = res[r].batch \ {o}] \in Resolution
    BY ResolutionType DEF Resolution
  <2>2. CASE res[r].pc = "claim"
    BY <2>1, <2>2 DEF FailResolution
  <2>3. CASE res[r].pc # "claim"
    BY <2>3, ResolutionType DEF FailResolution
  <2> QED
    BY <2>2, <2>3
<1> QED
  BY <1>1, TurnLetsGo, LetsGo

LEMMA TimeKeepsClaims ==
  ASSUME TypeOK, ResolversOnOrders, TokensDiffer, \A o \in Orders : OrderStep(o), TimePasses
  PROVE  ResolversOnOrders' /\ TokensDiffer'
<1> SUFFICES ASSUME NEW r \in Resolvers
             PROVE  /\ res'[r].pc = res[r].pc /\ res'[r].order = res[r].order
                    /\ res'[r].token = res[r].token /\ res'[r].view = res[r].view
                    /\ res[r].pc = "requeue" => res'[r].rearm \in TimeLeft
  BY NoneResolves
<1>1. res'[r] = IF res[r].pc = "idle" THEN res[r]
                ELSE [res[r] EXCEPT !.left = Sooner(@), !.rearm = Sooner(@)]
  BY DEF TimePasses
<1>2. res[r].pc = "requeue" => Sooner(res[r].rearm) \in TimeLeft
  BY TimeLeftType DEF ResolversOnOrders, ResolverOnOrder
<1> QED
  BY <1>1, <1>2, ResolutionType DEF Resolution

LEMMA IdleKeepsClaims ==
  ASSUME TypeOK, ResolversOnOrders, TokensDiffer, \A o \in Orders : OrderStep(o), UNCHANGED res
  PROVE  ResolversOnOrders' /\ TokensDiffer'
<1>1. \A r \in Resolvers : res[r].pc = "requeue" => res[r].rearm \in TimeLeft
  BY DEF ResolversOnOrders, ResolverOnOrder
<1> QED
  BY <1>1, NoneResolves

LEMMA ClaimsKept ==
  ASSUME TypeOK, ResolversOnOrders, TokensDiffer, \A o \in Orders : OrderStep(o), [Next]_vars
  PROVE  ResolversOnOrders' /\ TokensDiffer'
<1>1. ASSUME NEW r \in Resolvers, CrashResolver(r) PROVE ResolversOnOrders' /\ TokensDiffer'
  <2>1. res' = [res EXCEPT ![r] = IdleResolution] /\ IdleResolution.pc = "idle"
    BY <1>1 DEF CrashResolver, IdleResolution
  <2> QED
    BY <2>1, LetsGo
<1>2. CASE PollDue
  <2> DEFINE due == {o \in Orders : queue[o] # Null /\ queue[o] <= 0}
             s   == [IdleResolution EXCEPT !.pc = "claim", !.batch = due]
  <2>1. res' = [res EXCEPT !["runner"] = s] /\ "runner" \in Resolvers
    BY <1>2 DEF PollDue
  <2>2. s.pc = "claim"
    BY DEF IdleResolution
  <2> HIDE DEF s
  <2> QED
    BY <2>1, <2>2, LetsGo
<1>3. CASE ListOrphans
  <2>1. "sweep" \in Resolvers /\ \A b \in SUBSET Orders : [res["sweep"] EXCEPT !.batch = b] \in Resolution
    BY <1>3, ResolutionType DEF ListOrphans, Resolution
  <2>2. \E s \in Resolution : res' = [res EXCEPT !["sweep"] = Turn(s)]
    BY <1>3, <2>1 DEF ListOrphans
  <2> QED
    BY <2>1, <2>2, TurnLetsGo, LetsGo
<1>4. CASE SweepStuck
  <2> DEFINE s == [IdleResolution EXCEPT !.pc = "list"]
  <2>1. res' = [res EXCEPT !["sweep"] = s] /\ "sweep" \in Resolvers
    BY <1>4, Zenon DEF SweepStuck, ReclaimStuck
  <2>2. s.pc = "list"
    BY DEF IdleResolution
  <2> HIDE DEF s
  <2> QED
    BY <2>1, <2>2, LetsGo
<1>5. ASSUME NEW c \in Consumers, ConsumerStep(c) \/ Assign(c) \/ CrashConsumer(c) \/ Rebalance(c)
      PROVE  UNCHANGED res
  BY <1>5 DEF ConsumerStep, FileMalformed, StopOnMessage, SkipSeen, StartEvent, ReadRow, ReadView, Apply, ApplyAs, MarkSeen,
       Push, Commit, Assign, CrashConsumer, Rebalance
<1>6. (\/ UNCHANGED vars \/ (\E o \in Orders : LoseQueued(o))
       \/ (\E id \in EventIds : ForgetSeen(id))) => UNCHANGED res
  BY DEF vars, LoseQueued, ForgetSeen
<1> QED
  BY <1>1, <1>2, <1>3, <1>4, <1>5, <1>6, ResolveStepKeepsClaims, FailKeepsClaims, TimeKeepsClaims,
     IdleKeepsClaims DEF Next, Tick

-----------------------------------------------------------------------------
(* The consumers' place in the log.                                        *)

HandlerInv(c) == HandlerOnLog(c) /\ HandledAudited(c) /\ ReadIsCurrent(c)

\* Nothing that was written is taken back.
Grows == log' = log /\ audit \subseteq audit' /\ reviews \subseteq reviews'

LEMMA FiledGrows ==
  ASSUME NEW items
  PROVE  reviews \subseteq Filed(items)
BY DEF Filed

\* Consumer c is where it was, and knows of its order's row what it knew.
HandlerKept(c) ==
  /\ cons'[c].pc = cons[c].pc /\ cons'[c].at = cons[c].at
  /\ cons'[c].status = cons[c].status /\ cons'[c].view = cons[c].view
  /\ (cons[c].pc \in {"view", "apply"} /\ ~(\E a \in audit' : a.id = IdAt(c))) =>
       /\ rows'[OrderAt(c)] = Null <=> rows[OrderAt(c)] = Null
       /\ \/ cons'[c].moved
          \/ ~cons[c].moved /\ (rows[OrderAt(c)] # Null =>
                                  rows'[OrderAt(c)].status = rows[OrderAt(c)].status)

\* The row is written, and consumer c that read it is told.
RowStays(c) ==
  /\ rows'[OrderAt(c)] = Null <=> rows[OrderAt(c)] = Null
  /\ \/ cons'[c].moved
     \/ ~cons[c].moved /\ (rows[OrderAt(c)] # Null =>
                             rows'[OrderAt(c)].status = rows[OrderAt(c)].status)

\* Consumer c is where it was, and is told of every write to the row it read.
HandlerTold(c) ==
  /\ cons'[c].pc = cons[c].pc /\ cons'[c].at = cons[c].at
  /\ cons'[c].status = cons[c].status /\ cons'[c].view = cons[c].view
  /\ cons[c].pc \in {"view", "apply"} => RowStays(c)

LEMMA ToldIsKept ==
  ASSUME NEW c \in Consumers, HandlerTold(c)
  PROVE  HandlerKept(c)
BY DEF HandlerTold, HandlerKept, RowStays

LEMMA OtherHandler ==
  ASSUME NEW c \in Consumers, HandlerInv(c), Grows, HandlerKept(c),
         committed \in Nat, committed' \in Nat, committed' >= committed, Len(log) \in Nat,
         owner' = c => owner = c /\ committed' = committed
  PROVE  HandlerInv(c)'
<1>1. HandlerOnLog(c)'
  BY DEF HandlerInv, HandlerOnLog, HandlerHasEvent, HandlerKept, Grows
<1>2. HandledAudited(c)'
  BY DEF HandlerInv, HandledAudited, HandlerKept, Grows, Audited, IdAt
<1>3. ReadIsCurrent(c)'
  BY DEF HandlerInv, ReadIsCurrent, HandlerKept, Grows, Audited, IdAt, OrderAt
<1> QED
  BY <1>1, <1>2, <1>3 DEF HandlerInv

LEMMA CommittedKept ==
  ASSUME CommittedIsAudited, Grows, committed' = committed,
         \A id \in seen' : id \in seen \/ Audited(id)'
  PROVE  CommittedIsAudited'
BY DEF CommittedIsAudited, Grows, Audited

\* An event in hand that is not audited is the next one to commit.
LEMMA UnauditedIsNext ==
  ASSUME TypeOK, CommittedIsAudited, NEW c \in Consumers, HandlerOnLog(c),
         cons[c].pc \in {"row", "view", "apply"}, ~Audited(IdAt(c))
  PROVE  cons[c].at = committed + 1
<1>1. cons[c].at \in 1..Len(log) /\ cons[c].at <= committed + 1 /\ log[cons[c].at] # Null
  BY DEF HandlerOnLog, HandlerHasEvent
<1>2. committed \in Nat /\ Len(log) \in Nat
  BY LogType DEF TypeOK
<1>3. cons[c].at \notin 1..committed
  BY <1>1 DEF CommittedIsAudited, IdAt
<1> QED
  BY <1>1, <1>2, <1>3

LEMMA ApplyLog ==
  ASSUME TypeOK, HandlersOnLog, HandledIsAudited, CommittedIsAudited, ReadsAreCurrent,
         NEW c \in Consumers, Apply(c)
  PROVE  (\A x \in Consumers : HandlerInv(x)') /\ CommittedIsAudited'
<1> DEFINE h      == cons[c]
           o      == OrderAt(c)
           result == Evaluate(log[h.at], h.view, h.status, FALSE)
           d      == result.decision
           moves  == PointerMoves(d, rows[o], h)
           marked == [IdleHandler EXCEPT !.pc = "mark", !.at = h.at]
           done   == IF d.action = "ARM_RECHECK" /\ moves
                     THEN [marked EXCEPT !.push = TRUE, !.left = h.left] ELSE marked
           a      == Entry(IdAt(c), o, d.action, h.status, OrElse(d.new, h.status))
<1>1. h.pc = "apply" /\ h.at \in 1..Len(log) /\ h.at <= committed + 1 /\ log[h.at] # Null
      /\ (owner = c => h.at = committed + 1)
  BY DEF Apply, ApplyAs, HandlersOnLog, HandlerOnLog, HandlerHasEvent
<1>2. marked.pc = "mark" /\ marked.at = h.at /\ done.pc = "mark" /\ done.at = h.at
  BY DEF IdleHandler
<1>3. UNCHANGED <<seen, log, committed, owner>> /\ committed \in Nat /\ Len(log) \in Nat
  <2>1. UNCHANGED <<redisVars, kafkaVars>>
    BY Zenon DEF Apply, ApplyAs
  <2> QED
    BY <2>1, LogType DEF redisVars, kafkaVars, TypeOK
<1>4. \A x \in Consumers : HandlerInv(x)
  BY DEF HandlersOnLog, HandledIsAudited, ReadsAreCurrent, HandlerInv
<1>5. ASSUME NEW s, cons'[c] = s, s.pc = "mark", s.at = h.at, \E b \in audit' : b.id = IdAt(c)
      PROVE  HandlerInv(c)'
  BY <1>1, <1>3, <1>5 DEF HandlerInv, HandlerOnLog, HandlerHasEvent, HandledAudited, ReadIsCurrent, Audited, IdAt
<1>6. CASE Replay(IdAt(c))
  <2>1. cons' = [cons EXCEPT ![c] = marked] /\ UNCHANGED dbVars
    BY <1>6, Zenon DEF Apply, ApplyAs, Overtaken, IdAt
  <2> HIDE DEF marked, done
  <2>2. Grows /\ CommittedIsAudited'
    BY <1>3, <2>1, CommittedKept DEF Grows, dbVars
  <2>3. HandlerInv(c)'
    BY <1>2, <1>5, <1>6, <2>1 DEF Replay, TypeOK, dbVars
  <2>4. ASSUME NEW x \in Consumers, x # c PROVE HandlerInv(x)'
    <3>1. cons'[x] = cons[x] /\ rows' = rows
      BY <2>1, <2>4 DEF TypeOK, dbVars
    <3>2. HandlerKept(x)
      BY <3>1, HandlerType DEF HandlerKept
    <3> QED
      BY <1>3, <1>4, <2>2, <3>2, OtherHandler
  <2> QED
    BY <2>2, <2>3, <2>4
<1>7. CASE ~Replay(IdAt(c))
  <2>1. /\ audit' = audit \cup {a}
        /\ reviews' = IF d.review = Null THEN reviews ELSE Filed({Review(IdAt(c), o, d.review)})
        /\ cons' = [(IF moves THEN Overtaken(c, o) ELSE cons) EXCEPT ![c] = done]
    BY <1>7, Zenon DEF Apply, ApplyAs, Overtaken, IdAt, OrderAt
  <2>2. a.id = IdAt(c)
    BY DEF Entry
  <2> HIDE DEF marked, done, a, moves, d, result, o
  <2>3. Grows /\ CommittedIsAudited'
    BY <1>3, <2>1, FiledGrows, CommittedKept DEF Grows
  <2>4. cons'[c] = done
    BY <2>1, OvertakenType DEF TypeOK
  <2>5. HandlerInv(c)'
    BY <1>2, <1>5, <2>1, <2>2, <2>4
  <2>6. ASSUME NEW x \in Consumers, x # c PROVE HandlerInv(x)'
    <3>1. cons'[x] = cons[x] \/ cons'[x] = [cons[x] EXCEPT !.moved = TRUE]
      BY <2>1, <2>6, OvertakenType DEF Overtaken, Told, TypeOK
    <3>2. cons'[x].pc = cons[x].pc /\ cons'[x].at = cons[x].at
          /\ cons'[x].status = cons[x].status /\ cons'[x].view = cons[x].view
      BY <3>1, HandlerType DEF Handler
    <3>3. ASSUME cons[x].pc \in {"view", "apply"} PROVE \E b \in audit' : b.id = IdAt(x)
      <4>1. CASE Audited(IdAt(x))
        BY <2>1, <4>1 DEF Audited
      <4>2. CASE ~Audited(IdAt(x))
        <5>1. cons[x].at = committed + 1 /\ h.at = committed + 1
          BY <1>1, <1>4, <1>7, <3>3, <4>2, UnauditedIsNext DEF HandlerInv, Replay, Audited
        <5> QED
          BY <2>1, <2>2, <5>1 DEF IdAt
      <4> QED
        BY <4>1, <4>2
    <3>4. HandlerKept(x)
      BY <3>2, <3>3 DEF HandlerKept
    <3> QED
      BY <1>3, <1>4, <2>3, <3>4, OtherHandler
  <2> QED
    BY <2>3, <2>5, <2>6
<1> QED
  BY <1>6, <1>7

\* One consumer moves and no row does.
LEMMA OneHandles ==
  ASSUME TypeOK, HandlersOnLog, HandledIsAudited, ReadsAreCurrent, Grows, UNCHANGED rows,
         NEW c \in Consumers, NEW s, cons' = [cons EXCEPT ![c] = s], HandlerInv(c)',
         committed' \in Nat, committed' >= committed,
         \A x \in Consumers \ {c} : owner' = x => owner = x /\ committed' = committed
  PROVE  \A x \in Consumers : HandlerInv(x)'
<1>1. committed \in Nat /\ Len(log) \in Nat
  BY LogType DEF TypeOK
<1> SUFFICES ASSUME NEW x \in Consumers, x # c PROVE HandlerInv(x)'
  OBVIOUS
<1>2. HandlerInv(x)
  BY DEF HandlersOnLog, HandledIsAudited, ReadsAreCurrent, HandlerInv
<1>3. cons'[x] = cons[x]
  BY DEF TypeOK
<1>4. HandlerKept(x)
  BY <1>3, HandlerType DEF HandlerKept
<1> QED
  BY <1>1, <1>2, <1>4, OtherHandler

LEMMA ConsumerLog ==
  ASSUME TypeOK, HandlersOnLog, HandledIsAudited, CommittedIsAudited, ReadsAreCurrent,
         NEW c \in Consumers,
         ConsumerStep(c) \/ Assign(c) \/ CrashConsumer(c) \/ Rebalance(c)
  PROVE  (\A x \in Consumers : HandlerInv(x)') /\ CommittedIsAudited'
<1> USE DEF dbVars, redisVars, kafkaVars
<1>1. HandlerInv(c) /\ committed \in Nat /\ Len(log) \in Nat
  BY LogType DEF HandlersOnLog, HandledIsAudited, ReadsAreCurrent, HandlerInv, TypeOK
<1>2. ASSUME NEW s, cons' = [cons EXCEPT ![c] = s], UNCHANGED <<rows, committed, log>>,
             Grows, HandlerInv(c)', \A id \in seen' : id \in seen \/ Audited(id)',
             \A x \in Consumers \ {c} : owner' = x => owner = x
      PROVE  (\A x \in Consumers : HandlerInv(x)') /\ CommittedIsAudited'
  <2>1. committed' \in Nat /\ committed' >= committed
        /\ \A x \in Consumers \ {c} : owner' = x => owner = x /\ committed' = committed
    BY <1>1, <1>2
  <2>2. \A x \in Consumers : HandlerInv(x)'
    <3> HIDE DEF dbVars, redisVars, kafkaVars
    <3> QED
      BY <1>2, <2>1, OneHandles
  <2>3. CommittedIsAudited'
    BY <1>2, CommittedKept
  <2> QED
    BY <2>2, <2>3
<1>3. CASE FileMalformed(c)
  <2> DEFINE s == [IdleHandler EXCEPT !.pc = "commit", !.at = committed + 1]
             v == Review(MalformedId(committed + 1), Null, "unusable_envelope")
  <2>1. /\ cons' = [cons EXCEPT ![c] = s] /\ reviews' = Filed({v})
        /\ UNCHANGED <<rows, audit, seen, log, committed, owner>>
        /\ log[committed + 1] = Null /\ owner = c
    BY <1>3 DEF FileMalformed, NextAt
  <2>2. s.pc = "commit" /\ s.at = committed + 1 /\ v.id = MalformedId(committed + 1)
    BY DEF IdleHandler, Review
  <2>3. committed + 1 \in 1..Len(log)
    BY <1>3, NextMessage DEF FileMalformed
  <2> HIDE DEF s, v
  <2>4. cons'[c] = s
    BY <2>1 DEF TypeOK
  <2>5. \E w \in reviews' : w.id = MalformedId(committed + 1)
    BY <2>1, <2>2 DEF Filed
  <2>6. HandlerInv(c)'
    BY <2>1, <2>2, <2>3, <2>4, <2>5 DEF HandlerInv, HandlerOnLog, HandlerHasEvent, HandledAudited, ReadIsCurrent
  <2> QED
    BY <1>2, <2>1, <2>6, FiledGrows DEF Grows
<1>4. CASE SkipSeen(c)
  <2> DEFINE s == [IdleHandler EXCEPT !.pc = "commit", !.at = committed + 1]
  <2>1. /\ cons' = [cons EXCEPT ![c] = s]
        /\ UNCHANGED <<rows, audit, reviews, seen, log, committed, owner>>
        /\ log[committed + 1] # Null /\ owner = c /\ log[committed + 1].id \in seen
    BY <1>4 DEF SkipSeen, NextAt
  <2>2. s.pc = "commit" /\ s.at = committed + 1
    BY DEF IdleHandler
  <2>3. committed + 1 \in 1..Len(log)
    BY <1>4, NextMessage DEF SkipSeen
  <2> HIDE DEF s
  <2>4. cons'[c] = s
    BY <2>1 DEF TypeOK
  <2>5. Audited(log[committed + 1].id)
    BY <2>1 DEF CommittedIsAudited
  <2>6. HandlerInv(c)'
    BY <2>1, <2>2, <2>3, <2>4, <2>5
       DEF HandlerInv, HandlerOnLog, HandlerHasEvent, HandledAudited, ReadIsCurrent, Audited, IdAt
  <2> QED
    BY <1>2, <2>1, <2>6 DEF Grows
<1>5. CASE StartEvent(c)
  <2> DEFINE s == [IdleHandler EXCEPT !.pc = "row", !.at = committed + 1]
  <2>1. /\ cons' = [cons EXCEPT ![c] = s]
        /\ UNCHANGED <<rows, audit, reviews, seen, log, committed, owner>>
        /\ log[committed + 1] # Null /\ owner = c
    BY <1>5 DEF StartEvent, NextAt
  <2>2. s.pc = "row" /\ s.at = committed + 1
    BY DEF IdleHandler
  <2>3. committed + 1 \in 1..Len(log)
    BY <1>5, NextMessage DEF StartEvent
  <2> HIDE DEF s
  <2>4. cons'[c] = s
    BY <2>1 DEF TypeOK
  <2>5. HandlerInv(c)'
    BY <2>1, <2>2, <2>3, <2>4 DEF HandlerInv, HandlerOnLog, HandlerHasEvent, HandledAudited, ReadIsCurrent
  <2> QED
    BY <1>2, <2>1, <2>5 DEF Grows
<1>6. CASE ReadRow(c)
  <2> DEFINE r == rows[OrderAt(c)]
             s == [cons[c] EXCEPT !.pc = "view", !.status = IF r = Null THEN Null ELSE r.status]
  <2>1. /\ cons' = [cons EXCEPT ![c] = s] /\ cons[c].pc = "row"
        /\ UNCHANGED <<rows, audit, reviews, seen, log, committed, owner>>
    BY <1>6 DEF ReadRow, OrderAt
  <2>2. s.pc = "view" /\ s.at = cons[c].at /\ s.status = IF r = Null THEN Null ELSE r.status
    BY HandlerType DEF Handler
  <2>3. r \in Row \cup {Null}
    BY <2>1, EventAt, HaveEvents DEF TypeOK
  <2>4. r # Null => r.status # Null
    BY <2>3, StatusType DEF Row
  <2> HIDE DEF s
  <2>5. cons'[c] = s
    BY <2>1 DEF TypeOK
  <2>6. HandlerOnLog(c)' /\ HandledAudited(c)'
    BY <1>1, <2>1, <2>2, <2>5 DEF HandlerInv, HandlerOnLog, HandlerHasEvent, HandledAudited
  <2>7. ReadIsCurrent(c)'
    BY <2>1, <2>2, <2>4, <2>5 DEF ReadIsCurrent, OrderAt
  <2> QED
    BY <1>2, <2>1, <2>6, <2>7 DEF Grows, HandlerInv
<1>7. CASE ReadView(c)
  <2> DEFINE v == OrElse(views[OrderAt(c)], EmptyView)
             s == [cons[c] EXCEPT !.pc = "apply", !.view = v]
  <2>1. /\ cons' = [cons EXCEPT ![c] = s] /\ cons[c].pc = "view"
        /\ UNCHANGED <<rows, audit, reviews, seen, log, committed, owner>>
    BY <1>7 DEF ReadView, OrderAt
  <2>2. s.pc = "apply" /\ s.at = cons[c].at /\ s.status = cons[c].status
        /\ s.moved = cons[c].moved /\ s.view = v
    BY HandlerType DEF Handler
  <2>3. v \in View
    BY <2>1, EventAt, HaveEvents DEF TypeOK, OrElse, EmptyView, View
  <2> HIDE DEF s, v
  <2>4. cons'[c] = s
    BY <2>1 DEF TypeOK
  <2>5. HandlerOnLog(c)' /\ HandledAudited(c)'
    BY <1>1, <2>1, <2>2, <2>3, <2>4 DEF HandlerInv, HandlerOnLog, HandlerHasEvent, HandledAudited
  <2>6. ReadIsCurrent(c)'
    BY <1>1, <2>1, <2>2, <2>4 DEF HandlerInv, ReadIsCurrent, OrderAt, IdAt, Audited
  <2> QED
    BY <1>2, <2>1, <2>5, <2>6 DEF Grows, HandlerInv
<1>8. CASE Apply(c)
  BY <1>8, ApplyLog
<1>9. CASE MarkSeen(c)
  <2> DEFINE s == [cons[c] EXCEPT !.pc = IF cons[c].push THEN "push" ELSE "commit"]
  <2>1. /\ cons' = [cons EXCEPT ![c] = s] /\ cons[c].pc = "mark"
        /\ UNCHANGED <<rows, audit, reviews, log, committed, owner>>
        /\ seen' \subseteq seen \cup {IdAt(c)}
    BY <1>9 DEF MarkSeen, IdAt
  <2>2. s.pc \in {"push", "commit"} /\ s.at = cons[c].at
    BY HandlerType DEF Handler
  <2> HIDE DEF s
  <2>3. cons'[c] = s
    BY <2>1 DEF TypeOK
  <2>4. Audited(IdAt(c)) /\ Audited(IdAt(c))'
    BY <1>1, <2>1, <2>2, <2>3 DEF HandlerInv, HandledAudited, Audited, IdAt
  <2>5. HandlerInv(c)'
    BY <1>1, <2>1, <2>2, <2>3, <2>4
       DEF HandlerInv, HandlerOnLog, HandlerHasEvent, HandledAudited, ReadIsCurrent, IdAt
  <2>6. \A id \in seen' : id \in seen \/ Audited(id)'
    BY <2>1, <2>4 DEF Audited
  <2> QED
    BY <1>2, <2>1, <2>5, <2>6 DEF Grows
<1>10. CASE Push(c)
  <2> DEFINE s == [IdleHandler EXCEPT !.pc = "commit", !.at = cons[c].at]
  <2>1. /\ cons' = [cons EXCEPT ![c] = s] /\ cons[c].pc = "push"
        /\ UNCHANGED <<rows, audit, reviews, seen, log, committed, owner>>
    BY <1>10 DEF Push
  <2>2. s.pc = "commit" /\ s.at = cons[c].at
    BY DEF IdleHandler
  <2> HIDE DEF s
  <2>3. cons'[c] = s
    BY <2>1 DEF TypeOK
  <2>4. HandlerInv(c)'
    BY <1>1, <2>1, <2>2, <2>3
       DEF HandlerInv, HandlerOnLog, HandlerHasEvent, HandledAudited, ReadIsCurrent, IdAt, Audited
  <2> QED
    BY <1>2, <2>1, <2>4 DEF Grows
<1>11. CASE Commit(c)
  <2>1. /\ cons' = [cons EXCEPT ![c] = IdleHandler] /\ cons[c].pc = "commit"
        /\ UNCHANGED <<rows, audit, reviews, seen, log, owner>>
        /\ committed' = IF owner = c THEN cons[c].at ELSE committed
    BY <1>11 DEF Commit
  <2>2. cons[c].at \in 1..Len(log) /\ (owner = c => cons[c].at = committed + 1)
    BY <1>1, <2>1 DEF HandlerInv, HandlerOnLog, HandlerHasEvent
  <2>3. cons'[c] = IdleHandler /\ IdleHandler.pc = "idle"
    BY <2>1 DEF TypeOK, IdleHandler
  <2>4. HandlerInv(c)'
    BY <2>3 DEF HandlerInv, HandlerOnLog, HandlerHasEvent, HandledAudited, ReadIsCurrent
  <2>5. committed' \in Nat /\ committed' >= committed
        /\ \A x \in Consumers \ {c} : owner' = x => owner = x /\ committed' = committed
    BY <1>1, <2>1, <2>2
  <2>6. \A x \in Consumers : HandlerInv(x)'
    BY <2>1, <2>4, <2>5, OneHandles DEF Grows
  <2>7. CommittedIsAudited'
    <3>1. ASSUME NEW i \in 1..committed'
          PROVE  IF log[i] = Null THEN \E v \in reviews : v.id = MalformedId(i)
                 ELSE Audited(log[i].id)
      <4>1. CASE i \in 1..committed
        BY <4>1 DEF CommittedIsAudited
      <4>2. CASE i \notin 1..committed
        <5>1. i = cons[c].at
          BY <1>1, <2>1, <2>2, <4>2
        <5> QED
          BY <1>1, <2>1, <5>1 DEF HandlerInv, HandledAudited, IdAt
      <4> QED
        BY <4>1, <4>2
    <3> QED
      BY <2>1, <3>1 DEF CommittedIsAudited, Audited
  <2> QED
    BY <2>6, <2>7
<1>12. CASE StopOnMessage(c) \/ Assign(c) \/ CrashConsumer(c) \/ Rebalance(c)
  <2>1. UNCHANGED <<rows, audit, reviews, seen, log, committed>>
    BY <1>12 DEF StopOnMessage, Assign, CrashConsumer, Rebalance
  <2>2. \E s : s.pc = "idle" /\ cons' = [cons EXCEPT ![c] = s]
    <3>1. CASE CrashConsumer(c)
      BY <3>1 DEF CrashConsumer, IdleHandler
    <3>2. CASE StopOnMessage(c) \/ Assign(c) \/ Rebalance(c)
      BY <3>2 DEF StopOnMessage, NextAt, Assign, Rebalance, TypeOK
    <3> QED
      BY <1>12, <3>1, <3>2
  <2>3. PICK s : s.pc = "idle" /\ cons' = [cons EXCEPT ![c] = s]
    BY <2>2
  <2>4. HandlerInv(c)'
    BY <2>3 DEF TypeOK, HandlerInv, HandlerOnLog, HandlerHasEvent, HandledAudited, ReadIsCurrent
  <2>5. \A x \in Consumers \ {c} : owner' = x => owner = x
    BY <1>12, NullColumnAssumption DEF StopOnMessage, Assign, CrashConsumer, Rebalance
  <2> QED
    BY <1>2, <2>1, <2>3, <2>4, <2>5 DEF Grows
<1> QED
  BY <1>3, <1>4, <1>5, <1>6, <1>7, <1>8, <1>9, <1>10, <1>11, <1>12 DEF ConsumerStep

\* The rows in S are written, and every consumer that read one is told.
LEMMA WrittenKept ==
  ASSUME TypeOK, HandlersHaveEvents, \A o \in Orders : OrderStep(o),
         NEW S, \A o \in Orders : IF o \in S THEN rows[o] # Null ELSE rows'[o] = rows[o],
         \A c \in Consumers :
           cons'[c] = IF cons[c].pc \in {"view", "apply"} /\ OrderAt(c) \in S
                      THEN [cons[c] EXCEPT !.moved = TRUE] ELSE cons[c]
  PROVE  \A c \in Consumers : HandlerTold(c)
<1> SUFFICES ASSUME NEW c \in Consumers PROVE HandlerTold(c)
  OBVIOUS
<1>1. cons[c].pc \in {"view", "apply"} => OrderAt(c) \in Orders
  BY EventAt
<1>2. CASE cons[c].pc \in {"view", "apply"} /\ OrderAt(c) \in S
  <2>1. cons'[c].pc = cons[c].pc /\ cons'[c].at = cons[c].at /\ cons'[c].status = cons[c].status
        /\ cons'[c].view = cons[c].view /\ cons'[c].moved
    BY <1>2, HandlerType DEF Handler
  <2>2. rows[OrderAt(c)] # Null /\ rows'[OrderAt(c)] # Null
    BY <1>1, <1>2, Monotone
  <2> QED
    BY <2>1, <2>2 DEF HandlerTold, RowStays
<1>3. CASE ~(cons[c].pc \in {"view", "apply"} /\ OrderAt(c) \in S)
  <2>1. cons'[c] = cons[c]
    BY <1>3
  <2>2. cons[c].pc \in {"view", "apply"} => rows'[OrderAt(c)] = rows[OrderAt(c)]
    BY <1>1, <1>3
  <2> QED
    BY <2>1, <2>2, HandlerType DEF HandlerTold, RowStays
<1> QED
  BY <1>2, <1>3

LEMMA OneWritten ==
  ASSUME TypeOK, HandlersHaveEvents, \A x \in Orders : OrderStep(x), NEW o \in Orders, NEW q,
         rows' = [rows EXCEPT ![o] = q], rows[o] # Null, cons' = Overtaken(Null, o)
  PROVE  \A c \in Consumers : HandlerTold(c)
<1>1. \A x \in Orders : IF x \in {o} THEN rows[x] # Null ELSE rows'[x] = rows[x]
  BY DEF TypeOK
<1>2. \A c \in Consumers :
        cons'[c] = IF cons[c].pc \in {"view", "apply"} /\ OrderAt(c) \in {o}
                   THEN [cons[c] EXCEPT !.moved = TRUE] ELSE cons[c]
  BY NullColumnAssumption DEF Overtaken, Told, OrderAt
<1> QED
  BY <1>1, <1>2, WrittenKept

LEMMA NoneWritten ==
  ASSUME TypeOK, UNCHANGED <<rows, cons>>
  PROVE  \A c \in Consumers : HandlerTold(c)
BY HandlerType DEF HandlerTold, RowStays

\* No step of a resolver, of the watchdog or of time moves a consumer or goes
\* unnoticed by one that read the row.
LEMMA ResolverKeepsHandlers ==
  ASSUME TypeOK, HandlersHaveEvents, ResolversOnOrders, \A o \in Orders : OrderStep(o),
         NEW r \in Resolvers, ResolveStep(r)
  PROVE  (\A c \in Consumers : HandlerTold(c)) /\ reviews \subseteq reviews'
<1> USE DEF dbVars
<1>1. ASSUME NEW o \in Orders, Claim(r, o)
      PROVE  (\A c \in Consumers : HandlerTold(c)) /\ reviews \subseteq reviews'
  <2>1. CASE CanClaim(rows[o])
    BY <1>1, <2>1, OneWritten DEF Claim, CanClaim
  <2>2. CASE ~CanClaim(rows[o])
    BY <1>1, <2>2, NoneWritten DEF Claim
  <2> QED
    BY <2>1, <2>2
<1>2. CASE ReadOrder(r) \/ FinishStolen(r) \/ Requeue(r) \/ Drop(r)
  BY <1>2, NoneWritten DEF ReadOrder, FinishStolen, Requeue, Drop
<1> DEFINE o == res[r].order
           d == EvaluateRecheck(RecheckId(o, res[r].token), o, res[r].view).decision
<1>3. CASE FinishResolved(r)
  <2> DEFINE q == Completed(rows[o], d.new)
  <2>1. rows' = [rows EXCEPT ![o] = q] /\ cons' = Overtaken(Null, o) /\ UNCHANGED reviews
        /\ res[r].pc = "finish" /\ Holds(rows[o], res[r].token)
    BY <1>3, Zenon DEF FinishResolved
  <2>2. rows[o] # Null /\ o \in Orders
    BY <2>1 DEF Holds, ResolversOnOrders, ResolverOnOrder
  <2> HIDE DEF q, d, o
  <2> QED
    BY <2>1, <2>2, OneWritten
<1>4. CASE FinishUnresolved(r)
  <2> DEFINE q     == Rearmed(rows[o], IF d.rearm THEN res[r].left ELSE RecheckDelay)
             items == {Review(RecheckId(o, res[r].token), o, "dead_letter")}
  <2>1. /\ rows' = [rows EXCEPT ![o] = q] /\ cons' = Overtaken(Null, o)
        /\ reviews' = IF Spent(rows[o]) THEN Filed(items) ELSE reviews
        /\ res[r].pc = "finish" /\ Holds(rows[o], res[r].token)
    BY <1>4, Zenon DEF FinishUnresolved
  <2>2. rows[o] # Null /\ o \in Orders
    BY <2>1 DEF Holds, ResolversOnOrders, ResolverOnOrder
  <2> HIDE DEF q, d, o, items
  <2>3. reviews \subseteq reviews'
    BY <2>1, FiledGrows
  <2> QED
    BY <2>1, <2>2, <2>3, OneWritten
<1> QED
  BY <1>1, <1>2, <1>3, <1>4 DEF ResolveStep

LEMMA SweepKeepsHandlers ==
  ASSUME TypeOK, HandlersHaveEvents, \A o \in Orders : OrderStep(o), ReclaimStuck
  PROVE  (\A c \in Consumers : HandlerTold(c)) /\ reviews \subseteq reviews'
<1> DEFINE stuck == {o \in Orders : Stuck(rows[o])}
           items == {Review(Null, o, "dead_letter") : o \in {x \in stuck : Spent(rows[x])}}
<1>1. \A o \in Orders : IF o \in stuck THEN rows[o] # Null ELSE rows'[o] = rows[o]
  BY DEF ReclaimStuck, Stuck
<1>2. \A c \in Consumers :
        cons'[c] = IF cons[c].pc \in {"view", "apply"} /\ OrderAt(c) \in stuck
                   THEN [cons[c] EXCEPT !.moved = TRUE] ELSE cons[c]
  BY DEF ReclaimStuck, OrderAt
<1>3. reviews' = Filed(items)
  BY Zenon DEF ReclaimStuck
<1> HIDE DEF stuck, items
<1> QED
  BY <1>1, <1>2, <1>3, WrittenKept, FiledGrows

LEMMA TimeKeepsHandlers ==
  ASSUME TypeOK, HandlersHaveEvents, TimePasses
  PROVE  \A c \in Consumers : HandlerTold(c)
<1> SUFFICES ASSUME NEW c \in Consumers PROVE HandlerTold(c)
  OBVIOUS
<1>1. cons'[c] = cons[c] \/ cons'[c] = [cons[c] EXCEPT !.left = Sooner(@)]
  BY DEF TimePasses
<1>2. cons'[c].pc = cons[c].pc /\ cons'[c].at = cons[c].at /\ cons'[c].status = cons[c].status
      /\ cons'[c].view = cons[c].view /\ cons'[c].moved = cons[c].moved
  BY <1>1, HandlerType DEF Handler
<1>3. ASSUME cons[c].pc \in {"view", "apply"} PROVE Same(rows[OrderAt(c)], rows'[OrderAt(c)])
  <2>1. OrderAt(c) \in Orders
    BY <1>3, EventAt
  <2> QED
    BY <2>1, OlderSame DEF TimePasses, TypeOK
<1> QED
  BY <1>2, <1>3, HandlerType DEF HandlerTold, RowStays, Same

LEMMA EnvironmentLog ==
  ASSUME TypeOK, HandlersOnLog, HandledIsAudited, CommittedIsAudited, ReadsAreCurrent,
         ResolversOnOrders, \A o \in Orders : OrderStep(o), AuditStep,
         \/ UNCHANGED vars \/ PollDue \/ SweepStuck \/ ListOrphans \/ Tick
         \/ \E r \in Resolvers : ResolveStep(r) \/ CrashResolver(r) \/ FailResolution(r)
         \/ (\E o \in Orders : LoseQueued(o)) \/ (\E id \in EventIds : ForgetSeen(id))
  PROVE  (\A c \in Consumers : HandlerInv(c)') /\ CommittedIsAudited'
<1> USE DEF dbVars, redisVars, kafkaVars
<1>1. UNCHANGED <<log, committed, owner>> /\ seen' \subseteq seen
  BY DEF vars, PollDue, SweepStuck, ReclaimStuck, ListOrphans, Tick, TimePasses, ResolveStep, Claim, ReadOrder, FinishStolen,
         FinishResolved, FinishUnresolved, Requeue, Drop, CrashResolver, FailResolution,
         LoseQueued, ForgetSeen
<1> HandlersHaveEvents
  BY HaveEvents
<1>2. (\A c \in Consumers : HandlerTold(c)) /\ reviews \subseteq reviews'
  <2>1. CASE SweepStuck
    BY <2>1, SweepKeepsHandlers DEF SweepStuck
  <2>2. CASE \E r \in Resolvers : ResolveStep(r)
    BY <2>2, ResolverKeepsHandlers
  <2>3. CASE Tick
    BY <2>3, TimeKeepsHandlers DEF Tick, TimePasses
  <2>4. CASE \/ UNCHANGED vars \/ PollDue \/ ListOrphans
             \/ \E r \in Resolvers : CrashResolver(r) \/ FailResolution(r)
             \/ (\E o \in Orders : LoseQueued(o)) \/ (\E id \in EventIds : ForgetSeen(id))
    BY <2>4, NoneWritten
       DEF vars, PollDue, ListOrphans, CrashResolver, FailResolution, LoseQueued, ForgetSeen
  <2> QED
    BY <2>1, <2>2, <2>3, <2>4
<1>3. Grows
  BY <1>1, <1>2 DEF Grows, AuditStep
<1>4. committed \in Nat /\ Len(log) \in Nat /\ \A c \in Consumers : HandlerInv(c)
  BY LogType DEF TypeOK, HandlersOnLog, HandledIsAudited, ReadsAreCurrent, HandlerInv
<1>5. \A c \in Consumers : HandlerInv(c)'
  <2> HIDE DEF dbVars, redisVars, kafkaVars
  <2> QED
    BY <1>1, <1>2, <1>3, <1>4, ToldIsKept, OtherHandler
<1> QED
  BY <1>1, <1>3, <1>5, CommittedKept

-----------------------------------------------------------------------------
(* The theorems.                                                           *)

LEMMA InitInv ==
  ASSUME Init
  PROVE  PipelineInv
<1>1. TypeOK
  BY InitType
<1>2. RetryBudget
  <2>1. Null \notin {"PENDING_RECHECK", "PROCESSING", "DEAD_LETTER"}
    BY NullAssumption DEF ReconStatus, TerminalStatuses
  <2> QED
    BY <2>1, PipelineAssumption DEF Init, RetryBudget, Retries, Status
<1>3. HandlersOnLog /\ HandledIsAudited /\ ReadsAreCurrent
  BY DEF Init, HandlersOnLog, HandlerOnLog, HandlerHasEvent, HandledIsAudited, HandledAudited, ReadsAreCurrent,
         ReadIsCurrent, IdleHandler
<1>4. CommittedIsAudited
  BY DEF Init, CommittedIsAudited
<1>5. ResolversOnOrders /\ TokensDiffer
  BY DEF Init, ResolversOnOrders, ResolverOnOrder, TokensDiffer, IdleResolution
<1>6. TokenIsLatest /\ SystemEndingHolds /\ OneSystemResolution
  BY DEF Init, TokenIsLatest, SystemEndingHolds, OneSystemResolution, SystemAudit
<1> QED
  BY <1>1, <1>2, <1>3, <1>4, <1>5, <1>6 DEF PipelineInv, StoreInv

\* What is left of a step of the tables once the resolvers' claims are known kept.
LEMMA StoreKept ==
  ASSUME StoreInv, TypeOK', AuditStep, \A o \in Orders : OrderStep(o),
         ResolversOnOrders', TokensDiffer'
  PROVE  StoreInv'
<1>1. RetryBudget' /\ TokenIsLatest'
  BY BudgetKept, TokenKept DEF StoreInv
<1>2. SystemEndingHolds' /\ OneSystemResolution'
  BY EndingKept DEF StoreInv
<1> QED
  BY <1>1, <1>2 DEF StoreInv

LEMMA NextInv ==
  ASSUME PipelineInv, [Next]_vars
  PROVE  PipelineInv' /\ AuditStep /\ \A o \in Orders : OrderStep(o)
<1> USE DEF PipelineInv
<1>1. HandlersHaveEvents
  BY HaveEvents
<1>2. \A o \in Orders : OrderStep(o)
  BY OrderSteps DEF StoreInv
<1>3. AuditStep
  BY <1>1, AuditSteps DEF StoreInv
<1>4. ResolversOnOrders' /\ TokensDiffer'
  BY <1>2, ClaimsKept DEF StoreInv
<1>5. StoreInv'
  BY <1>1, <1>2, <1>3, <1>4, NextType, StoreKept DEF StoreInv
<1>6. (\A c \in Consumers : HandlerInv(c)') /\ CommittedIsAudited'
  BY <1>2, <1>3, ConsumerLog, EnvironmentLog DEF Next, StoreInv
<1>7. HandlersOnLog' /\ HandledIsAudited' /\ ReadsAreCurrent'
  BY <1>6 DEF HandlerInv, HandlersOnLog, HandledIsAudited, ReadsAreCurrent
<1> QED
  BY <1>2, <1>3, <1>5, <1>6, <1>7

\* A fencing token is live for one holder at a time.
LEMMA StoreFenced ==
  ASSUME StoreInv
  PROVE  ClaimsFenced
<1> SUFFICES ASSUME NEW o \in Orders
             PROVE  /\ rows[o] # Null => (rows[o].status = "PROCESSING" <=> rows[o].token # Null)
                    /\ \A r \in Resolvers :
                         (res[r].pc \in {"read", "finish"} /\ res[r].order = o) =>
                            /\ rows[o] # Null /\ res[r].token <= claims[o]
                            /\ \A q \in Resolvers \ {r} :
                                 (res[q].pc \in {"read", "finish"} /\ res[q].order = o)
                                   => res[q].token # res[r].token
  BY DEF ClaimsFenced
<1>1. rows[o] # Null => (rows[o].status = "PROCESSING" <=> rows[o].token # Null)
  BY DEF StoreInv, TokenIsLatest
<1>2. ASSUME NEW r \in Resolvers, res[r].pc \in {"read", "finish"}, res[r].order = o
      PROVE  rows[o] # Null /\ res[r].token <= claims[o]
  <2>1. res[r].token \in 1..claims[o] /\ claims[o] \in Nat /\ rows[o] # Null
    BY <1>2 DEF StoreInv, ResolversOnOrders, ResolverOnOrder, TypeOK
  <2> QED
    BY <2>1
<1> QED
  BY <1>1, <1>2 DEF StoreInv, TokensDiffer

LEMMA TerminalStays ==
  ASSUME \A o \in Orders : OrderStep(o), NEW o \in Orders, Status(o) \in TerminalStatuses
  PROVE  Status(o)' = Status(o) \/ Status(o)' = "DISPUTED"
<1>1. rows[o] # Null /\ rows[o].status \in TerminalStatuses
  BY StatusType DEF Status
<1>2. rows'[o] # Null /\ (rows'[o].status = rows[o].status \/ rows'[o].status = "DISPUTED")
  BY <1>1, TerminalKept
<1> QED
  BY <1>1, <1>2 DEF Status

LEMMA HolderReports ==
  ASSUME StoreInv, AuditStep, NEW o \in Orders, NEW t \in 1..claims[o],
         Audited(RecheckId(o, t))', ~Audited(RecheckId(o, t))
  PROVE  t = claims[o] /\ Status(o) = "PROCESSING"
<1>1. t \in Nat /\ claims[o] \in Nat
  BY DEF StoreInv, TypeOK
<1>2. PICK a \in audit' : a.id = RecheckId(o, t) /\ a \notin audit
  BY DEF Audited, RecheckId
<1>3. Holds(rows[o], t)
  BY <1>1, <1>2 DEF AuditStep
<1> QED
  BY <1>1, <1>3, NullColumnAssumption DEF Holds, Status, StoreInv, TokenIsLatest

LEMMA LifecycleStep ==
  ASSUME TypeOK, NEW o \in Orders, OrderStep(o)
  PROVE  Lifecycle!Step(o) \/ Lifecycle!Stays(o)
<1> USE DEF Status, Retries, Unclaimed
<1>1. Pointer(rows[o], claims[o], rows'[o], claims'[o])
  BY DEF OrderStep
<1>2. Null \notin ReconStatus
  BY StatusType
<1>3. CASE Same(rows[o], rows'[o])
  BY <1>3 DEF Same, Lifecycle!Stays
<1>4. CASE CreatedAs(rows[o], rows'[o])
  BY <1>4, <1>2 DEF CreatedAs, Lifecycle!Step, Lifecycle!Arm, Lifecycle!Dispute, Lifecycle!Moves,
                    ReconStatus
<1>5. CASE CaughtUp(rows[o], rows'[o])
  BY <1>5 DEF CaughtUp, Lifecycle!Step, Lifecycle!CatchUp, Lifecycle!Moves
<1>6. CASE DisputedBy(rows[o], rows'[o])
  BY <1>6 DEF DisputedBy, Lifecycle!Step, Lifecycle!Dispute, Lifecycle!Moves
<1>7. CASE EndedAs(rows[o], rows'[o])
  BY <1>7 DEF EndedAs, Lifecycle!Step, Lifecycle!Resolve, Lifecycle!Moves, Lifecycle!Resolved
<1>8. CASE RetriedAs(rows[o], rows'[o])
  <2>1. rows[o].retry \in Nat
    BY <1>8 DEF RetriedAs, TypeOK, Row
  <2> QED
    BY <1>8, <2>1, PipelineAssumption
       DEF RetriedAs, Lifecycle!Step, Lifecycle!Retry, Lifecycle!GiveUp, Lifecycle!Moves
<1>9. CASE ClaimedAs(rows[o], rows'[o], claims'[o])
  BY <1>9 DEF ClaimedAs, Lifecycle!Step, Lifecycle!Claim, Lifecycle!Moves
<1> QED
  BY <1>1, <1>3, <1>4, <1>5, <1>6, <1>7, <1>8, <1>9 DEF Pointer

\* The invariant every other result rests on.
THEOREM Invariance == Spec => []PipelineInv
<1>1. Init => PipelineInv
  BY InitInv
<1>2. PipelineInv /\ [Next]_vars => PipelineInv'
  BY NextInv
<1> QED
  BY <1>1, <1>2, PTL DEF Spec

\* The state of Postgres, Redis, Kafka and the processes is always well formed;
\* in particular no retry counter passes the ceiling and no row keeps a value
\* outside its column's domain.
THEOREM TypeCorrect == Spec => []TypeOK
<1>1. PipelineInv => TypeOK
  BY DEF PipelineInv, StoreInv
<1> QED
  BY <1>1, Invariance, PTL

\* However many workers stall, die and come back, each order is resolved or
\* given up by the recheck machinery at most once.
THEOREM ResolvedOnce == Spec => []OneSystemResolution
<1>1. PipelineInv => OneSystemResolution
  BY DEF PipelineInv, StoreInv
<1> QED
  BY <1>1, Invariance, PTL

\* The retry budget that the runner and the sweep share is never exceeded, and
\* an order that can still be claimed has some of it left.
THEOREM BudgetRespected == Spec => []RetryBudget
<1>1. PipelineInv => RetryBudget
  BY DEF PipelineInv, StoreInv
<1> QED
  BY <1>1, Invariance, PTL

\* A fencing token is live for one holder at a time.
THEOREM Fenced == Spec => []ClaimsFenced
<1>1. PipelineInv => ClaimsFenced
  BY StoreFenced DEF PipelineInv
<1> QED
  BY <1>1, Invariance, PTL

\* No message is skipped by crashes, redeliveries or rebalances: what the group
\* committed past, and what an idempotency key vouches for, was audited or filed.
THEOREM NothingSkipped == Spec => []CommittedIsAudited
<1>1. PipelineInv => CommittedIsAudited
  BY DEF PipelineInv
<1> QED
  BY <1>1, Invariance, PTL

\* No step takes an order out of a terminal status except into DISPUTED, however
\* stale the reads of the consumer that takes it.
THEOREM TerminalLocked == Spec => TerminalLock
<1>1. PipelineInv /\ [Next]_vars =>
        [\A o \in Orders : Status(o) \in TerminalStatuses =>
           Status(o)' = Status(o) \/ Status(o)' = "DISPUTED"]_vars
  BY NextInv, TerminalStays
<1> QED
  BY <1>1, Invariance, PTL DEF Spec, TerminalLock

\* A worker that lost its claim never records an outcome for it.
THEOREM OnlyHolders == Spec => OnlyHolderReports
<1>1. PipelineInv /\ [Next]_vars =>
        [\A o \in Orders : \A t \in 1..claims[o] :
           (Audited(RecheckId(o, t))' /\ ~Audited(RecheckId(o, t)))
             => t = claims[o] /\ Status(o) = "PROCESSING"]_vars
  BY NextInv, HolderReports DEF PipelineInv
<1> QED
  BY <1>1, Invariance, PTL DEF Spec, OnlyHolderReports

\* The pipeline implements the abstract lifecycle of an order.
THEOREM LifecycleImplemented == Spec => ImplementsLifecycle
<1>1. Init => Lifecycle!Init
  BY DEF Init, Lifecycle!Init, Status, Retries
<1>2. PipelineInv /\ [Next]_vars => [Lifecycle!Next]_(Lifecycle!lifecycleVars)
  BY NextInv, LifecycleStep DEF PipelineInv, StoreInv, Lifecycle!Next
<1> QED
  BY <1>1, <1>2, Invariance, PTL DEF Spec, ImplementsLifecycle, Lifecycle!Spec
=============================================================================
