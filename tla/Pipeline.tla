------------------------------ MODULE Pipeline ------------------------------
(***************************************************************************)
(* The reconciliation pipeline: the Kafka consumers (worker/consumer.py),  *)
(* the recheck runner (worker/recheck.py), the two Postgres sweeps         *)
(* (worker/sweep.py), the SQL they run (worker/state.py) and the Redis     *)
(* queue and idempotency keys, over one partition of the lifecycle topic.  *)
(*                                                                         *)
(* Every Postgres transaction of the resolvers is one step.  A consumer's  *)
(* transaction is three: read the row, read the view (READ COMMITTED gives *)
(* each statement its own snapshot), then all its writes, which other      *)
(* transactions see at its commit.  A crash before the commit leaves no    *)
(* trace.  Everything outside Postgres (Redis writes, offset commits) is a *)
(* step of its own.                                                        *)
(*                                                                         *)
(* Time.  A timestamp is kept as the time left until it (a deadline) or    *)
(* the time since it (an age), both cut off where nothing compares any     *)
(* further, so the clock needs no bound.  The optimistic guard             *)
(* updated_at <= last_seen_updated_at is kept as a flag: whether the row   *)
(* was written, since this transaction read it, with a later updated_at.   *)
(* updated_at is when the writer's transaction began.  A resolver begins   *)
(* after the claim it writes under was committed, and consumers of one     *)
(* partition begin one event after another, so here whoever wrote since    *)
(* wrote a later one; LiteService has the other case.                      *)
(***************************************************************************)
EXTENDS Decision, Integers, Sequences

CONSTANTS
  Consumers,     \* worker processes of the consumer group
  Resolvers,     \* "runner", "sweep", or the ticks of lite mode: what is deployed
  Logs,          \* the partition contents considered
  MaxRetries,    \* WORKER_MAX_RECLAIM_RETRIES
  RecheckDelay,  \* WORKER_RECHECK_DELAY_SECONDS
  SweepGrace,    \* WORKER_PENDING_SWEEP_GRACE_SECONDS
  StuckTimeout,  \* WORKER_STUCK_PROCESSING_TIMEOUT_SECONDS
  MaxFaults,     \* bound: crashes, failed calls, rebalances and Redis losses
  MaxLate        \* bound: how far past a deadline two times are told apart

VARIABLES
  \* Postgres
  rows,       \* orders_state: [Orders -> Row or Null]
  views,      \* order_views:  [Orders -> View or Null]
  audit,      \* audit_log
  reviews,    \* review_queue
  claims,     \* tokens generated so far for each order (gen_random_uuid)
  \* Redis
  queue,      \* recheck:queue: [Orders -> time left or Null]
  seen,       \* idempotency:{event_id} keys
  \* Kafka
  log,        \* the partition; Null is a message that yields no event to store
  raising,    \* the places of those whose handling raises; never changes
  committed,  \* the group's committed offset
  owner,      \* the consumer the partition is assigned to, or Null
  \* processes
  cons,       \* consumer-local state
  res,        \* resolver-local state
  faults      \* faults so far

dbVars    == <<rows, views, audit, reviews, claims>>
redisVars == <<queue, seen>>
kafkaVars == <<log, raising, committed, owner>>
vars      == <<dbVars, redisVars, kafkaVars, cons, res, faults>>

\* Time left until a deadline, cut off some time after even the sweep's grace.
TimeLeft == (-MaxLate)..RecheckDelay
Age      == 0..(StuckTimeout + 1)

Row ==
  [status : ReconStatus, recheck : TimeLeft \cup {Null}, retry : 0..MaxRetries,
   token : Nat \cup {Null}, age : Age]

\* Sweep ids that leave the order out.
SweepIdPerRetry(o, retry) == <<"sweep", Null, retry>>

\* Audit ids: an event's own, and the worker's for its rechecks and sweeps.
RecheckId(o, token) == <<"recheck", o, token>>
SweepId(o, retry)   == <<"sweep", o, retry>>
MalformedId(offset) == <<"malformed", offset>>
SystemId            == {"recheck", "sweep"} \X Orders \X Nat
AuditId             == EventIds \cup SystemId

AuditEntry ==
  [id : AuditId, order : Orders, decision : Actions \cup
     {"RECHECK_RETRIES_EXHAUSTED", "RECLAIM", "DEAD_LETTER"},
   old : ReconStatus \cup {Null}, new : ReconStatus \cup {Null}]

ReviewItem ==
  [id : AuditId \cup ({"malformed"} \X Nat) \cup {Null}, order : Orders \cup {Null},
   reason : CorrelationFailures \cup {"unsafe_drift", "dead_letter", "unusable_envelope"}]

\* at: offset being handled; status, view: what its transaction read (status is
\* Null when there was no row); moved: whether the row has a later updated_at now;
\* left: until the deadline it would arm.
Handler ==
  [pc : {"idle", "row", "view", "apply", "mark", "push", "commit"},
   at : Nat, status : ReconStatus \cup {Null}, view : View \cup {Null}, moved : BOOLEAN,
   left : TimeLeft, push : BOOLEAN]

\* batch: orders still to resolve in this pass; left: until the deadline a
\* re-arm writes, counted from the pass's own start; rearm: until the one it
\* did write and has to push.
Resolution ==
  [pc : {"idle", "list", "claim", "read", "finish", "requeue", "drop"},
   batch : SUBSET Orders, order : Orders \cup {Null}, token : Nat \cup {Null},
   view : View \cup {Null}, left : TimeLeft, rearm : TimeLeft \cup {Null}]

IdleHandler ==
  [pc |-> "idle", at |-> 0, status |-> Null, view |-> Null, moved |-> FALSE,
   left |-> RecheckDelay, push |-> FALSE]
IdleResolution ==
  [pc |-> "idle", batch |-> {}, order |-> Null, token |-> Null, view |-> Null,
   left |-> RecheckDelay, rearm |-> Null]

ASSUME PipelineAssumption ==
  /\ MaxRetries \in Nat \ {0} /\ RecheckDelay \in Nat /\ SweepGrace \in Nat
  /\ StuckTimeout \in Nat /\ MaxFaults \in Nat
  /\ MaxLate \in Nat /\ MaxLate > SweepGrace

\* The ids the worker makes up are not those of events.
ASSUME IdAssumption == \A id \in EventIds : id \notin SystemId

\* NULL is not a value of any column.
ASSUME NullColumnAssumption ==
  /\ Null \notin Consumers /\ Null \notin Event /\ Null \notin View /\ Null \notin Row
  /\ Null \notin Int /\ Null \notin SystemId

\* What ingestion publishes: every event has an order, none is the system's own.
ASSUME LogsAssumption ==
  \A l \in Logs :
    /\ l \in Seq(Event \cup {Null})
    /\ \A i \in DOMAIN l : l[i] # Null => l[i].order # Null /\ l[i].source # "system"
-----------------------------------------------------------------------------
\* The smaller of two deadlines; LEAST() ignores a NULL.
Least(x, y) == IF x = Null \/ y < x THEN y ELSE x

\* Nothing enforces the uniqueness of audit ids.
ReplayNever(id) == FALSE

\* The unique constraint on audit_log.event_id: ON CONFLICT DO NOTHING.
Replay(id) == \E a \in audit : a.id = id

Entry(id, o, decision, old, new) ==
  [id |-> id, order |-> o, decision |-> decision, old |-> old, new |-> new]

Review(id, o, reason) == [id |-> id, order |-> o, reason |-> reason]

\* A unique index that takes two NULLs for equal.
FiledNullUnique(items) ==
  reviews \cup {item \in items : ~\E v \in reviews : v.id = item.id}

\* _ENQUEUE_REVIEW: one review per event id; reviews without one all stay.
Filed(items) ==
  reviews \cup {item \in items : item.id = Null \/ ~\E v \in reviews : v.id = item.id}

\* The audit row decide() drafted, kept when the order is dead-lettered instead.
UnresolvedEntryAsDecided(id, o, d, dead) ==
  Entry(id, o, d.action, "PROCESSING", OrElse(d.new, "PROCESSING"))

\* The audit row of a recheck that could not be resolved: what happened, not
\* what decide() drafted.
UnresolvedEntry(id, o, d, dead) ==
  IF dead THEN Entry(id, o, "RECHECK_RETRIES_EXHAUSTED", "PROCESSING", "DEAD_LETTER")
  ELSE Entry(id, o, d.action, "PROCESSING", "PENDING_RECHECK")

Init ==
  /\ rows = [o \in Orders |-> Null] /\ views = [o \in Orders |-> Null]
  /\ audit = {} /\ reviews = {} /\ claims = [o \in Orders |-> 0]
  /\ queue = [o \in Orders |-> Null] /\ seen = {}
  /\ log \in Logs /\ raising \in SUBSET {i \in DOMAIN log : log[i] = Null}
  /\ committed = 0 /\ owner = Null
  /\ cons = [c \in Consumers |-> IdleHandler]
  /\ res = [r \in Resolvers |-> IdleResolution]
  /\ faults = 0

-----------------------------------------------------------------------------
(* The pointer statements of state.py: whether each matches the row, and   *)
(* the row it leaves.  r is the row now, h what the transaction read.      *)

\* An arm without the optimistic guard.
CanArmUnguarded(r, h) == r = Null \/ r.status # "PROCESSING"

\* _ARM_RECHECK_FRESH and _ARM_RECHECK_GUARDED.
CanArm(r, h) == r = Null \/ (r.status # "PROCESSING" /\ (h.status = Null \/ ~h.moved))

\* An arm that overwrites the deadline instead of keeping the earlier one.
ArmedLatest(r, left) ==
  IF r = Null
  THEN [status |-> "PENDING_RECHECK", recheck |-> left, retry |-> 0, token |-> Null, age |-> 0]
  ELSE [r EXCEPT !.status = "PENDING_RECHECK", !.recheck = left, !.age = 0]

\* An arm that gives the order a new retry budget.
ArmedResetting(r, left) ==
  IF r = Null
  THEN [status |-> "PENDING_RECHECK", recheck |-> left, retry |-> 0, token |-> Null, age |-> 0]
  ELSE [r EXCEPT !.status = "PENDING_RECHECK", !.recheck = Least(@, left), !.retry = 0, !.age = 0]

\* The row an arm leaves: the earlier deadline wins.
Armed(r, left) ==
  IF r = Null
  THEN [status |-> "PENDING_RECHECK", recheck |-> left, retry |-> 0, token |-> Null, age |-> 0]
  ELSE [r EXCEPT !.status = "PENDING_RECHECK", !.recheck = Least(@, left), !.age = 0]

\* _ROUTE_DISPUTED without its guard on PROCESSING.
CanDisputeUnguarded(r) == r = Null \/ r.status # "DISPUTED"

\* _ROUTE_DISPUTED.
CanDispute(r) == r = Null \/ r.status \notin {"PROCESSING", "DISPUTED"}

Disputed(r) ==
  IF r = Null
  THEN [status |-> "DISPUTED", recheck |-> Null, retry |-> 0, token |-> Null, age |-> 0]
  ELSE [r EXCEPT !.status = "DISPUTED", !.recheck = Null, !.age = 0]

\* _RESOLVE_NATURALLY.
CanResolve(r) == r # Null /\ r.status = "PENDING_RECHECK"
ResolvedNaturally(r) == [r EXCEPT !.status = "RESOLVED_NATURALLY", !.recheck = Null, !.age = 0]

\* _apply_pointer: whether the decision's statement matched, and its result.
PointerMoves(d, r, h) ==
  CASE d.action = "ARM_RECHECK"             -> CanArm(r, h)
    [] d.action = "ROUTE_DISPUTED"          -> CanDispute(r)
    [] d.action = "MARK_RESOLVED_NATURALLY" -> CanResolve(r)
    [] OTHER                                -> FALSE

NewPointer(d, r, h) ==
  CASE d.action = "ARM_RECHECK"    -> Armed(r, h.left)
    [] d.action = "ROUTE_DISPUTED" -> Disputed(r)
    [] OTHER                       -> ResolvedNaturally(r)

\* A claim that takes any row no one holds.
CanClaimUnheld(r) == r # Null /\ r.status # "PROCESSING"

\* _CLAIM_RECHECK.
CanClaim(r) == r # Null /\ r.status = "PENDING_RECHECK"

\* A completion that checks the status only, not the token.
HoldsAny(r, token) == r # Null /\ r.status = "PROCESSING"

\* The WHERE clause of _COMPLETE_CLAIM and _REARM_OR_DEADLETTER.
Holds(r, token) == r # Null /\ r.status = "PROCESSING" /\ r.token = token

Completed(r, status) ==
  [r EXCEPT !.status = status, !.recheck = Null, !.token = Null, !.age = 0]

\* An off-by-one in the ceiling: one retry too many.
SpentOneMore(r) == r.retry >= MaxRetries

\* No ceiling.
SpentNever(r) == FALSE

\* The shared ceiling of _REARM_OR_DEADLETTER and _RECLAIM_STUCK_PROCESSING.
Spent(r) == r.retry + 1 >= MaxRetries

Rearmed(r, left) ==
  [r EXCEPT !.status  = IF Spent(r) THEN "DEAD_LETTER" ELSE "PENDING_RECHECK",
            !.retry   = @ + 1,
            !.recheck = IF Spent(r) THEN Null ELSE left,
            !.token   = Null, !.age = 0]

\* A reclaim that leaves the dead worker's token in the row.
ReclaimedKeepingToken(r) ==
  [r EXCEPT !.status = IF Spent(r) THEN "DEAD_LETTER" ELSE "PENDING_RECHECK",
            !.retry  = @ + 1, !.age = 0]

\* A reclaim that clears the deadline with the token.
ReclaimedClearing(r) ==
  [r EXCEPT !.status = IF Spent(r) THEN "DEAD_LETTER" ELSE "PENDING_RECHECK",
            !.retry  = @ + 1, !.recheck = Null, !.token = Null, !.age = 0]

\* A watchdog that leaves a claim on its last retry alone.
StuckNotLast(r) ==
  r # Null /\ r.status = "PROCESSING" /\ r.age > StuckTimeout /\ r.retry + 1 < MaxRetries

\* _RECLAIM_STUCK_PROCESSING: the rows it matches, and the row it leaves; the
\* deadline is not touched.
Stuck(r) == r # Null /\ r.status = "PROCESSING" /\ r.age > StuckTimeout /\ r.retry < MaxRetries
Reclaimed(r) ==
  [r EXCEPT !.status = IF Spent(r) THEN "DEAD_LETTER" ELSE "PENDING_RECHECK",
            !.retry  = @ + 1, !.token = Null, !.age = 0]

\* _LIST_ORPHANED_PENDING.
Orphaned(r) ==
  r # Null /\ r.status = "PENDING_RECHECK" /\ r.recheck # Null /\ r.recheck < -SweepGrace

\* Every other transaction in flight that read order o's row has missed a write;
\* newer: whether the writer's updated_at is later than the one it read.
Told(self, o, newer) ==
  [c \in Consumers |->
     IF c # self /\ cons[c].pc \in {"view", "apply"} /\ log[cons[c].at].order = o
     THEN [cons[c] EXCEPT !.moved = newer] ELSE cons[c]]
Overtaken(self, o) == Told(self, o, TRUE)

-----------------------------------------------------------------------------
(* The consumer: run() and _handle_message(), one message at a time.       *)

\* The owner's next message; its position is the committed offset.
NextAt(c) ==
  /\ owner = c /\ cons[c].pc = "idle" /\ committed < Len(log)

\* No malformed message is caught: the worker stops, the offset is not committed,
\* and the message is there again after the restart.
FileMalformedRaising(c) ==
  /\ NextAt(c) /\ log[committed + 1] = Null /\ committed + 1 \notin raising
  /\ UNCHANGED vars

\* A message that is no JSON, or no usable envelope, is filed for review and
\* committed past.
FileMalformed(c) ==
  /\ NextAt(c) /\ log[committed + 1] = Null /\ committed + 1 \notin raising
  /\ reviews' = Filed({Review(MalformedId(committed + 1), Null, "unusable_envelope")})
  /\ cons' = [cons EXCEPT ![c] = [IdleHandler EXCEPT !.pc = "commit", !.at = committed + 1]]
  /\ UNCHANGED <<rows, views, audit, claims, redisVars, kafkaVars, res, faults>>

\* A worker that swallows whatever its handling of a message raises.
StopOnMessageSkipping(c) ==
  /\ NextAt(c) /\ log[committed + 1] = Null /\ committed + 1 \in raising
  /\ cons' = [cons EXCEPT ![c] = [IdleHandler EXCEPT !.pc = "commit", !.at = committed + 1]]
  /\ UNCHANGED <<dbVars, redisVars, kafkaVars, res, faults>>

\* Anything else a message raises leaves run(): bytes that are not UTF-8, a time
\* out of range, a NUL the JSONB column refuses.  Its transaction, if it came to
\* one, rolls back and the worker stops without the offset commit, so whoever
\* has the partition next gets the same message.
StopOnMessage(c) ==
  /\ NextAt(c) /\ log[committed + 1] = Null /\ committed + 1 \in raising
  /\ owner' = Null
  /\ UNCHANGED <<dbVars, redisVars, log, raising, committed, cons, res, faults>>

\* The Redis pre-filter skips an id it knows.
SkipSeen(c) ==
  /\ NextAt(c) /\ log[committed + 1] # Null /\ log[committed + 1].id \in seen
  /\ cons' = [cons EXCEPT ![c] = [IdleHandler EXCEPT !.pc = "commit", !.at = committed + 1]]
  /\ UNCHANGED <<dbVars, redisVars, kafkaVars, res, faults>>

\* A consumer that sets the idempotency key before the Postgres write.
StartEventMarkingSeen(c) ==
  /\ NextAt(c) /\ log[committed + 1] # Null /\ log[committed + 1].id \notin seen
  /\ seen' = seen \cup {log[committed + 1].id}
  /\ cons' = [cons EXCEPT ![c] = [IdleHandler EXCEPT !.pc = "row", !.at = committed + 1]]
  /\ UNCHANGED <<dbVars, queue, kafkaVars, res, faults>>

\* Not seen, or Redis cannot be reached: the clock is read, the event goes to
\* Postgres.
StartEvent(c) ==
  /\ NextAt(c) /\ log[committed + 1] # Null
  /\ log[committed + 1].id \in seen => faults < MaxFaults
  /\ faults' = IF log[committed + 1].id \in seen THEN faults + 1 ELSE faults
  /\ cons' = [cons EXCEPT ![c] = [IdleHandler EXCEPT !.pc = "row", !.at = committed + 1]]
  /\ UNCHANGED <<dbVars, redisVars, kafkaVars, res>>

\* read_state, first statement.
ReadRow(c) ==
  /\ cons[c].pc = "row"
  /\ LET r == rows[log[cons[c].at].order] IN
     cons' = [cons EXCEPT ![c] =
                [@ EXCEPT !.pc = "view", !.status = IF r = Null THEN Null ELSE r.status]]
  /\ UNCHANGED <<dbVars, redisVars, kafkaVars, res, faults>>

\* read_state, second statement.
ReadView(c) ==
  /\ cons[c].pc = "view"
  /\ LET v == OrElse(views[log[cons[c].at].order], EmptyView) IN
     cons' = [cons EXCEPT ![c] = [@ EXCEPT !.pc = "apply", !.view = v]]
  /\ UNCHANGED <<dbVars, redisVars, kafkaVars, res, faults>>

\* The decision on what was read, and the whole of store.apply, committed.
\* A replay (the audit id exists) changes nothing.
ApplyAs(c, newer) ==
  LET h      == cons[c]
      e      == log[h.at]
      o      == e.order
      result == Evaluate(e, h.view, h.status, FALSE)
      d      == result.decision
      moves  == PointerMoves(d, rows[o], h)
      marked == [IdleHandler EXCEPT !.pc = "mark", !.at = h.at]
      done   == IF d.action = "ARM_RECHECK" /\ moves
                THEN [marked EXCEPT !.push = TRUE, !.left = h.left] ELSE marked
  IN
  /\ h.pc = "apply"
  /\ \/ /\ Replay(e.id)
        /\ cons' = [cons EXCEPT ![c] = marked]
        /\ UNCHANGED dbVars
     \/ /\ ~Replay(e.id)
        /\ audit' = audit \cup {Entry(e.id, o, d.action, h.status, OrElse(d.new, h.status))}
        /\ views' = [views EXCEPT ![o] = result.view]
        /\ reviews' = IF d.review = Null THEN reviews
                      ELSE Filed({Review(e.id, o, d.review)})
        /\ rows' = IF moves THEN [rows EXCEPT ![o] = NewPointer(d, @, h)] ELSE rows
        /\ cons' = [(IF moves THEN Told(c, o, newer) ELSE cons) EXCEPT ![c] = done]
        /\ UNCHANGED claims
  /\ UNCHANGED <<redisVars, kafkaVars, res, faults>>

Apply(c) == ApplyAs(c, TRUE)

\* mark_seen: after the commit; an unreachable Redis is swallowed.
MarkSeen(c) ==
  /\ cons[c].pc = "mark"
  /\ \/ seen' = seen \cup {log[cons[c].at].id} /\ UNCHANGED faults
     \/ faults < MaxFaults /\ faults' = faults + 1 /\ UNCHANGED seen
  /\ cons' = [cons EXCEPT ![c] = [@ EXCEPT !.pc = IF cons[c].push THEN "push" ELSE "commit"]]
  /\ UNCHANGED <<dbVars, queue, kafkaVars, res>>

\* The fast path: ZADD LT, or a failed push that is only logged.
Push(c) ==
  LET o == log[cons[c].at].order IN
  /\ cons[c].pc = "push"
  /\ \/ queue' = [queue EXCEPT ![o] = Least(@, cons[c].left)] /\ UNCHANGED faults
     \/ faults < MaxFaults /\ faults' = faults + 1 /\ UNCHANGED queue
  /\ cons' = [cons EXCEPT ![c] = [IdleHandler EXCEPT !.pc = "commit", !.at = cons[c].at]]
  /\ UNCHANGED <<dbVars, seen, kafkaVars, res>>

\* The offset commit.  A consumer that lost the partition is refused, and the
\* error stops its process, which comes back idle.
Commit(c) ==
  /\ cons[c].pc = "commit"
  /\ committed' = IF owner = c THEN cons[c].at ELSE committed
  /\ cons' = [cons EXCEPT ![c] = IdleHandler]
  /\ UNCHANGED <<dbVars, redisVars, log, raising, owner, res, faults>>

ConsumerStep(c) ==
  \/ FileMalformed(c) \/ StopOnMessage(c) \/ SkipSeen(c) \/ StartEvent(c)
  \/ ReadRow(c) \/ ReadView(c) \/ Apply(c) \/ MarkSeen(c) \/ Push(c) \/ Commit(c)

\* The group coordinator gives a free partition to a consumer that polls.
Assign(c) ==
  /\ owner = Null /\ cons[c].pc = "idle"
  /\ owner' = c
  /\ UNCHANGED <<dbVars, redisVars, log, raising, committed, cons, res, faults>>

-----------------------------------------------------------------------------
(* resolve_order: the path the fast runner and the pending sweep share.    *)

\* The next order of the batch, or the end of the pass.
Turn(s) ==
  IF s.batch = {} THEN IdleResolution
  ELSE [s EXCEPT !.pc = "claim", !.order = Null, !.token = Null, !.view = Null, !.rearm = Null]

\* run_once: the due entries, and the clock this pass works with.
PollDue ==
  LET due == {o \in Orders : queue[o] # Null /\ queue[o] <= 0} IN
  /\ "runner" \in Resolvers /\ res["runner"].pc = "idle" /\ due # {}
  /\ res' = [res EXCEPT !["runner"] = [IdleResolution EXCEPT !.pc = "claim", !.batch = due]]
  /\ UNCHANGED <<dbVars, redisVars, kafkaVars, cons, faults>>

\* Transaction 1: the claim, with a fresh token; a row that is not pending is
\* dropped from the queue.
Claim(r, o) ==
  LET token == claims[o] + 1
      s     == [res[r] EXCEPT !.batch = @ \ {o}, !.order = o]
  IN
  /\ res[r].pc = "claim" /\ o \in res[r].batch
  /\ \/ /\ CanClaim(rows[o])
        /\ rows' = [rows EXCEPT ![o] =
                      [@ EXCEPT !.status = "PROCESSING", !.token = token, !.age = 0]]
        /\ claims' = [claims EXCEPT ![o] = token]
        /\ res' = [res EXCEPT ![r] = [s EXCEPT !.pc = "read", !.token = token]]
        /\ cons' = Overtaken(Null, o)
     \/ /\ ~CanClaim(rows[o])
        /\ res' = [res EXCEPT ![r] = [s EXCEPT !.pc = "drop"]]
        /\ UNCHANGED <<rows, claims, cons>>
  /\ UNCHANGED <<views, audit, reviews, redisVars, kafkaVars, faults>>

\* Transaction 2: re-fetch the view.
ReadOrder(r) ==
  /\ res[r].pc = "read"
  /\ res' = [res EXCEPT ![r] =
                [@ EXCEPT !.pc = "finish", !.view = OrElse(views[res[r].order], EmptyView)]]
  /\ UNCHANGED <<dbVars, redisVars, kafkaVars, cons, faults>>

\* What the resolver still has to do once transaction 3 is over.
Ended(s, pc) == [s EXCEPT !.pc = pc, !.token = Null, !.view = Null]

\* Transaction 3 found its claim stolen: nothing is written.
FinishStolen(r) ==
  /\ res[r].pc = "finish" /\ ~Holds(rows[res[r].order], res[r].token)
  /\ res' = [res EXCEPT ![r] = Ended(@, "drop")]
  /\ UNCHANGED <<dbVars, redisVars, kafkaVars, cons, faults>>

\* Transaction 3, a resolution: the completion, then its audit row.
FinishResolved(r) ==
  LET s == res[r]
      o == s.order
      d == EvaluateRecheck(RecheckId(o, s.token), o, s.view).decision
  IN
  /\ s.pc = "finish" /\ Holds(rows[o], s.token)
  /\ d.action \in {"APPLY_AUTOCORRECT", "MARK_RESOLVED_NATURALLY", "ROUTE_DISPUTED"}
  /\ rows' = [rows EXCEPT ![o] = Completed(@, d.new)]
  /\ audit' = IF Replay(RecheckId(o, s.token)) THEN audit
              ELSE audit \cup {Entry(RecheckId(o, s.token), o, d.action, "PROCESSING", d.new)}
  /\ res' = [res EXCEPT ![r] = Ended(@, "drop")]
  /\ cons' = Overtaken(Null, o)
  /\ UNCHANGED <<views, reviews, claims, redisVars, kafkaVars, faults>>

\* Transaction 3, unresolved (UNSAFE or INDETERMINATE drift, or no merchant
\* record): a fresh window, or DEAD_LETTER and a review at the ceiling.  Only a
\* missing record reads the clock again; the others use the pass's.
FinishUnresolved(r) ==
  LET s    == res[r]
      o    == s.order
      id   == RecheckId(o, s.token)
      d    == EvaluateRecheck(id, o, s.view).decision
      left == IF d.rearm THEN s.left ELSE RecheckDelay
      dead == Spent(rows[o])
  IN
  /\ s.pc = "finish" /\ Holds(rows[o], s.token)
  /\ d.action \in {"ARM_RECHECK", "FLAG_FOR_REVIEW"}
  /\ rows' = [rows EXCEPT ![o] = Rearmed(@, left)]
  /\ audit' = IF Replay(id) THEN audit ELSE audit \cup {UnresolvedEntry(id, o, d, dead)}
  /\ reviews' = IF dead THEN Filed({Review(id, o, "dead_letter")}) ELSE reviews
  /\ res' = [res EXCEPT ![r] = IF dead THEN Ended(@, "drop")
                               ELSE [Ended(@, "requeue") EXCEPT !.rearm = left]]
  /\ cons' = Overtaken(Null, o)
  /\ UNCHANGED <<views, claims, redisVars, kafkaVars, faults>>

\* The forced push of the fresh window.
Requeue(r) ==
  /\ res[r].pc = "requeue"
  /\ queue' = [queue EXCEPT ![res[r].order] = res[r].rearm]
  /\ res' = [res EXCEPT ![r] = Turn(@)]
  /\ UNCHANGED <<dbVars, seen, kafkaVars, cons, faults>>

\* remove(): whatever entry the order has by now.
Drop(r) ==
  /\ res[r].pc = "drop"
  /\ queue' = [queue EXCEPT ![res[r].order] = Null]
  /\ res' = [res EXCEPT ![r] = Turn(@)]
  /\ UNCHANGED <<dbVars, seen, kafkaVars, cons, faults>>

ResolveStep(r) ==
  \/ \E o \in Orders : Claim(r, o)
  \/ ReadOrder(r) \/ FinishStolen(r) \/ FinishResolved(r) \/ FinishUnresolved(r)
  \/ Requeue(r) \/ Drop(r)

-----------------------------------------------------------------------------
(* The sweep pass: stuck claims first, then the orphaned pending rows.     *)

\* One transaction reclaims every stuck row, audits each one and files a
\* review for those that are out of retries.
ReclaimStuck ==
  LET stuck   == {o \in Orders : Stuck(rows[o])}
      dead    == {o \in stuck : Spent(rows[o])}
      entry(o) ==
        Entry(SweepId(o, rows[o].retry + 1), o,
              IF o \in dead THEN "DEAD_LETTER" ELSE "RECLAIM", "PROCESSING",
              IF o \in dead THEN "DEAD_LETTER" ELSE "PENDING_RECHECK")
  IN
  /\ rows' = [o \in Orders |-> IF o \in stuck THEN Reclaimed(rows[o]) ELSE rows[o]]
  /\ audit' = audit \cup {entry(o) : o \in {x \in stuck : ~Replay(SweepId(x, rows[x].retry + 1))}}
  /\ reviews' = Filed({Review(Null, o, "dead_letter") : o \in dead})
  /\ cons' = [c \in Consumers |->
                IF cons[c].pc \in {"view", "apply"} /\ log[cons[c].at].order \in stuck
                THEN [cons[c] EXCEPT !.moved = TRUE] ELSE cons[c]]
  /\ UNCHANGED <<views, claims>>

SweepStuck ==
  /\ "sweep" \in Resolvers /\ res["sweep"].pc = "idle"
  /\ ReclaimStuck
  /\ res' = [res EXCEPT !["sweep"] = [IdleResolution EXCEPT !.pc = "list"]]
  /\ UNCHANGED <<redisVars, kafkaVars, faults>>

\* The orphans, and the end of the pass when there are none.
ListOrphans ==
  LET orphans == {o \in Orders : Orphaned(rows[o])} IN
  /\ "sweep" \in Resolvers /\ res["sweep"].pc = "list"
  /\ res' = [res EXCEPT !["sweep"] = Turn([@ EXCEPT !.batch = orphans])]
  /\ UNCHANGED <<dbVars, redisVars, kafkaVars, cons, faults>>

-----------------------------------------------------------------------------
(* Time and failures.                                                      *)

Sooner(t) == IF t = Null \/ t <= -MaxLate THEN t ELSE t - 1
Older(r)  ==
  IF r = Null THEN Null
  ELSE [r EXCEPT !.recheck = Sooner(@),
                 !.age = IF r.status = "PROCESSING" /\ @ <= StuckTimeout THEN @ + 1 ELSE @]

\* One unit of time passes for every row, every claim and whoever read a clock.
TimePasses ==
  /\ rows' = [o \in Orders |-> Older(rows[o])]
  /\ cons' = [c \in Consumers |->
                IF cons[c].pc \in {"row", "view", "apply"} \/ cons[c].push
                THEN [cons[c] EXCEPT !.left = Sooner(@)] ELSE cons[c]]
  /\ res' = [r \in Resolvers |->
               IF res[r].pc = "idle" THEN res[r] ELSE [res[r] EXCEPT !.left = Sooner(@), !.rearm = Sooner(@)]]
  /\ UNCHANGED <<views, audit, reviews, claims>>

Tick ==
  /\ TimePasses
  /\ queue' = [o \in Orders |-> Sooner(queue[o])]
  /\ UNCHANGED <<seen, kafkaVars, faults>>

Fault == faults < MaxFaults /\ faults' = faults + 1

\* A consumer dies; its open transaction rolls back, its partition is freed.
CrashConsumer(c) ==
  /\ Fault /\ (cons[c].pc # "idle" \/ owner = c)
  /\ cons' = [cons EXCEPT ![c] = IdleHandler]
  /\ owner' = IF owner = c THEN Null ELSE owner
  /\ UNCHANGED <<dbVars, redisVars, log, raising, committed, res>>

\* A consumer too slow to poll loses the partition but keeps working on the
\* message in hand; the next owner starts from the committed offset.
Rebalance(c) ==
  /\ Fault /\ owner # Null /\ owner # c /\ cons[c].pc = "idle"
  /\ owner' = c
  /\ UNCHANGED <<dbVars, redisVars, log, raising, committed, cons, res>>

\* A resolver dies; a claim it holds stays in the row.
CrashResolver(r) ==
  /\ Fault /\ res[r].pc # "idle"
  /\ res' = [res EXCEPT ![r] = IdleResolution]
  /\ UNCHANGED <<dbVars, redisVars, kafkaVars, cons>>

\* A call of resolve_order fails: the exception is logged and the pass goes on
\* to the next order.
FailResolution(r) ==
  /\ Fault
  /\ \/ /\ res[r].pc \in {"read", "finish", "requeue", "drop"}
        /\ res' = [res EXCEPT ![r] = Turn(@)]
     \/ /\ res[r].pc = "claim"
        /\ \E o \in res[r].batch :
             res' = [res EXCEPT ![r] = Turn([@ EXCEPT !.batch = res[r].batch \ {o}])]
  /\ UNCHANGED <<dbVars, redisVars, kafkaVars, cons>>

\* Redis comes back without its last second of writes.
LoseQueued(o) ==
  /\ Fault /\ queue[o] # Null
  /\ queue' = [queue EXCEPT ![o] = Null]
  /\ UNCHANGED <<dbVars, seen, kafkaVars, cons, res>>

\* An idempotency key is lost the same way, or expires.
ForgetSeen(id) ==
  /\ Fault /\ id \in seen
  /\ seen' = seen \ {id}
  /\ UNCHANGED <<dbVars, queue, kafkaVars, cons, res>>

-----------------------------------------------------------------------------
Next ==
  \/ \E c \in Consumers : ConsumerStep(c) \/ Assign(c) \/ CrashConsumer(c) \/ Rebalance(c)
  \/ PollDue \/ SweepStuck \/ ListOrphans
  \/ \E r \in Resolvers : ResolveStep(r) \/ CrashResolver(r) \/ FailResolution(r)
  \/ Tick
  \/ \E o \in Orders : LoseQueued(o)
  \/ \E id \in EventIds : ForgetSeen(id)

Spec == Init /\ [][Next]_vars

\* The sweep service runs forever on its interval, and time passes.
SweepFairness ==
  /\ WF_vars(Tick) /\ WF_vars(SweepStuck) /\ WF_vars(ListOrphans)
  /\ "sweep" \in Resolvers => WF_vars(ResolveStep("sweep"))

\* A consumer process polls, and the container restarts it when it dies.
ConsumerFairness == \A c \in Consumers : WF_vars(ConsumerStep(c)) /\ WF_vars(Assign(c))

SweepSpec    == Spec /\ SweepFairness
ConsumerSpec == Spec /\ ConsumerFairness
=============================================================================
