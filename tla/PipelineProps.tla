--------------------------- MODULE PipelineProps ---------------------------
(***************************************************************************)
(* What the reconciliation pipeline must never do, and what it must        *)
(* eventually do.                                                          *)
(***************************************************************************)
EXTENDS Pipeline

TypeOK ==
  /\ rows \in [Orders -> Row \cup {Null}] /\ views \in [Orders -> View \cup {Null}]
  /\ audit \subseteq AuditEntry /\ reviews \subseteq ReviewItem
  /\ claims \in [Orders -> Nat]
  /\ queue \in [Orders -> TimeLeft \cup {Null}] /\ seen \subseteq EventIds
  /\ log \in Logs /\ raising \subseteq DOMAIN log
  /\ committed \in 0..Len(log) /\ owner \in Consumers \cup {Null}
  /\ cons \in [Consumers -> Handler] /\ res \in [Resolvers -> Resolution]
  /\ faults \in 0..MaxFaults

-----------------------------------------------------------------------------
Status(o) == IF rows[o] = Null THEN Null ELSE rows[o].status
Retries(o) == IF rows[o] = Null THEN 0 ELSE rows[o].retry

Audited(id) == \E a \in audit : a.id = id

\* Audit rows the resolvers and the sweep write, as against a consumer's.
BySystem(a)    == a.id \in SystemId
SystemAudit(o) == {a \in audit : a.order = o /\ BySystem(a)}

\* A fencing token is in the row exactly while the row is claimed, and no two
\* resolvers hold the live one: a worker reclaimed past the watchdog can never
\* pass the token check of a later claim.  (state.py _CLAIM_RECHECK,
\* _RECLAIM_STUCK_PROCESSING)
ClaimsFenced ==
  \A o \in Orders :
    /\ rows[o] # Null => (rows[o].status = "PROCESSING" <=> rows[o].token # Null)
    /\ \A r \in Resolvers :
         (res[r].pc \in {"read", "finish"} /\ res[r].order = o) =>
            /\ rows[o] # Null /\ res[r].token <= claims[o]
            /\ \A q \in Resolvers \ {r} :
                 (res[q].pc \in {"read", "finish"} /\ res[q].order = o)
                   => res[q].token # res[r].token

\* An order is resolved or dead-lettered by the resolvers and the sweep at most
\* once, however many of them try, stall, die and come back: the chaos test's
\* "exactly one terminal action".
OneSystemResolution ==
  \A o \in Orders : \A a, b \in SystemAudit(o) :
    (a.new \in TerminalStatuses /\ b.new \in TerminalStatuses) => a = b

\* Every claim is accounted for: it resolved the order, it cost one retry that
\* left an audit row (none was swallowed by ON CONFLICT DO NOTHING), or it is
\* the one now held.  No claim is taken from a live holder for free.
ClaimsAccounted ==
  \A o \in Orders :
    LET retried  == {a \in SystemAudit(o) : a.new \in {"PENDING_RECHECK", "DEAD_LETTER"}}
        resolved == SystemAudit(o) \ retried
    IN /\ Cardinality(retried) = Retries(o)
       /\ claims[o] = Cardinality(retried) + Cardinality(resolved)
                        + (IF Status(o) = "PROCESSING" THEN 1 ELSE 0)

\* The retry budget is shared by the runner and the sweep and never exceeded,
\* and a row that can still be claimed has budget left.
RetryBudget ==
  \A o \in Orders :
    /\ Retries(o) <= MaxRetries
    /\ Status(o) \in {"PENDING_RECHECK", "PROCESSING"} => Retries(o) < MaxRetries
    /\ Status(o) = "DEAD_LETTER" => Retries(o) = MaxRetries

\* Whoever gives an order up, a person is told: every dead-lettered order has
\* its review, and every event flagged by a consumer has one.
GivenUpIsReviewed ==
  /\ \A o \in Orders : Status(o) = "DEAD_LETTER" =>
       \E v \in reviews : v.order = o /\ v.reason = "dead_letter"
  /\ \A a \in audit : (a.decision = "FLAG_FOR_REVIEW" /\ ~BySystem(a)) =>
       \E v \in reviews : v.id = a.id

\* orders_state is derived from the audit log: the status of an unclaimed row
\* is one the log says the order was moved to.  (schema.sql)
PointerDerivedFromAudit ==
  \A o \in Orders : Status(o) \notin {Null, "PROCESSING"} =>
    \E a \in audit : a.order = o /\ a.new = Status(o)

\* Where the audited events of an order are in the partition, each counted once.
Taken(o) ==
  {i \in DOMAIN log : /\ log[i] # Null /\ log[i].order = o /\ Audited(log[i].id)
                      /\ \A j \in 1..(i - 1) : log[j] = Null \/ log[j].id # log[i].id}

\* The view stored once event e is folded into the stored v.
FoldedIn(e, v) == Evaluate(e, OrElse(v, EmptyView), Null, FALSE).view

\* What folding those of the first n messages of l that are at places in T gives.
FoldOf(l, T) ==
  LET fold[n \in 0..Len(l)] ==
        IF n = 0 THEN Null
        ELSE IF n \in T THEN FoldedIn(l[n], fold[n - 1]) ELSE fold[n - 1]
  IN fold

\* The stored view is the fold, in partition order, of exactly the audited
\* events, each once: no consumer overwrites another's fold with one from a
\* view it read earlier, whatever crashes, redeliveries and rebalances do.
ViewIsFold == \A o \in Orders : views[o] = FoldOf(log, Taken(o))[Len(log)]

\* Nothing is skipped: a committed message was audited or filed for review,
\* and an idempotency key exists only for an audited event, so a crash between
\* the two never makes a lost event look processed.
CommittedIsAudited ==
  /\ \A i \in 1..committed :
       IF log[i] = Null THEN \E v \in reviews : v.id = MalformedId(i) ELSE Audited(log[i].id)
  /\ \A id \in seen : Audited(id)

\* An armed order can always be found again: its row has a deadline, so the
\* pending sweep lists it even when the Redis push was lost.
ArmedIsSweepable ==
  \A o \in Orders : Status(o) = "PENDING_RECHECK" => rows[o].recheck # Null

-----------------------------------------------------------------------------
(* The parts of the inductive invariant the proofs rest on.                *)

OrderAt(c) == log[cons[c].at].order
IdAt(c)    == log[cons[c].at].id

\* A busy consumer works on a real message.
HandlerHasEvent(c) ==
  cons[c].pc # "idle" =>
    /\ cons[c].at \in 1..Len(log)
    /\ cons[c].pc # "commit" => log[cons[c].at] # Null
    /\ cons[c].pc = "apply" => cons[c].view \in View

HandlersHaveEvents == \A c \in Consumers : HandlerHasEvent(c)

\* It is no further than the next message to commit; the partition's owner is on
\* exactly that one.
HandlerOnLog(c) ==
  /\ HandlerHasEvent(c)
  /\ cons[c].pc # "idle" =>
       cons[c].at <= committed + 1 /\ (owner = c => cons[c].at = committed + 1)

HandlersOnLog == \A c \in Consumers : HandlerOnLog(c)

\* What a consumer still has to commit was audited, or filed for review.
HandledAudited(c) ==
  /\ cons[c].pc \in {"mark", "push"} => Audited(IdAt(c))
  /\ cons[c].pc = "commit" =>
       IF log[cons[c].at] = Null THEN \E v \in reviews : v.id = MalformedId(cons[c].at)
       ELSE Audited(IdAt(c))

HandledIsAudited == \A c \in Consumers : HandledAudited(c)

\* A consumer whose event is not audited yet knows the row: there still is
\* none, or the status it read is the row's unless it was told otherwise.
ReadIsCurrent(c) ==
  (cons[c].pc \in {"view", "apply"} /\ ~Audited(IdAt(c))) =>
     IF cons[c].status = Null THEN rows[OrderAt(c)] = Null
     ELSE cons[c].moved \/ (rows[OrderAt(c)] # Null /\ cons[c].status = rows[OrderAt(c)].status)

ReadsAreCurrent == \A c \in Consumers : ReadIsCurrent(c)

\* A resolver works on an order of its own, with a token the order was given.
ResolverOnOrder(r) ==
  /\ res[r].pc \in {"read", "finish", "requeue", "drop"} => res[r].order \in Orders
  /\ res[r].pc \in {"read", "finish"} =>
       res[r].token \in 1..claims[res[r].order] /\ rows[res[r].order] # Null
  /\ res[r].pc = "finish" => res[r].view \in View
  /\ res[r].pc = "requeue" => res[r].rearm \in TimeLeft

ResolversOnOrders == \A r \in Resolvers : ResolverOnOrder(r)

\* The token in a row is the last one its order was given.
TokenIsLatest ==
  \A o \in Orders : rows[o] # Null =>
    /\ rows[o].status = "PROCESSING" <=> rows[o].token # Null
    /\ rows[o].token # Null => rows[o].token = claims[o]

\* Resolvers in the middle of the same order hold different tokens.
TokensDiffer ==
  \A r, q \in Resolvers :
    (/\ r # q /\ res[r].pc \in {"read", "finish"} /\ res[q].pc \in {"read", "finish"}
     /\ res[r].order = res[q].order) => res[r].token # res[q].token

\* An order the system resolved or gave up is still terminal.
SystemEndingHolds ==
  \A a \in audit : (BySystem(a) /\ a.new \in TerminalStatuses) =>
    rows[a.order] # Null /\ rows[a.order].status \in TerminalStatuses

\* What holds of the tables and the resolvers, however events reach consumers.
StoreInv ==
  /\ TypeOK /\ RetryBudget /\ ResolversOnOrders /\ TokenIsLatest /\ TokensDiffer
  /\ SystemEndingHolds /\ OneSystemResolution

PipelineInv ==
  /\ StoreInv /\ HandlersOnLog /\ HandledIsAudited /\ CommittedIsAudited /\ ReadsAreCurrent

\* The ids the worker made up so far: a recheck's token was given out, and the
\* live claim has not reported yet; a reclaim's count was reached.
IdsAreUsed ==
  \A a \in audit : BySystem(a) =>
    /\ a.id[2] = a.order
    /\ IF a.id[1] = "recheck"
       THEN /\ a.id[3] <= claims[a.order]
            /\ a.id[3] = claims[a.order] => Status(a.order) # "PROCESSING"
       ELSE a.id[3] <= Retries(a.order)

\* A review filed under a recheck's id came with its audit row.
ReviewsAreAudited == \A v \in reviews : v.id \in SystemId => Audited(v.id)

\* A claim keeps the deadline the row had, for a reclaim to go back to.
DeadlineKept ==
  \A o \in Orders : Status(o) \in {"PENDING_RECHECK", "PROCESSING"} => rows[o].recheck # Null

\* What the audit log, the review queue and the deadlines say of the pointers.
RecordInv ==
  /\ IdsAreUsed /\ ReviewsAreAudited /\ DeadlineKept
  /\ GivenUpIsReviewed /\ PointerDerivedFromAudit
  /\ (\A o \in Orders : IsFiniteSet(SystemAudit(o))) /\ ClaimsAccounted

\* An event that is audited has been read: it is no further than the next one to
\* commit.
AuditedWasRead ==
  \A a \in audit : ~BySystem(a) =>
    \E i \in DOMAIN log : i <= committed + 1 /\ log[i] # Null /\ log[i].id = a.id

\* A consumer about to fold an event that is not audited has the stored view.
ViewsAreCurrent ==
  \A c \in Consumers :
    (cons[c].pc = "apply" /\ ~Audited(IdAt(c))) =>
      cons[c].view = OrElse(views[OrderAt(c)], EmptyView)

ViewInv == AuditedWasRead /\ ViewsAreCurrent /\ ViewIsFold

-----------------------------------------------------------------------------
\* The terminal lock: no step takes an order out of a terminal status, except
\* a reversal into DISPUTED, where it stays; in particular no stale arm of a
\* consumer that read the order before it was resolved.
TerminalLock ==
  [][\A o \in Orders : Status(o) \in TerminalStatuses =>
       Status(o)' = Status(o) \/ Status(o)' = "DISPUTED"]_vars

\* Only the holder of the live claim reports on it: a worker that stalled, was
\* reclaimed by the watchdog and woke up after another one claimed the order
\* again writes no outcome under its old token.  (_COMPLETE_CLAIM and
\* _REARM_OR_DEADLETTER in state.py)
OnlyHolderReports ==
  [][\A o \in Orders : \A t \in 1..claims[o] :
       (Audited(RecheckId(o, t))' /\ ~Audited(RecheckId(o, t)))
         => t = claims[o] /\ Status(o) = "PROCESSING"]_vars

\* Repeated detections of the same drift never push an armed deadline out, so
\* ordinary traffic cannot starve the recheck.  (LEAST() in state.py)
DeadlineOnlyPulledIn ==
  [][\A o \in Orders :
       (Status(o) = "PENDING_RECHECK" /\ Status(o)' = "PENDING_RECHECK")
         => rows[o]'.recheck <= rows[o].recheck]_vars

\* The pointers implement the abstract lifecycle of OrderLifecycle: an order is
\* armed once, each claim ends in a resolution or costs a retry, and there is
\* no way out of a terminal status but DISPUTED.
Lifecycle == INSTANCE OrderLifecycle
               WITH status <- [o \in Orders |-> Status(o)], retry <- [o \in Orders |-> Retries(o)]
ImplementsLifecycle == Lifecycle!Spec

-----------------------------------------------------------------------------
\* Every armed or claimed order reaches a terminal status, given only that
\* the sweep service keeps running: even if the runner and the consumers stop
\* for good, die with claims in hand, and Redis loses every entry.
ArmedIsResolved ==
  \A o \in Orders :
    Status(o) \in {"PENDING_RECHECK", "PROCESSING"} ~> Status(o) \in TerminalStatuses

\* Every message of the partition is eventually handled and committed, up to the
\* first one whose handling raises: there the worker stops and is restarted for
\* ever, and the messages behind it are never read. (consumer.py:161-177)
Consumable ==
  CHOOSE n \in 0..Len(log) :
    /\ \A i \in 1..n : i \notin raising
    /\ n < Len(log) => n + 1 \in raising
EverythingConsumed == <>[](committed = Consumable)

-----------------------------------------------------------------------------
(* What the repository says of itself and the code does not do.            *)

\* A settled order cannot be reopened by a stale event, "but a genuine reversal
\* still gets through and gets recorded, never dropped": an order with an audited
\* reversal does not end up resolved as if there had been none.
ReversalNeverDropped ==
  \A a \in audit :
    (a.decision = "ROUTE_DISPUTED" /\ ~BySystem(a)) =>
      Status(a.order) \notin {"RESOLVED_AUTOCORRECTED", "RESOLVED_NATURALLY"}
=============================================================================
