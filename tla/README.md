# Verisync in TLA+

Verisync compares what a payment gateway says of an order with what the
merchant's own record says, and acts only in the direction that is safe to act
on. This directory models the part of it that decides and the part that makes
those decisions survive concurrency and failure. Paths are relative to the
repository root.

## The system

```
gateway -> ingestion --.                                   .-- recheck runner --.
                        >-- lifecycle topic --> consumer --<    (Redis queue)     >-- Postgres
merchant simulator ----'    (by order_id)                  '-- fallback sweep ---'
lite mode: submit / tick  ------------------------------------------------------'
reconcile tool: two exports -> the same decisions, no storage
```

| Component | State it keeps | Operations | What is hard | What makes it correct |
|---|---|---|---|---|
| Decision layer, `decision/` | none | `project`, `correlate`, `assess`, `decide`, `evaluate` | precedence of the terminal lock, correlation and drift; events out of order | auto-correct only on a claimed row, SAFE drift and a clean correlation; the terminal lock opens for reversals only |
| Consumer, `worker/consumer.py`, `worker/reconcile.py` | message in hand | read, decide, write in one transaction; key, push, offset commit after it | crash between any two of these, rebalance, redelivery | each event folded once; nothing committed past unhandled |
| State store, `worker/state.py`, `db/schema.sql` | `orders_state`, `order_views`, `audit_log`, `review_queue` | arm, dispute, resolve, claim, complete, re-arm, reclaim | guards in WHERE clauses against concurrent writers, `ON CONFLICT` | terminal rows locked, one ending per order, audit ids unique |
| Recheck runner, `worker/recheck.py` | batch of due orders, claim token | claim, re-read, resolve in three transactions | stalls past the watchdog, crashes with a claim, failing calls | only the holder of the live claim reports on it |
| Sweeps, `worker/sweep.py` | batch of orphans | reclaim stuck claims, resolve orphaned rows | races the runner and the consumers | whatever is armed or claimed ends, within a shared retry budget |
| Delay queue, idempotency filter | Redis zset, Redis keys | push (earliest wins, or forced), due, remove; seen, mark | Redis down, losing its last second, expiry | Redis is only an accelerator |
| Envelope normalisation, `worker/normalize.py` | none | `envelope_to_event` | which entity of a payload speaks for it | a refund carries no payment status of its own |
| Reconcile tool, `reconcile_tool/` | none between requests | parse, fold, recheck, verdict | rows in any order, contradictory rows, rows that cannot be read | a recommendation to mark an order paid is safe, exact in its amount, and says what it ignored |
| Ingestion, `ingestion/` | `out_of_scope_events`, the client's queue | verify, scope gate, publish | publication of unknown outcome, gateway retries | accepted implies published; a retry is the same event |
| Merchant simulator, `merchant_sim/` | `merchant_orders` | create, mark paid, emit | crash between commit and emit, redelivered captures, several scanners | each status reported at most once; no capture passed over |
| Lite mode, `lite/` | two advisory locks | submit, tick | concurrent requests with no partition to serialise an order, ticks of any lateness | every scenario ends as it says, events of an order in the order they happened |
| Dashboard, `dashboard/`, `app.py` | none | read-only queries | none that changes state | - |

## Modules

| Module | What it holds |
|---|---|
| `Decision` | The pure layer as operators. Everything else evaluates it. |
| `DecisionProofs` | Their types, and what `Decide` can never decide; the least element of a set of naturals, which the inductions below use. |
| `OrderLifecycle` | The abstract specification: what happens to an order's pointer, with no processes, queues or clocks. |
| `Pipeline` | The detailed specification: consumers, runner, sweep, Postgres, Redis and Kafka offsets over one partition. |
| `PipelineProps` | Its properties, the parts of the inductive invariant, and the refinement mapping to `OrderLifecycle`. |
| `PipelineTypes`, `PipelineProofs` | Proofs: types; the inductive invariant, fencing, the budget, the locks, the offsets, the refinement. |
| `PipelineRecords` | Proofs: the audit log, the reviews and the deadlines against the pointers. |
| `PipelineViews` | Proofs: a stored view is the fold of the audited events. |
| `MCPipeline` | Small partitions for TLC: kinds of event and sets of logs. |
| `Envelopes` | What an envelope holds and the event made of it. Used by `ReconcileTool` and `LiteService`. |
| `Exports` | The rows of the two exports of the reconcile tool, as operators. |
| `ReconcileTool`, `MCReconcileTool` | One request to the tool seen from one order, its properties, and small exports. |
| `ToolProofs` | Proofs: what the tool may recommend, for exports of any length. |
| `LiteService`, `MCLiteService` | Lite mode: requests and ticks over `Pipeline`'s statements and resolver. |
| `LiteProofs` | Proofs: the cap on live orders; the inductive invariant of lite mode, fencing, the records, the terminal lock, the refinement of `OrderLifecycle`. |
| `Producers`, `MCProducers` | The webhook handler, the merchant simulator and the client queue between them and the topic. |
| `ProducersProofs` | Proofs: what is accepted, counted and reported. |

Definitions that hold a plausible mistake (`CanArmUnguarded`, `SpentNever`,
...) stand just before the definition they vary and are used by nothing: each
property is shown to fail when one of them takes the definition's place.

### Pipeline: state and actions

`rows`, `views`, `audit` and `reviews` are the four tables; `claims[o]` counts
the tokens `gen_random_uuid()` produced for an order, so a token is a number.
`queue` and `seen` are the Redis keys. `log` is the partition; `Null` in it is
a message that yields no event to store, and `raising` has the places of those
whose handling raises what nothing catches. `committed` is the group's offset,
`owner` the consumer the partition is assigned to. `cons[c]` and `res[r]` are what a
consumer or a resolver ("runner", "sweep") has in hand.

A consumer handles a message in these steps:

| Action | Code |
|---|---|
| `FileMalformed`, `SkipSeen`, `StartEvent` | the branches of `_handle_message` before Postgres |
| `StopOnMessage` | an exception of a message's own, out of `run`: no offset commit, and the partition goes to whoever starts next |
| `ReadRow`, `ReadView` | the two SELECTs of `read_state` |
| `Apply` | `evaluate_against` and `store.apply`, at the commit |
| `MarkSeen`, `Push` | the Redis writes after the commit |
| `Commit` | the synchronous offset commit of `run` |

READ COMMITTED gives each SELECT its own snapshot, so the two reads are two
steps. The writes are one step, at the commit: the first of them, the audit
insert, waits for a concurrent insert of the same event id, and the rows they
touch are locked from the statement to the commit. The WHERE clauses are
evaluated on the row as it is then.

A resolver goes through `Claim`, `ReadOrder` and one of `FinishStolen`,
`FinishResolved`, `FinishUnresolved` (the three transactions of
`resolve_order`), then `Requeue` or `Drop`. `PollDue` and `ListOrphans` start a
batch, `SweepStuck` is the reclaim with its audit rows and reviews.

`CrashConsumer`, `CrashResolver`, `Rebalance`, `FailResolution`, `LoseQueued`
and `ForgetSeen` are the failures. They share the bound `MaxFaults` with the
Redis calls of the consumer that may fail.

Abstractions, and why they lose nothing the properties are about:

- **Time.** A deadline is the time left until it, an age the time since it,
  both cut off where the code compares no further (`MaxLate` past a deadline,
  which is beyond the sweep's grace); `TimePasses` moves them all, `Tick` the
  queue's scores with them. There is no clock to bound. `StartEvent` and `PollDue` read the clock where the code
  does, so a batch's late orders are re-armed with a window that has already
  begun to run.
- **The optimistic guard** `updated_at <= last_seen_updated_at` is the flag
  `moved`: was the row written, since it was read, with a later `updated_at`.
  `updated_at` is `NOW()`, the start of the writer's transaction, so a writer
  that began before the read and wrote after it is not noticed. In the worker
  there is none. An arm matches no claimed row; what ends or reclaims a claim
  begins after the claim was committed, and nobody else writes the row in
  between. A consumer's own write to the same order is either committed before the
  next message is read or belongs to a zombie handling the same event, whose
  audit insert then fails. So `Apply` is `ApplyAs(c, TRUE)`: what it writes is
  seen as a later write. Lite mode has no partition, see below.
- **One partition.** Events are keyed by order, so orders of different
  partitions share nothing but the resolvers, which handle them one at a time.
  The run `Batch` has two orders for what a pass does to several.
- **due() and LIMIT.** The order within a batch is free and the limits (100,
  500) are left out: they are above any bound used here.
- **A malformed message** is filed under its partition offset. The code takes
  the envelope's own event id when it has one; the review is deduplicated on
  it either way.
- **A message whose handling raises** has no event, whichever of the causes it
  is: bytes that are not UTF-8 (`UnicodeDecodeError`, which `consumer.py:169` does
  not list), an `occurred_at` out of range (`normalize.py:66`), a NUL that the
  JSONB insert refuses. The last one has an event, but its transaction rolls back
  and leaves nothing, so it is not told apart.
- **A Redis restart** without its last second of writes is the loss of an
  entry or a key. An entry that was removed and comes back finds its row not
  pending and is removed again; a fresh entry that reverts to an earlier score
  fires the fresh window early, as a crash before the forced push does.
- **An offset commit of a consumer that lost the partition** fails; `run` lets
  the exception out, the process ends and is restarted idle.
- **The branch of `_apply` for an unexpected action** (`recheck.py:233-241`) has
  no action: `decide` never returns one for a PROCESSING row.
- **The view codec** writes and reads back the same view; enum values it does
  not know can only come from another version of the code.
- **Amounts, currencies and ids** are small sets. A merchant event has an
  amount and is compared with the gateway's like any other.

### LiteService

It extends the pipeline: a request or a tick is one of `Pipeline`'s consumers
while it reconciles an event (`ReadRow`, `ReadView`, `Apply`), a tick is one of
its resolvers while it resolves a recheck (`Claim` to `FinishUnresolved`), and
`Reclaim` is its `ReclaimStuck`. New are what surrounds them:

| Action | Code |
|---|---|
| `Submit`, `Count`, `Insert` | the clock, the cap lock and the count, the merchant rows of `submit_orders`, in one transaction |
| `NextEnvelope` | its loop over the plans |
| `Begin`, `TryLock` | `tick` up to the tick lock |
| `ListDue`, `FilterDue`, `Pay`, `Paid` | `process_due_merchant_transitions`, before and after the rechecks |
| `Reclaim`, `ListArmed`, `ResolveOne`, `NextOrder`, `Resolved` | the sweep pass with a queue that holds nothing |
| `OutOfTime` | the budget checks |

A plan is made of envelopes, so it goes through `Envelopes`. `log` is every
event the plans can produce and never moves: there is no partition, any function
may reconcile any event at any time.

The optimistic guard. Nothing serialises an order here, so a tick's transaction
with a payment may begin before a submit's first arm, read after it, and write
an `updated_at` older than the one the submit read (`state.py:112`). Which of two
transactions began first is not kept. `early` has the functions that may have
begun before the last write to the row they have in hand: whoever had the order in
hand when it was written. What such a function writes may or may not be seen as a
later write (`ApplyAs(p, newer)`), which allows whatever the clock does and more.
The resolvers write under a claim, as in the worker.

Time. A tick compares the deadlines it finds, so none may reach the cut-off
before a tick has seen to it: `Elapse` is the pipeline's `TimePasses` together
with the merchants' timers, and stops while a deadline in use is `MaxLate` past.
A function's clock is read once; `left` is the time to a deadline armed with it.
Time passes at any step of any function, but no function runs longer than
`MaxBusy`.

### Producers

`outbox[p]` is the client library's queue, whose messages the broker stores and
then acknowledges; `Produce`, `Flushed`, `FlushTimeout` and `FailDelivery` are
what `publish` can see of it. A flush that timed out leaves its message in the
queue, and the next request's flush waits for it as well. The handler blocks the
event loop, so it serves one request at a time. `answered` is what the gateway
got a success for; it delivers everything else again.

The simulator goes through `Poll`, `Create`, `Emit`, `Emitted`, `Commit` for a
message and `Scan`, `MarkPaid`, `Emit`, `Emitted`, `Scanned` for a scan; the
transactions of `create_if_absent` and `mark_paid` commit before the publication
starts. A failed publication is an exception nothing catches (`PublishFails`),
or a kill (`CrashSim`): the container starts again from the committed offset.

### Exports and ReconcileTool

`Exports` reads a row out of its cells: the two status tables with all their
words, amounts as fractions with the decimal context's rounding, ids that make a
row a reversal, and what makes a row unusable. `Refuse` answers a request whose
export is unusable as a whole, `Parse` reads both files and puts the rows of the
order under study in fold order, `FoldRow` is one iteration of the loop over
them, `Report` the recheck of an armed order, the verdict, its amount and the
note on ignored rows. A refund or dispute row carries no payment entity, so it
leaves the gateway status alone.

## Runs

| Run | Instance | Question |
|---|---|---|
| `Recovery` | 1 consumer, both resolvers, logs of up to 2 of captured / cancelled / refund, 2 retries, 1 fault | Through crashes, reclaims and lost pushes: fencing, the budget, one ending, `RecordInv` (claims accounted for, reviews, deadlines, pointers derived from the log), and the refinement of `OrderLifecycle` |
| `Zombies` | 2 consumers, runner, logs of up to 2 of captured / pending, 2 faults | A consumer that lost the partition mid-message against its successor and the runner: the view stays the fold (`ViewInv`), terminal rows locked, `PipelineInv` |
| `Redelivery` | 2 consumers, 3 messages of which the first and last are the same, malformed ones that are filed or that raise included, 2 faults | Each event folded once, nothing skipped, everything consumed up to the first message that raises |
| `Batch` | 2 orders, both resolvers, 1 fault | One pass over several orders: every claim accounted for, every review filed |
| `SweepLiveness` | 1 consumer, both resolvers, 1 fault, only the sweep fair | Whatever is armed or claimed ends |
| `ReconcileTool` | requests of up to 3 rows or with a file of one row too many, both units, at most one row per file unreadable or odd, times on all rows or none (any, with two rows) | When the tool may say "mark as paid" and with what amount, and what it must not hide |
| `Lite` | 2 submits, 2 ticks, an order of every scenario, or two orders no merchant pays; 1 kill or lost lock | Each scenario's outcome, the order of payment and recheck, the cap, `LiteInv`, the refinement of `OrderLifecycle` |
| `Producers` | 1 order with a capture, an event without an order, a forged capture; 2 simulators, 1 fault | What an answer to the gateway promises, what the merchant reports, that everything is handled in the end |
| `DroppedReversal`, `LiteSlowSubmit`, `LostMerchantEvent`, `UnseenMismatch` | as small as the counterexample allows | Where the code does not do what its own text says, see below |

Bounds. Two messages are enough for every pair of event kinds in every order,
and a fault may make any of them be handled again. Two retries are the smallest
budget in which a reclaim or a re-arm is not already the last. `RecheckDelay`,
`SweepGrace` and `StuckTimeout` are 0 in the pipeline's runs: a deadline is then
due, past due and past the grace in turn (three values), and a claim is fresh or
stuck, which is every case the code tells apart; a longer wait only adds ticks
before the first of them. One fault is enough to abandon a claim, lose a push or
kill a consumer at any point; the runs with two consumers allow two, so that a
zombie's successor can die too. Consumers are symmetric where no liveness is
checked. `MaxFaults` also bounds recoveries, so a liveness property must hold
with all of them spent at any moment.

`Lite` keeps the order of the real delays (2 s, 20 s, 60 s) with 2, 3 and 4, a
function that takes at most 1 (so `Prompt` holds, see the theorems), and ticks
that come up to 2 late, so a tick can find the payment and the recheck due in
either order, or both long past. The cap is 1, so that two submits race for the
last place; `TickLimit` is 1, which one order with a due transition does not
exceed. That bound matters, see below.
`Producers` has a client queue of 1, full as soon as one publication was given
up. `ReconcileTool` has files of 3 rows, a limit of 3, one file on each side that
exceeds it and is refused, and a decimal precision of 3 digits, which some
products with 100 exceed.

Deadlock checking is off in `ReconcileTool` and `UnseenMismatch`, which end after
the answer, and in `LostMerchantEvent`, which ends when everything was
delivered.

### Fairness

`SweepSpec` is fair to time and to the sweep's own steps and to nothing else:
`SweepService.run` catches every exception of a pass and starts the next one
after the interval, and `docker-compose.yml` restarts the container
(`unless-stopped`). The runner, the consumers and Redis may stop for good.
`ConsumerSpec` is weakly fair to each consumer's steps and to the assignment of
a free partition: `run` polls in a loop, and a dead consumer is restarted.
`FairSpec` of `Producers` is strongly fair to the delivery of each webhook not
yet answered with success, since the gateway retries it however often others
come in between and however often it failed, and weakly fair to the handler, the
broker, the simulators (restarted by the runtime) and time. Lite mode has no
fairness and no liveness: nothing but its callers makes a tick come.

### What the code does not do

Each of these runs checks one sentence of the repository and finds a
counterexample.

- `DroppedReversal`: "a genuine reversal still gets through and gets recorded,
  never dropped" (`README.md:68`, `verisync_architecture_plan.md:52`). A refund
  handled while the row is claimed is audited as ROUTE_DISPUTED and moves
  nothing; the resolver, which read the view before, then auto-corrects.
- `LiteSlowSubmit`: a normal order's expected outcome is RESOLVED_NATURALLY,
  because "Razorpay captured and the merchant marked it paid before the recheck
  fired, so there was nothing to fix" (`lite/scenarios.py:42`). The merchant's
  timer runs from the submit's clock, and the plan's events are reconciled after
  the rows are committed. If that takes longer than the timer, a tick reconciles
  `paid` first, the plan's `pending` folds last, and the recheck corrects an order
  that was paid. Under this run's constants `TerminalLock` fails as well: a tick
  that began before the submit's first arm resolves the order with an older
  `updated_at`, and the submit's next arm takes it out of RESOLVED_NATURALLY.
- `LostMerchantEvent`: "immediate -> emit 'pending' now, 'paid' a beat later"
  (`merchant_sim/simulator.py:7`). The paid row is committed before the event is
  published; a process that dies in between never reports it.
- `UnseenMismatch`: an "amount mismatch" is a correlation failure and goes to
  review (`verisync_architecture_plan.md:50`). Amounts are compared with the
  gateway's only, so a merchant row that is folded before it may state any.

Other places where a sentence and the code part, seen while modelling, that no
run shows:

- "File one review_queue row for a message the worker cannot process"
  (`worker/consumer.py:241`). Only what fails as JSON, or yields no event, is
  filed. A message that raises anything else is redelivered to each new worker
  (`worker/consumer.py:164` says so), so the orders of its partition stop there;
  `EverythingConsumed` states how far they get.
- "Every terminal transition writes `recheck_at = NULL` in the same statement"
  (`worker/state.py:18`). The stuck-claim reclaim reaches DEAD_LETTER and leaves
  the deadline. Nothing arms a dead-lettered order again, so it only shows in the
  table.
- "APPLY_AUTOCORRECT (which only the recheck-claim path produces, never the
  consumer)" (`worker/state.py:329`). An event handled while the row is claimed
  takes the claimed branch of `decide`; the audit log then holds an
  APPLY_AUTOCORRECT that moved no pointer.
- An unresolved recheck is "Re-armed for another window" (`README.md:58`). The
  claim does not look at `recheck_at`: an entry left by a runner that died before
  the forced push fires the new window at once.
- "Reversal-type events. Against a settled order these route to DISPUTED"
  (`decision/models.py:101`). `assess` looks at refund and dispute entities and at
  statuses; a reversal type alone changes nothing unless the row is terminal.
- "Neither side shows a successful payment, so there is nothing to reconcile."
  (`reconcile_tool/run.py:131`) is the reason of every CONSISTENT verdict whose
  last rows are not captured and paid, also when one side did show success.
- "Exact conversion to integer paise" (`reconcile_tool/parse.py:145`). The product
  with 100 is rounded to the decimal context's 28 digits before the test for whole
  paise, so a longer amount can pass it; `AmountsExact` is stated up to there.
- "Chronological per order" (`lite/service.py:184`). The tick's limit is applied
  to the due transitions before they are split around the recheck. With more due
  orders than the limit, a payment due first is left out and its order's recheck
  is claimed; run `Lite` has no more than the limit.

## Theorems

For any set of orders, consumers, events and logs, any delays and budgets and
any number of faults, under the assumptions of `Pipeline` and `Decision`: `Null`
is none of the values it stands beside, the ids the worker makes up
(`system:recheck:...`, `system:sweep:...`) are not event ids, and a message of
the log has an order and is not the system's own.

| Theorem | States |
|---|---|
| `TerminalRowsAreLocked`, `AutoCorrectOnlyWhenClaimed` | what `Decide` can never decide |
| `TypeCorrect` | `[]TypeOK` |
| `Invariance` | `[]PipelineInv` |
| `ResolvedOnce` | at most one ending by the resolvers and the sweep |
| `BudgetRespected` | the shared retry budget |
| `Fenced` | tokens in the row exactly while claimed, and different for two resolvers |
| `NothingSkipped` | committed implies audited or filed; a key implies audited |
| `TerminalLocked` | no way out of a terminal status but DISPUTED |
| `OnlyHolders` | only the live claim's holder writes an outcome |
| `LifecycleImplemented` | `Spec => Lifecycle!Spec` |

The argument. `PipelineInv` is the inductive invariant. Its heart is the race
between an arm and a resolver. The terminal lock holds because a consumer whose
event is not audited yet either read the row's present status or has been marked
as overtaken (`ReadsAreCurrent`), and an overtaken arm matches nothing. A
consumer that read *no* row has no such guard: `_ARM_RECHECK_FRESH` merges into
whatever is there. What saves it is the partition. An event in hand that is not
audited is always the one after the committed offset (`HandlerOnLog`,
`HandledAudited`, `CommittedIsAudited`); every other consumer in hand of that
offset has the same event, so whoever creates the row first audits that event
and the late arm is a replay. `TokenIsLatest`, `TokensDiffer` and
`ResolversOnOrders` give the fencing; `SystemEndingHolds` says an order the
system ended is still terminal, hence cannot be claimed and ended again
(`OneSystemResolution`).

The steps are proved by order: `OrderStep(o)` in `PipelineProofs` lists the ways
one pointer can move, every action is shown to move every order in one of them,
and the budget, the tokens, the terminal lock and the refinement follow from
`OrderStep` alone. `PipelineTypes` proves each action type correct.
`DecisionProofs` gives the types of the decision layer they rest on.

**The log and the pointers** (`PipelineRecords`).

| Theorem | States |
|---|---|
| `RecordInvariance` | `[]RecordInv`, inductive together with `PipelineInv` |
| `EveryClaimAccounted` | each claim ever granted is held, resolved the order, or cost one retry with its audit row |
| `EveryGiveUpReviewed` | every dead letter, and every event a consumer flagged, has its review |
| `PointersDerived` | an unclaimed row's status is one the log says the order was moved to |
| `ArmedSweepable`, `DeadlinesPulledIn` | an armed row has a deadline, and no step postpones it |

Counting the claims needs to know that no audit row is lost to `ON CONFLICT DO
NOTHING`, hence that the id a resolver or the sweep is about to use is new.
`IdsAreUsed` is that: a `recheck` id has a token that was given out and, if the
claim is still held, is not the live one; a `sweep` id has a retry count that was
reached. So the holder's id and the next reclaim's id are fresh, each step adds
exactly one row to the finite set of the order's system rows, and the three
counts move together. `ReviewsAreAudited` gives the same for the review's id: a
dead letter's review cannot be swallowed by an older one. `DeadlineKept` says a
claim keeps the deadline of its row, which is what a reclaim goes back to.

**The views** (`PipelineViews`).

| Theorem | States |
|---|---|
| `ViewInvariance` | `[]ViewInv`, inductive together with `PipelineInv` |
| `ViewsAreFolds` | each stored view is the fold of exactly the audited events of its order, each once, in partition order |

Which events have been folded is the set `Taken(o)` of places in the partition,
and a step that folds adds one place. It is behind all the others: an audited
event was read, so it is no further than the next offset to commit
(`AuditedWasRead`), and an event in hand that is not audited is at that offset.
The view it is folded into is the stored one (`ViewsAreCurrent`), because any
other consumer that could have written it since has the same event in hand, and
whoever comes second is a replay. `FoldOf` is a recursive function; what it
yields is shown by taking the least place where the claim fails
(`FoldsExist`, `FoldsAgree`, `FoldStays`, `FoldOneMore`).

**The producers** (`ProducersProofs`), for any webhooks of the gateway's, each
with an order or none, any number of simulators and faults and any bound of at
least one on the client's queue; `Null` is none of the values it stands beside.

| Theorem | States |
|---|---|
| `ProducersInvariance`, `ProducersTypeCorrect` | `[]ProducersInv`, `[]TypeOK` |
| `AcceptedStays` | what the gateway got a success for is in the topic |
| `CountedOnce` | an event without an order is counted once |
| `OneTrueReport` | no merchant status is reported twice, and a report is true of its row |

`ProducersInv` follows a message from the request that produced it: while the
request waits, its message is in the client's queue, failed, or in the topic, and
only the last lets the flush succeed. `ReportsInv` says where a report
may be: with one simulator about to publish it, in one client's queue, or in the
topic, at most once in all of them, and only of a status its row has had.

**Lite mode** (`LiteProofs`), for any orders (finitely many), scenarios, plans,
functions, delays, cap, limit and number of kills. Of the constants it is assumed
that the two merchant timers lie on either side of the recheck delay (2 s, 20 s
and 60 s in the code), that a function runs no longer than the shorter timer and
`MaxLate` together, so that a deadline it sets stays within the range deadlines
are told apart in (`LiteAssumption`), and that what the demanded scenarios
produce is made of events (`DemandsAssumption`). The theorems on the cap need no
more. All others assume `Prompt`: a function answers before the shorter timer
fires. The code does not enforce that (`lite/config.py:53` sets the timer to 2 s,
a request may take longer), so it is an assumption on the operation, and
`LiteSlowSubmit` shows what is lost without it.

| Theorem | States |
|---|---|
| `CapInvariance`, `CapHolds` | racing submits never take the live orders past the cap |
| `LiteInvariance`, `LiteTyped` | `[]LiteInv`, `[]LiteTypeOK` |
| `LiteFenced`, `LiteOnlyHolders` | overlapping ticks never hold the same claim, and only its holder writes an outcome |
| `LiteRecordsHold` | one ending, the budget, every claim accounted for, every give-up reviewed, pointers derived from the log, armed rows sweepable |
| `LiteTerminalLocked`, `LiteDeadlinesPulledIn` | no way out of a terminal status but DISPUTED; no armed recheck is postponed |
| `LiteImplementsLifecycle` | `LiteSpec => Lifecycle!Spec` |

The cap: a request that has counted holds the cap lock until it inserts, and no
order has come to life since (`CapInv`), so what it counted is still an upper
bound.

The rest is a second use of the pipeline's tables and statements, without the
partition that serialises an order there. `PipelineInv` is therefore split: the
part about the store and the claims (`StoreInv`) and `RecordInv` are shared, and
what the partition gave them has to come from elsewhere. It is the race between
two arms again: a function that read *no* row has no guard, and
`_ARM_RECHECK_FRESH` merges into whatever appeared since. In lite mode

- two requests insert different orders and each reconciles the plans of its own
  (`OwnPlans`), so the only other function that could make a row while a request
  is at work on its order is a tick with the order's payment;
- a tick reconciles only the payment of an order whose merchant has a timer
  (`OwnPayments`); such an order's plan has no reversal (`ViewsPlain`), and a
  payment on such a view arms and disputes nothing when no row was read. So it
  makes no row, and a request that read none still finds none (`ReadsHold`);
- whoever read a row knows its status or has been overtaken, and then its arm matches nothing.

The guard on a row that *was* read compares starts of transactions, and that is
only enough when two functions never have one order in hand (`EventsAlone`). Under
`Prompt` they do not: while a request is at work on an order with a timer, the
order is pending and its payment is still in the future by more than the
request's own age (`PlansFirst`), what a tick pays was due when it looked and what
it has in hand is paid (`PaidInTime`), and no two ticks, nor two requests, have
the same one. A payment that is due and a plan still in hand exclude each other.
`early` is then of no consequence, which `NobodyTold` says.

So every step moves a pointer in one of the ways `OrderStep` lists, and the
lemmas of `PipelineProofs` and `PipelineRecords` on `OrderStep` give the theorems.
`ClocksRecent` says a function's clock is at most `MaxBusy` old, which keeps the
deadlines armed with it in their type; and the laying out of the plans one behind
the other gives that the payment a tick looks for is in the log.

**The reconcile tool** (`ToolProofs`), for exports of any length; the posted
rows are made of the kinds of cell `Exports` enumerates with amounts among those
of the decision layer, and INR is a currency.

| Theorem | States |
|---|---|
| `ToolInvariance`, `ToolTypeCorrect` | `[]ToolInv`, `[]TypeOK` |
| `RecommendedSafely` | "mark as paid" only when the gateway's last word is captured, the merchant's is pending or failed, and no row is a reversal or was rejected |
| `ReversalNeverAbsorbed` | a refund or dispute of a captured payment leaves the order disputed, or in a correlation failure |
| `FirstPaymentDecides`, `OneAmountRecommended` | the amount and currency are those of the first payment, and one amount is recommended |
| `NoRowUnaccounted` | a row that names the order is folded or counted as ignored |
| `AmountsNeverRounded` | a row is folded with the amount its cell states, to the paisa, if the decimal context holds it |

`ToolInv` says of the view what the rows folded so far say of it, and of the
pointer what their decisions did to it; the verdict is then a case split.
`RowsRead` ties each row to the cells it was read from. For the amounts, the
powers of ten are a recursive function (`Tens`), shown by the least place where a
claim fails to exist, to be what its definition says and to grow; a product with
100 then has at most two digits too many, both zero, so its rounding changes
nothing.

Every inductive invariant is checked by TLC as well: `PipelineInv` and `ViewInv`
by `Zombies`, `RecordInv` by `Recovery`, `LiteInv` (of which `CapInv` is a part)
by `Lite`, `ToolInv` by `ReconcileTool`, `ProducersInv` by `Producers`.

**Only model-checked**, and why:

- Liveness (`ArmedIsResolved`, `EverythingConsumed`, `WebhooksAnswered`,
  `CapturesTracked`): it needs fairness and ENABLED, which the provers do not do.
- `ScenarioOutcome`, `ChronologicalPerOrder`. They hold because a function is
  faster than the delays (`LiteSlowSubmit` shows the first one fail otherwise) and
  a tick has room for every due order. A proof has to carry how far each plan has
  come and the clocks of all functions in flight; `LiteInv` does not.

## Plan

Done: `Decision`, `OrderLifecycle`, `Pipeline` with its properties and proofs,
`Envelopes`, `Exports`, `ReconcileTool` and its proofs, `LiteService` and its
proofs, `Producers` and its proofs. Next, in order:

1. A lite mode whose limit is exceeded, once it is settled what should hold then.
2. The outcomes of lite mode's scenarios, from an invariant of `LiteInv` together
   with how far each plan has come and how long ago.

## Not modelled

The dashboard and static pages and `recent_orders` (they only read), the
simulator's checkpoint commands, how cells are spelled in CSV and JSON (hence
neither a number the decimal context overflows on, such as `1E999999`, nor a
`csv.Error`: `handle_reconcile` catches neither and the request ends in a 500) and
which payload field holds a webhook's order, the view codec, the bytes of a signature,
topic creation, settings loading, connection pools and signal handling,
scripts and tests.
