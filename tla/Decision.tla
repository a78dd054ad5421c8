------------------------------ MODULE Decision ------------------------------
(***************************************************************************)
(* The pure decision layer (decision/): fold one event into an order's     *)
(* view, check that it correlates, classify the drift between the gateway  *)
(* and the merchant, and choose the action.  No state: the worker, the     *)
(* recheck runner and the reconcile tool all evaluate these operators.     *)
(*                                                                         *)
(* Data is abstracted to what the decisions tell apart.  An event's type   *)
(* is "capture" (_CAPTURE_EVENTS), "reversal" (REVERSAL_EVENT_TYPES) or    *)
(* "other"; Null is Python's None; a currency is already upper-cased;      *)
(* timestamps are never compared by this layer and are left out.           *)
(***************************************************************************)
EXTENDS Naturals, FiniteSets

CONSTANTS
  Null,        \* None
  Orders,      \* order ids
  Amounts,     \* amounts in minor units
  Currencies,  \* currency codes
  SubIds,      \* refund and dispute ids
  EventIds     \* event ids, the audit log's idempotency key

PaymentStatus  == {"created", "authorized", "captured", "failed", "refunded"}
MerchantStatus == {"pending", "paid", "failed", "cancelled", "refunded"}
Sources        == {"razorpay", "merchant", "system"}

TerminalStatuses ==
  {"RESOLVED_AUTOCORRECTED", "RESOLVED_NATURALLY", "DISPUTED", "DEAD_LETTER"}
ReconStatus == {"PENDING_RECHECK", "PROCESSING"} \cup TerminalStatuses

DriftKinds == {"NONE", "SAFE", "UNSAFE", "REVERSAL", "INDETERMINATE"}
Actions ==
  {"NO_OP", "ARM_RECHECK", "APPLY_AUTOCORRECT", "MARK_RESOLVED_NATURALLY",
   "FLAG_FOR_REVIEW", "ROUTE_DISPUTED", "LOCKED_REPLAY_IGNORED"}
CorrelationFailures ==
  {"missing_order_id", "currency_mismatch", "amount_mismatch", "no_merchant_record"}

\* None is none of the values it stands in for.
ASSUME NullAssumption ==
  /\ Null \notin Orders /\ Null \notin Amounts
  /\ Null \notin Currencies /\ Null \notin SubIds
  /\ Null \notin PaymentStatus \cup MerchantStatus \cup ReconStatus
  /\ Null \notin CorrelationFailures \cup {"refund", "dispute", "unsafe_drift"}

Event ==
  [id : EventIds, source : Sources, type : {"capture", "reversal", "other"},
   order : Orders \cup {Null},
   payment : PaymentStatus \cup {Null}, merchant : MerchantStatus \cup {Null},
   amount : Amounts \cup {Null}, currency : Currencies \cup {Null},
   sub : {Null, "refund", "dispute"}, subId : SubIds \cup {Null}]

View ==
  [rp : PaymentStatus \cup {Null}, mc : MerchantStatus \cup {Null},
   amount : Amounts \cup {Null}, currency : Currencies \cup {Null},
   settled : BOOLEAN, reversals : SUBSET SubIds, seen : SUBSET EventIds]

EmptyView ==
  [rp |-> Null, mc |-> Null, amount |-> Null, currency |-> Null,
   settled |-> FALSE, reversals |-> {}, seen |-> {}]

Decision ==
  [action : Actions, new : ReconStatus \cup {Null}, rearm : BOOLEAN,
   review : CorrelationFailures \cup {"unsafe_drift", Null},
   direction : DriftKinds \cup {"NEUTRAL"}]

-----------------------------------------------------------------------------
\* Whether the event may break the terminal lock.
IsReversal(e) == e.type = "reversal" \/ e.sub # Null

\* x unless it is None, then y.
OrElse(x, y) == IF x # Null THEN x ELSE y

\* Fold one event into the view.  The last status of each side wins; the
\* amount and currency are the gateway's first.
Project(v, e) ==
  LET gateway  == e.source = "razorpay"
      captured == gateway /\ e.type = "capture"
      paid     == IF captured THEN "captured" ELSE e.payment
  IN [v EXCEPT
        !.rp        = IF gateway THEN OrElse(paid, @) ELSE @,
        !.mc        = IF e.source = "merchant" THEN OrElse(e.merchant, @) ELSE @,
        !.amount    = IF gateway /\ ~IsReversal(e) THEN OrElse(@, e.amount) ELSE @,
        !.currency  = IF gateway THEN OrElse(@, e.currency) ELSE @,
        !.settled   = @ \/ (gateway /\ (captured \/ e.payment \in {"captured", "refunded"})),
        !.reversals = IF e.sub # Null /\ e.subId # Null THEN @ \cup {e.subId} ELSE @,
        !.seen      = @ \cup {e.id}]

\* Two recorded values that contradict each other; None contradicts nothing.
Conflicts(x, y) == x # Null /\ y # Null /\ x # y

\* Why the event cannot be trusted against the view, Null when it can.
Correlate(v, e, merchantRequired) ==
  IF e.order = Null THEN "missing_order_id"
  ELSE IF Conflicts(e.currency, v.currency) THEN "currency_mismatch"
  ELSE IF Conflicts(e.amount, v.amount) /\ ~IsReversal(e) THEN "amount_mismatch"
  ELSE IF merchantRequired /\ Project(v, e).mc = Null THEN "no_merchant_record"
  ELSE Null

\* Drift that ignores refunds and takes a cancelled order for a lagging one.
AssessLagOnly(v) ==
  CASE v.rp = "captured" -> IF v.mc = "paid" THEN "NONE" ELSE "SAFE"
    [] v.rp = "failed"   -> IF v.mc = "paid" THEN "UNSAFE" ELSE "NONE"
    [] OTHER             -> "INDETERMINATE"

\* The drift between the two sides of the view.
Assess(v) ==
  LET reversed == v.reversals # {} /\ \/ v.settled
                                      \/ v.rp \in {"captured", "refunded"}
                                      \/ v.mc = "paid"
  IN CASE reversed -> "REVERSAL"
       [] ~reversed /\ v.rp = "refunded" -> IF v.settled THEN "REVERSAL" ELSE "NONE"
       [] ~reversed /\ v.rp = "captured" ->
            (CASE v.mc = "paid"      -> "NONE"
               [] v.mc = "cancelled" -> "UNSAFE"
               [] v.mc = "refunded"  -> "REVERSAL"
               [] OTHER              -> "SAFE")
       [] ~reversed /\ v.rp = "failed" /\ v.mc # Null ->
            IF v.mc = "paid" THEN "UNSAFE" ELSE "NONE"
       [] OTHER -> "INDETERMINATE"

-----------------------------------------------------------------------------
\* The outcomes decide() can return.
Quiet(action)        == [action |-> action, new |-> Null, rearm |-> FALSE,
                         review |-> Null, direction |-> "NEUTRAL"]
Flag(reason, dir)    == [Quiet("FLAG_FOR_REVIEW") EXCEPT !.review = reason, !.direction = dir]
Move(action, s, dir) == [Quiet(action) EXCEPT !.new = s, !.direction = dir]
Arm(dir)             == [Move("ARM_RECHECK", "PENDING_RECHECK", dir) EXCEPT !.rearm = TRUE]
Dispute              == Move("ROUTE_DISPUTED", "DISPUTED", "REVERSAL")
ResolveNaturally     == Move("MARK_RESOLVED_NATURALLY", "RESOLVED_NATURALLY", "NEUTRAL")
AutoCorrect          == Move("APPLY_AUTOCORRECT", "RESOLVED_AUTOCORRECTED", "SAFE")

\* The claimed recheck of a PROCESSING row.
DecideClaimed(drift) ==
  CASE drift = "SAFE"     -> AutoCorrect
    [] drift = "NONE"     -> ResolveNaturally
    [] drift = "REVERSAL" -> Dispute
    [] OTHER              -> Arm(drift)

\* Fresh detection: no row, or one armed and not yet claimed.
DecideFresh(drift, status) ==
  CASE drift = "SAFE"     -> Arm("SAFE")
    [] drift = "UNSAFE"   -> Flag("unsafe_drift", "UNSAFE")
    [] drift = "REVERSAL" -> Dispute
    [] drift = "NONE" /\ status = "PENDING_RECHECK" -> ResolveNaturally
    [] OTHER              -> Quiet("NO_OP")

\* A decision without the reversal allow-list on the terminal lock.
DecideNoAllowList(e, failure, drift, status) ==
  CASE status \in TerminalStatuses -> Quiet("LOCKED_REPLAY_IGNORED")
    [] status \notin TerminalStatuses /\ failure # Null -> Flag(failure, "NEUTRAL")
    [] status = "PROCESSING" /\ failure = Null -> DecideClaimed(drift)
    [] OTHER -> DecideFresh(drift, status)

\* What to do with an event, given the correlation failure (or Null), the
\* drift of the projected view and the status of the order's row (or Null).
\* The terminal lock comes first, then correlation, then drift.
Decide(e, failure, drift, status) ==
  CASE status \in TerminalStatuses ->
         IF IsReversal(e) /\ status # "DISPUTED" THEN Dispute
         ELSE Quiet("LOCKED_REPLAY_IGNORED")
    [] status \notin TerminalStatuses /\ failure # Null -> Flag(failure, "NEUTRAL")
    [] status = "PROCESSING" /\ failure = Null -> DecideClaimed(drift)
    [] OTHER -> DecideFresh(drift, status)

\* An evaluation that stores what a rejected event said.
EvaluateLeaky(e, v, status, merchantRequired) ==
  LET failure == Correlate(v, e, merchantRequired) IN
  [decision |-> Decide(e, failure, Assess(Project(v, e)), status),
   view     |-> Project(v, e)]

\* evaluate(): correlate, assess, decide, and the view to persist.  A rejected
\* event leaves only its id in the view.
Evaluate(e, v, status, merchantRequired) ==
  LET failure == Correlate(v, e, merchantRequired) IN
  [decision |-> Decide(e, failure, Assess(Project(v, e)), status),
   view     |-> IF failure = Null THEN Project(v, e)
                ELSE [v EXCEPT !.seen = @ \cup {e.id}]]

\* The synthetic event a fired recheck is evaluated with.
RecheckEvent(id, o) ==
  [id |-> id, source |-> "system", type |-> "other", order |-> o,
   payment |-> Null, merchant |-> Null, amount |-> Null, currency |-> Null,
   sub |-> Null, subId |-> Null]

\* evaluate_recheck(): the row is PROCESSING, a merchant record is required.
EvaluateRecheck(id, o, v) == Evaluate(RecheckEvent(id, o), v, "PROCESSING", TRUE)
=============================================================================
