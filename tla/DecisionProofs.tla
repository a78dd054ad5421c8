--------------------------- MODULE DecisionProofs ---------------------------
(***************************************************************************)
(* Facts about the pure decision layer that hold for every order, event    *)
(* and view: what its operators return, and what they can never decide.    *)
(***************************************************************************)
EXTENDS Decision, WellFoundedInduction, TLAPS

\* Induction on naturals: where a claim fails at all, there is a first place.
LEMMA LeastNatural ==
  ASSUME NEW S \in SUBSET Nat, S # {}
  PROVE  \E i \in S : \A j \in S : i <= j
<1> DEFINE R == OpToRel(<, Nat)
<1>1. IsWellFoundedOn(R, Nat)
  BY NatLessThanWellFounded, Zenon
<1>2. R = {ss \in Nat \X Nat : ss[1] < ss[2]}
  BY Zenon DEF OpToRel
<1> HIDE DEF R
<1>3. PICK i \in S : \A j \in S : ~(<<j, i>> \in R)
  BY <1>1, WFMin
<1>4. ASSUME NEW j \in S PROVE i <= j
  <2>1. <<j, i>> \in Nat \X Nat /\ <<j, i>>[1] = j /\ <<j, i>>[2] = i
    OBVIOUS
  <2>2. j < i => <<j, i>> \in R
    BY <1>2, <2>1
  <2> QED
    BY <1>3, <2>2
<1> QED
  BY <1>4

LEMMA AssessType ==
  ASSUME NEW v
  PROVE  Assess(v) \in DriftKinds
BY DEF Assess, DriftKinds

LEMMA CorrelateType ==
  ASSUME NEW v, NEW e, NEW b
  PROVE  Correlate(v, e, b) \in CorrelationFailures \cup {Null}
BY DEF Correlate, CorrelationFailures

LEMMA ProjectType ==
  ASSUME NEW v \in View, NEW e \in Event
  PROVE  Project(v, e) \in View
<1> DEFINE gateway   == e.source = "razorpay"
           captured  == gateway /\ e.type = "capture"
           paid      == IF captured THEN "captured" ELSE e.payment
           rp        == IF gateway THEN OrElse(paid, v.rp) ELSE v.rp
           mc        == IF e.source = "merchant" THEN OrElse(e.merchant, v.mc) ELSE v.mc
           amount    == IF gateway /\ ~IsReversal(e) THEN OrElse(v.amount, e.amount) ELSE v.amount
           currency  == IF gateway THEN OrElse(v.currency, e.currency) ELSE v.currency
           settled   == v.settled \/ (gateway /\ (captured \/ e.payment \in {"captured", "refunded"}))
           reversals == IF e.sub # Null /\ e.subId # Null THEN v.reversals \cup {e.subId} ELSE v.reversals
           seen      == v.seen \cup {e.id}
<1>1. rp \in PaymentStatus \cup {Null} /\ mc \in MerchantStatus \cup {Null}
  BY DEF Event, View, OrElse, PaymentStatus
<1>2. amount \in Amounts \cup {Null} /\ currency \in Currencies \cup {Null}
  BY DEF Event, View, OrElse
<1>3. settled \in BOOLEAN
  OBVIOUS
<1>4. reversals \in SUBSET SubIds /\ seen \in SUBSET EventIds
  BY DEF Event, View
<1>5. Project(v, e) = [v EXCEPT !.rp = rp, !.mc = mc, !.amount = amount,
                                !.currency = currency, !.settled = settled,
                                !.reversals = reversals, !.seen = seen]
  BY Zenon DEF Project
<1> HIDE DEF rp, mc, amount, currency, settled, reversals, seen
<1>6. [v EXCEPT !.rp = rp, !.mc = mc, !.amount = amount, !.currency = currency,
                !.settled = settled, !.reversals = reversals, !.seen = seen] \in View
  BY <1>1, <1>2, <1>3, <1>4 DEF View
<1> QED
  BY <1>5, <1>6, Zenon

\* What decide() returns, whatever the event and the row's status.
LEMMA DecideType ==
  ASSUME NEW e, NEW failure \in CorrelationFailures \cup {Null},
         NEW drift \in DriftKinds, NEW status
  PROVE  Decide(e, failure, drift, status) \in Decision
<1>1. DecideClaimed(drift) \in Decision
  BY DEF DecideClaimed, AutoCorrect, ResolveNaturally, Dispute, Arm, Move, Quiet, Decision,
         Actions, ReconStatus, TerminalStatuses, DriftKinds
<1>2. DecideFresh(drift, status) \in Decision
  BY DEF DecideFresh, Flag, ResolveNaturally, Dispute, Arm, Move, Quiet, Decision,
         Actions, ReconStatus, TerminalStatuses, DriftKinds
<1>3. Dispute \in Decision /\ Quiet("LOCKED_REPLAY_IGNORED") \in Decision
  BY DEF Dispute, Move, Quiet, Decision, Actions, ReconStatus, TerminalStatuses, DriftKinds
<1>4. failure # Null => Flag(failure, "NEUTRAL") \in Decision
  BY DEF Flag, Quiet, Decision, Actions
<1> QED
  BY <1>1, <1>2, <1>3, <1>4 DEF Decide

LEMMA EvaluateType ==
  ASSUME NEW e, NEW v, NEW status, NEW b
  PROVE  Evaluate(e, v, status, b).decision \in Decision
BY AssessType, CorrelateType, DecideType DEF Evaluate

LEMMA EvaluateViewType ==
  ASSUME NEW v \in View, NEW e \in Event, NEW status, NEW b
  PROVE  Evaluate(e, v, status, b).view \in View
<1>1. e.id \in EventIds
  BY DEF Event
<1>2. [v EXCEPT !.seen = @ \cup {e.id}] \in View
  BY <1>1 DEF View
<1> QED
  BY <1>2, ProjectType DEF Evaluate

\* The terminal lock of decide() (decision/actions.py): against a terminal row
\* the only decisions are to ignore the event, or to dispute the order when the
\* event is a reversal and the order is not disputed yet.
THEOREM TerminalRowsAreLocked ==
  ASSUME NEW e, NEW v, NEW status \in TerminalStatuses, NEW b
  PROVE  LET d == Evaluate(e, v, status, b).decision IN
         \/ d = Quiet("LOCKED_REPLAY_IGNORED")
         \/ d = Dispute /\ IsReversal(e) /\ status # "DISPUTED"
<1> DEFINE failure == Correlate(v, e, b)
           drift   == Assess(Project(v, e))
<1>1. Evaluate(e, v, status, b).decision = Decide(e, failure, drift, status)
  BY DEF Evaluate
<1>2. Decide(e, failure, drift, status) =
        IF IsReversal(e) /\ status # "DISPUTED" THEN Dispute ELSE Quiet("LOCKED_REPLAY_IGNORED")
  BY DEF Decide, TerminalStatuses
<1> QED
  BY <1>1, <1>2

\* A drift is only ever called safe when the gateway's last word is captured, no
\* refund or dispute is on record and the merchant did not close the order
\* itself (decision/compare.py's direction rules).
LEMMA SafeMeansLag ==
  ASSUME NEW v, Assess(v) = "SAFE"
  PROVE  v.rp = "captured" /\ v.reversals = {} /\ v.mc \notin {"paid", "cancelled", "refunded"}
BY DEF Assess

\* A correction is recommended only for a claimed row, for an event that
\* correlates, on a capture the merchant merely lags behind.
THEOREM AutoCorrectOnlyWhenClaimed ==
  ASSUME NEW e, NEW v, NEW status, NEW b,
         Evaluate(e, v, status, b).decision.action = "APPLY_AUTOCORRECT"
  PROVE  /\ status = "PROCESSING" /\ Correlate(v, e, b) = Null
         /\ Project(v, e).rp = "captured" /\ Project(v, e).reversals = {}
         /\ Project(v, e).mc \notin {"paid", "cancelled", "refunded"}
<1> DEFINE failure == Correlate(v, e, b)
           drift   == Assess(Project(v, e))
<1>1. Decide(e, failure, drift, status).action = "APPLY_AUTOCORRECT"
  BY DEF Evaluate
<1>2. DecideFresh(drift, status).action # "APPLY_AUTOCORRECT"
  BY DEF DecideFresh, Flag, ResolveNaturally, Dispute, Arm, Move, Quiet
<1>3. Dispute.action # "APPLY_AUTOCORRECT"
      /\ Quiet("LOCKED_REPLAY_IGNORED").action # "APPLY_AUTOCORRECT"
      /\ Flag(failure, "NEUTRAL").action # "APPLY_AUTOCORRECT"
  BY DEF Flag, Dispute, Move, Quiet
<1>4. status = "PROCESSING" /\ failure = Null
      /\ DecideClaimed(drift).action = "APPLY_AUTOCORRECT"
  BY <1>1, <1>2, <1>3 DEF Decide
<1>5. drift = "SAFE"
  BY <1>4 DEF DecideClaimed, ResolveNaturally, Dispute, Arm, Move, Quiet
<1> QED
  BY <1>4, <1>5, SafeMeansLag
=============================================================================
