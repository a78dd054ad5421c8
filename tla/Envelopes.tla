------------------------------ MODULE Envelopes ------------------------------
(***************************************************************************)
(* The envelopes that stand for one provider message, as the simulator,    *)
(* lite mode and the reconcile tool build them (merchant_sim/envelopes.py),*)
(* and the event worker/normalize.py makes of one.                         *)
(*                                                                         *)
(* raw is the provider's body: of the gateway the entities under payload,  *)
(* Null where there is none, of the merchant the record itself.  An entity *)
(* is [id, status, amount, currency]; a field that is missing, blank or of *)
(* a wrong type is Null.                                                   *)
(***************************************************************************)
EXTENDS Decision

NoEntities == [payment |-> Null, refund |-> Null, dispute |-> Null, order |-> Null]

\* razorpay_envelope: one entity, under its key.
RazorpayEnvelope(id, type, o, key, entity) ==
  [id |-> id, source |-> "razorpay", type |-> type, order |-> o,
   raw |-> [NoEntities EXCEPT ![key] = entity]]

\* merchant_envelope: the id is made of the order and the status.
MerchantEnvelope(o, status, amount, currency) ==
  [id |-> <<o, status>>, source |-> "merchant", type |-> "other", order |-> o,
   raw |-> [status |-> status, amount |-> amount, currency |-> currency]]

-----------------------------------------------------------------------------
\* A status the enumeration does not hold is no status.
Known(status, statuses) == IF status \in statuses THEN status ELSE Null

\* A reversal entity, a refund before a dispute.
SubEntity(raw) ==
  CASE raw.refund # Null -> "refund"
    [] raw.refund = Null /\ raw.dispute # Null -> "dispute"
    [] OTHER -> Null

\* The entity whose amount and currency the message states, even if it leaves
\* them blank: the payment, else the reversal, else the order.
Stating(raw) ==
  CASE raw.payment # Null -> raw.payment
    [] raw.payment = Null /\ SubEntity(raw) # Null -> raw[SubEntity(raw)]
    [] OTHER -> raw.order

RazorpayFields(raw) ==
  LET sub     == SubEntity(raw)
      stating == Stating(raw)
  IN [payment  |-> IF raw.payment = Null THEN Null
                   ELSE Known(raw.payment.status, PaymentStatus),
      merchant |-> Null,
      amount   |-> IF stating = Null THEN Null ELSE stating.amount,
      currency |-> IF stating = Null THEN Null ELSE stating.currency,
      sub      |-> sub,
      subId    |-> IF sub = Null THEN Null ELSE raw[sub].id]

MerchantFields(raw) ==
  [payment |-> Null, merchant |-> Known(raw.status, MerchantStatus),
   amount |-> raw.amount, currency |-> raw.currency, sub |-> Null, subId |-> Null]

\* envelope_to_event: Null when it has no id, no order or no provider.
EnvelopeToEvent(env) ==
  LET fields == IF env.source = "razorpay" THEN RazorpayFields(env.raw)
                                           ELSE MerchantFields(env.raw)
  IN IF \/ env.id = Null \/ env.order = Null
        \/ env.source \notin {"razorpay", "merchant"}
     THEN Null
     ELSE [id |-> env.id, source |-> env.source, type |-> env.type, order |-> env.order,
           payment |-> fields.payment, merchant |-> fields.merchant,
           amount |-> fields.amount, currency |-> fields.currency,
           sub |-> fields.sub, subId |-> fields.subId]
=============================================================================
