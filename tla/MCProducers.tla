---------------------------- MODULE MCProducers ----------------------------
(* The producers with one order: the gateway has a capture and an order.paid *)
(* of it, an event without an order and a forged capture.                   *)
EXTENDS Producers, TLC

CONSTANTS o1, Kinds

Webhook(kind) ==
  [id |-> <<"evt", kind>>, source |-> "razorpay",
   type |-> IF kind \in {"orderless", "failed"} THEN "other" ELSE "capture",
   order |-> IF kind = "orderless" THEN Null ELSE o1]

MCWebhooks == {Webhook(k) : k \in Kinds}
MCForged   == {w \in MCWebhooks : w = Webhook("forged")}
=============================================================================
