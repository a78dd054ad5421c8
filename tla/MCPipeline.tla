----------------------------- MODULE MCPipeline -----------------------------
(* Pipeline on small partitions: every log of up to MaxLog messages of one  *)
(* order over a set of kinds of event, each with an id of its own; logs     *)
(* that hold an event twice; and a log of two orders.                       *)
EXTENDS PipelineProps, TLC

CONSTANTS o1, MaxLog, Kinds

\* Consumers are interchangeable.
Symmetry == Permutations(Consumers)

MCEventIds == {<<"event", n>> : n \in 1..3}

Base(n, source) ==
  [id |-> <<"event", n>>, source |-> source, type |-> "other", order |-> o1,
   payment |-> Null, merchant |-> Null, amount |-> Null, currency |-> Null,
   sub |-> Null, subId |-> Null]

Gateway(n)  == [Base(n, "razorpay") EXCEPT !.amount = 2, !.currency = "INR"]
Merchant(n) == [Base(n, "merchant") EXCEPT !.amount = 2]

\* The kinds of event an order sees.
MessageOf(kind, n) ==
  CASE kind = "captured"   -> [Gateway(n) EXCEPT !.type = "capture", !.payment = "captured"]
    [] kind = "authorized" -> [Gateway(n) EXCEPT !.payment = "authorized"]
    [] kind = "failed"     -> [Gateway(n) EXCEPT !.payment = "failed"]
    [] kind = "mismatch"   -> [Gateway(n) EXCEPT !.type = "capture", !.payment = "captured",
                                                 !.amount = 1]
    [] kind = "refund"     -> [Gateway(n) EXCEPT !.type = "reversal", !.amount = 1,
                                                 !.sub = "refund", !.subId = n]
    [] kind = "pending"    -> [Merchant(n) EXCEPT !.merchant = "pending"]
    [] kind = "paid"       -> [Merchant(n) EXCEPT !.merchant = "paid"]
    [] kind = "cancelled"  -> [Merchant(n) EXCEPT !.merchant = "cancelled"]
    [] OTHER               -> Null

AllLogs ==
  {[i \in DOMAIN s |-> MessageOf(s[i], i)] : s \in UNION {[1..n -> Kinds] : n \in 1..MaxLog}}

\* The gateway retries a webhook whose publication timed out: the same event twice.
DuplicateLogs ==
  {<<MessageOf(k, 1), MessageOf(j, 2), MessageOf(k, 1)>> : k \in Kinds, j \in Kinds}

\* Two orders that no merchant record ever arrives for, armed one after the other.
BatchLogs ==
  {<<[MessageOf("captured", 1) EXCEPT !.order = x], [MessageOf("captured", 2) EXCEPT !.order = y]>> :
     <<x, y>> \in {p \in Orders \X Orders : p[1] # p[2] /\ p[1] = o1}}

\* What a cfg puts in the place of a constant is evaluated at every use; the value
\* of a definition beside it is kept.
MCLogs == AllLogs
MCDuplicateLogs == DuplicateLogs
MCBatchLogs == BatchLogs
=============================================================================
