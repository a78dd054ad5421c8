-------------------------- MODULE MCReconcileTool --------------------------
(* Requests of up to three rows: every payment and merchant status, spelled *)
(* as the two files spell them, refund and dispute rows, two amounts, two   *)
(* currencies, rows that cannot be read, times that reorder the rows.       *)
EXTENDS ReconcileTool

MCMaxRows == 3
MCSubIds == 1..MCMaxRows
MCEventIds == {<<f, i>> : f \in {"gateway", "merchant"}, i \in 1..MCMaxRows}
                \cup {<<"recheck", "stateless">>}

Money(n, places) == [n |-> n, places |-> places]
Gateway(word, n, c) ==
  [order |-> Order, status |-> word, amount |-> Money(n, 2), currency |-> c,
   ids |-> {}, time |-> Null]
Merchant(word, amount, c) ==
  [order |-> Order, status |-> word, amount |-> amount, currency |-> c, time |-> Null]

Payments ==
  {Gateway(w, 2, Null) : w \in {"pending", "auth", "paid", "rejected", "reversed"}}
    \cup {Gateway("captured", 1, "INR"), Gateway("captured", 2, "USD")}
Reversals ==
  {[Gateway("captured", 1, Null) EXCEPT !.ids = {"refund", "dispute"}],
   [Gateway(Null, 1, "USD") EXCEPT !.ids = {"refund"}],
   [Gateway("unheard_of", 2, "INR") EXCEPT !.ids = {"dispute"}]}
\* A fraction of a paisa, more digits than decimal arithmetic keeps, no amount
\* on a refund, a wrong word, a bad currency, no order, not an object.
Unusual ==
  {[Gateway("settled", 2, "INR") EXCEPT !.amount = Money(25, 3)],
   [Gateway("settled", 2, "INR") EXCEPT !.amount = Money(2004, 5)],
   [Gateway(Null, 2, Null) EXCEPT !.amount = Null, !.ids = {"refund"}],
   Gateway("processing", 2, Null), Gateway("captured", 2, Garbled),
   [Gateway("captured", 2, Null) EXCEPT !.order = Null], Null}

Records ==
  {Merchant(w, Money(2, 2), "INR") : w \in {"new", "processing", "error", "void", "refund"}}
    \cup {Merchant("paid", a, Null) : a \in {Money(1, 2), Null}}
UnusualRecords ==
  {Merchant("settled", Null, Null), Merchant("unpaid", Money(-2, 2), Null),
   Merchant("paid", Money(2, 0), Null),
   [Merchant("pending", Null, Null) EXCEPT !.time = Garbled]}

\* Up to three rows, at most one of them unusual.
Small(usual, unusual) ==
  {f \in UNION {[1..n -> usual \cup unusual] : n \in 0..MCMaxRows} :
     Cardinality({i \in DOMAIN f : f[i] \in unusual}) <= 1}

\* One row more than a file may have.
TooLong(cells) == [i \in 1..FileLimit + 1 |-> cells]

AllGatewayExports ==
  Small(Payments \cup Reversals, Unusual) \cup {TooLong(Gateway("captured", 2, "INR"))}
AllMerchantExports ==
  Small(Records, UnusualRecords) \cup {TooLong(Merchant("pending", Money(2, 2), "INR"))}

\* What a cfg puts in the place of a constant is evaluated at every use; the value
\* of a definition beside it is kept.
MCGatewayExports == AllGatewayExports
MCMerchantExports == AllMerchantExports
=============================================================================
