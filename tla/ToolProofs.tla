----------------------------- MODULE ToolProofs -----------------------------
(***************************************************************************)
(* The verdicts of the reconcile tool, for any exports, number of rows,    *)
(* amounts, currencies and times.                                          *)
(***************************************************************************)
EXTENDS ReconcileTool, DecisionProofs, FiniteSetTheorems, SequenceTheorems

-----------------------------------------------------------------------------
(* Amounts: powers of ten, digits and rounding.                            *)

\* The first n + 1 powers of ten.
Powers(f, n) == f = [k \in 0..n |-> IF k = 0 THEN 1 ELSE 10 * f[k - 1]]

LEMMA PowersMean ==
  ASSUME NEW f, NEW n \in Nat, Powers(f, n)
  PROVE  f[0] = 1 /\ \A k \in 1..n : f[k] = 10 * f[k - 1]
<1>1. \A k \in 0..n : f[k] = IF k = 0 THEN 1 ELSE 10 * f[k - 1]
  BY Zenon DEF Powers
<1>2. 0 \in 0..n /\ \A k \in 1..n : k \in 0..n /\ k # 0
  OBVIOUS
<1> QED
  BY <1>1, <1>2

LEMMA PowersOn ==
  ASSUME NEW f, NEW n \in Nat, Powers(f, n)
  PROVE  \E g : Powers(g, n + 1)
<1> DEFINE g == [k \in 0..(n + 1) |-> IF k = n + 1 THEN 10 * f[n] ELSE f[k]]
<1>1. ASSUME NEW k \in 0..(n + 1)
      PROVE  g[k] = IF k = 0 THEN 1 ELSE 10 * g[k - 1]
  <2>1. CASE k = n + 1
    <3>1. k # 0 /\ k - 1 = n /\ n \in 0..(n + 1) /\ n # n + 1
      BY <2>1
    <3>2. g[k] = 10 * f[n] /\ g[k - 1] = f[n]
      BY <2>1, <3>1
    <3> HIDE DEF g
    <3> QED
      BY <3>1, <3>2
  <2>2. CASE k # n + 1
    <3>1. k \in 0..n /\ (k # 0 => k - 1 \in 0..(n + 1) /\ k - 1 # n + 1 /\ k \in 1..n)
      BY <2>2
    <3>2. g[k] = f[k] /\ (k # 0 => g[k - 1] = f[k - 1])
      BY <2>2, <3>1
    <3> HIDE DEF g
    <3> QED
      BY <3>1, <3>2, PowersMean
  <2> QED
    BY <2>1, <2>2
<1>2. g = [k \in 0..(n + 1) |-> g[k]]
  OBVIOUS
<1> HIDE DEF g
<1>3. Powers(g, n + 1)
  BY <1>1, <1>2 DEF Powers
<1> QED
  BY <1>3

LEMMA PowersExist ==
  ASSUME NEW n \in Nat
  PROVE  \E f : Powers(f, n)
<1> DEFINE S == {k \in Nat : ~\E f : Powers(f, k)}
<1>1. SUFFICES ASSUME S # {} PROVE FALSE
  OBVIOUS
<1>2. PICK k \in S : \A j \in S : k <= j
  BY <1>1, LeastNatural
<1>3. CASE k = 0
  <2> DEFINE f == [j \in 0..0 |-> 1]
  <2>1. Powers(f, 0)
    BY DEF Powers
  <2> QED
    BY <1>2, <1>3, <2>1
<1>4. CASE k # 0
  <2>1. k \in Nat /\ k - 1 \in Nat /\ ~(k <= k - 1)
    BY <1>2, <1>4
  <2>2. k - 1 \notin S
    BY <1>2, <2>1
  <2>3. PICK f : Powers(f, k - 1)
    BY <2>1, <2>2
  <2>4. \E g : Powers(g, (k - 1) + 1)
    BY <2>1, <2>3, PowersOn
  <2>5. (k - 1) + 1 = k
    BY <2>1
  <2> QED
    BY <1>2, <2>4, <2>5
<1> QED
  BY <1>3, <1>4

LEMMA PowersAgree ==
  ASSUME NEW f, NEW g, NEW n \in Nat, NEW m \in Nat, NEW k \in 0..n, k \in 0..m,
         Powers(f, n), Powers(g, m)
  PROVE  f[k] = g[k]
<1> DEFINE S == {j \in 0..k : f[j] # g[j]}
<1>1. SUFFICES ASSUME S # {} PROVE FALSE
  OBVIOUS
<1>2. PICK i \in S : \A j \in S : i <= j
  <2>1. S \in SUBSET Nat
    OBVIOUS
  <2> HIDE DEF S
  <2> QED
    BY <1>1, <2>1, LeastNatural
<1>3. f[0] = g[0]
  BY PowersMean
<1>4. i # 0
  BY <1>2, <1>3
<1>5. i \in 1..n /\ i \in 1..m /\ i - 1 \in 0..k /\ ~(i <= i - 1)
  BY <1>2, <1>4
<1>6. f[i - 1] = g[i - 1]
  BY <1>2, <1>5
<1>7. f[i] = g[i]
  BY <1>5, <1>6, PowersMean
<1> QED
  BY <1>2, <1>7

\* The powers of ten are what their recursive definition says.
LEMMA TensMean ==
  /\ Tens[0] = 1
  /\ \A k \in Nat : Tens[k + 1] = 10 * Tens[k]
<1> DEFINE p(n) == CHOOSE f : Powers(f, n)
           t == [k \in Nat |-> p(k)[k]]
<1>1. \A n \in Nat : Powers(p(n), n)
  BY PowersExist, Zenon
<1> HIDE DEF p
<1>2. ASSUME NEW k \in Nat PROVE t[k] = IF k = 0 THEN 1 ELSE 10 * t[k - 1]
  <2>1. t[k] = p(k)[k] /\ Powers(p(k), k)
    BY <1>1
  <2>2. CASE k = 0
    BY <2>1, <2>2, PowersMean
  <2>3. CASE k # 0
    <3>1. k \in 1..k /\ k - 1 \in Nat /\ k - 1 \in 0..k /\ k - 1 \in 0..(k - 1)
      BY <2>3
    <3>2. p(k)[k] = 10 * p(k)[k - 1]
      BY <2>1, <3>1, PowersMean
    <3>3. t[k - 1] = p(k - 1)[k - 1] /\ Powers(p(k - 1), k - 1)
      BY <1>1, <3>1
    <3>4. p(k)[k - 1] = p(k - 1)[k - 1]
      BY <2>1, <3>1, <3>3, PowersAgree
    <3> HIDE DEF t
    <3> QED
      BY <2>1, <2>3, <3>2, <3>3, <3>4
  <2> QED
    BY <2>2, <2>3
<1>3. t = [k \in Nat |-> t[k]]
  OBVIOUS
<1> HIDE DEF t
<1>4. t = [k \in Nat |-> IF k = 0 THEN 1 ELSE 10 * t[k - 1]]
  BY <1>2, <1>3
<1>5. Tens = CHOOSE f : f = [k \in Nat |-> IF k = 0 THEN 1 ELSE 10 * f[k - 1]]
  BY Zenon DEF Tens
<1>6. Tens = [k \in Nat |-> IF k = 0 THEN 1 ELSE 10 * Tens[k - 1]]
  BY <1>4, <1>5, Zenon
<1>7. \A k \in Nat : Tens[k] = IF k = 0 THEN 1 ELSE 10 * Tens[k - 1]
  BY <1>6, Zenon
<1>8. \A k \in Nat : k + 1 \in Nat /\ k + 1 # 0 /\ (k + 1) - 1 = k
  OBVIOUS
<1> QED
  BY <1>7, <1>8

LEMMA TensGrow ==
  ASSUME NEW k \in Nat
  PROVE  Tens[k] \in Nat /\ k < Tens[k]
<1> DEFINE S == {j \in Nat : ~(Tens[j] \in Nat /\ j < Tens[j])}
<1>1. SUFFICES ASSUME S # {} PROVE FALSE
  OBVIOUS
<1>2. PICK i \in S : \A j \in S : i <= j
  BY <1>1, LeastNatural
<1>3. i # 0
  BY <1>2, TensMean
<1>4. i - 1 \in Nat /\ ~(i <= i - 1) /\ (i - 1) + 1 = i
  BY <1>2, <1>3
<1>5. Tens[i - 1] \in Nat /\ i - 1 < Tens[i - 1]
  BY <1>2, <1>4
<1>6. Tens[i] = 10 * Tens[i - 1]
  BY <1>4, TensMean
<1>7. Tens[i] \in Nat /\ i < Tens[i]
  BY <1>2, <1>4, <1>5, <1>6
<1> QED
  BY <1>2, <1>7

LEMMA TensOrdered ==
  ASSUME NEW a \in Nat, NEW b \in Nat, a <= b
  PROVE  Tens[a] <= Tens[b]
<1> DEFINE S == {j \in Nat : a <= j /\ ~(Tens[a] <= Tens[j])}
<1>1. SUFFICES ASSUME S # {} PROVE FALSE
  OBVIOUS
<1>2. PICK i \in S : \A j \in S : i <= j
  <2>1. S \in SUBSET Nat
    OBVIOUS
  <2> HIDE DEF S
  <2> QED
    BY <1>1, <2>1, LeastNatural
<1>3. i # a /\ i \in Nat
  BY <1>2, TensGrow
<1>4. i - 1 \in Nat /\ a <= i - 1 /\ ~(i <= i - 1) /\ (i - 1) + 1 = i
  BY <1>2, <1>3
<1>5. Tens[a] <= Tens[i - 1]
  BY <1>2, <1>4
<1>6. Tens[i] = 10 * Tens[i - 1] /\ Tens[i - 1] \in Nat /\ Tens[a] \in Nat
  BY <1>4, TensMean, TensGrow
<1>7. Tens[a] <= Tens[i]
  BY <1>5, <1>6
<1> QED
  BY <1>2, <1>7

\* A number has the digits it is written with.
LEMMA DigitsMean ==
  ASSUME NEW n \in Nat
  PROVE  /\ Digits(n) \in Nat \ {0} /\ n < Tens[Digits(n)]
         /\ Digits(n) = 1 \/ Tens[Digits(n) - 1] <= n
<1> DEFINE S == {d \in Nat : d # 0 /\ n < Tens[d]}
<1>1. n + 1 \in S
  <2>1. n + 1 \in Nat /\ n + 1 # 0
    OBVIOUS
  <2>2. Tens[n + 1] \in Nat /\ n + 1 < Tens[n + 1]
    BY <2>1, TensGrow
  <2> QED
    BY <2>1, <2>2
<1>2. PICK d \in S : \A j \in S : d <= j
  <2>1. S \in SUBSET Nat /\ S # {}
    BY <1>1
  <2> HIDE DEF S
  <2> QED
    BY <2>1, LeastNatural
<1>3. d \in 1..(n + 1) /\ n < Tens[d]
  BY <1>1, <1>2
<1>4. d = 1 \/ Tens[d - 1] <= n
  <2> SUFFICES ASSUME d # 1 PROVE Tens[d - 1] <= n
    OBVIOUS
  <2>1. d - 1 \in Nat /\ d - 1 # 0 /\ ~(d <= d - 1)
    BY <1>3
  <2>2. ~(n < Tens[d - 1]) /\ Tens[d - 1] \in Nat
    BY <1>2, <2>1, TensGrow
  <2> QED
    BY <2>2
<1>5. \E c \in 1..(n + 1) : n < Tens[c] /\ (c = 1 \/ Tens[c - 1] <= n)
  BY <1>3, <1>4
<1>6. /\ Digits(n) \in 1..(n + 1) /\ n < Tens[Digits(n)]
      /\ Digits(n) = 1 \/ Tens[Digits(n) - 1] <= n
  BY <1>5, Zenon DEF Digits
<1> QED
  BY <1>6

\* Times 100 a number that is held exactly still is: what the rounding would cut
\* off is two zeros at most.
LEMMA HundredfoldExact ==
  ASSUME NEW n \in Nat, n < Exact
  PROVE  Rounded(100 * n) = 100 * n
<1> DEFINE m == 100 * n
           d == Digits(m)
           unit == Tens[d - Precision]
<1>1. Precision \in Nat /\ m \in Nat
  BY ExportsAssumption
<1>2. CASE m < Exact
  BY <1>2 DEF Rounded
<1>3. CASE ~(m < Exact)
  <2>1. d \in Nat /\ d # 0 /\ m < Tens[d] /\ (d = 1 \/ Tens[d - 1] <= m)
    BY <1>1, DigitsMean
  <2> HIDE DEF d
  <2>2. Exact \in Nat /\ Exact = Tens[Precision]
    BY <1>1, TensGrow DEF Exact
  <2>3. d > Precision
    <3> SUFFICES ASSUME d <= Precision PROVE FALSE
      BY <1>1, <2>1
    <3>1. Tens[d] <= Tens[Precision] /\ Tens[d] \in Nat
      BY <1>1, <2>1, TensOrdered, TensGrow
    <3> HIDE DEF m
    <3> QED
      BY <1>1, <1>3, <2>1, <2>2, <3>1
  <2>4. Tens[Precision + 2] = 100 * Tens[Precision]
    <3>1. /\ Precision + 1 \in Nat /\ (Precision + 1) + 1 = Precision + 2
          /\ Tens[Precision] \in Nat
      BY <1>1, TensGrow
    <3>2. Tens[Precision + 1] = 10 * Tens[Precision]
          /\ Tens[(Precision + 1) + 1] = 10 * Tens[Precision + 1]
      BY <1>1, <3>1, TensMean
    <3> QED
      BY <3>1, <3>2
  <2>5. d <= Precision + 2
    <3> SUFFICES ASSUME d > Precision + 2 PROVE FALSE
      BY <1>1, <2>1
    <3>1. Precision + 2 \in Nat /\ d - 1 \in Nat /\ Precision + 2 <= d - 1 /\ d # 1
      BY <1>1, <2>1
    <3>2. Tens[Precision + 2] <= Tens[d - 1] /\ Tens[d - 1] \in Nat
      BY <3>1, TensOrdered, TensGrow
    <3> QED
      BY <1>1, <2>1, <2>2, <2>4, <3>1, <3>2
  <2>6. unit \in {10, 100}
    <3>1. d - Precision \in {1, 2}
      BY <1>1, <2>1, <2>3, <2>5
    <3>2. 0 \in Nat /\ 1 \in Nat /\ 0 + 1 = 1 /\ 1 + 1 = 2
      OBVIOUS
    <3>3. Tens[1] = 10 /\ Tens[2] = 100
      BY <3>2, TensMean
    <3> QED
      BY <3>1, <3>3
  <2> HIDE DEF unit
  <2>7. m % unit = 0 /\ unit * (m \div unit) = m
    BY <2>6
  <2>8. Rounded(m) = LET q  == m \div unit
                         r  == m % unit
                         up == 2 * r > unit \/ (2 * r = unit /\ q % 2 = 1)
                     IN unit * (q + IF up THEN 1 ELSE 0)
    BY <1>3, Zenon DEF Rounded, unit, d
  <2>9. ~(2 * (m % unit) > unit) /\ 2 * (m % unit) # unit
    BY <2>6, <2>7
  <2>10. (m \div unit) + 0 = m \div unit
    BY <1>1, <2>6
  <2> QED
    BY <2>7, <2>8, <2>9, <2>10
<1> QED
  BY <1>2, <1>3

LEMMA DivisionExact ==
  ASSUME NEW x \in Nat, NEW y \in Nat, y > 0, x % y = 0
  PROVE  (x \div y) * y = x
<1>1. x = y * (x \div y) + (x % y)
  OBVIOUS
<1>2. (x \div y) \in Int
  OBVIOUS
<1> QED
  BY <1>1, <1>2

\* An amount read from a cell is the amount written.
LEMMA PaiseExact ==
  ASSUME NEW a \in [n : Int, places : Nat], NEW u \in Units, a.n < Exact,
         ToPaise(a, u) # Garbled
  PROVE  ToPaise(a, u) * Tens[a.places] = a.n * (IF u = "rupees" THEN 100 ELSE 1)
<1> DEFINE factor == IF u = "rupees" THEN 100 ELSE 1
           scaled == IF u = "rupees" THEN Rounded(100 * a.n) ELSE a.n
           unit   == Tens[a.places]
<1>1. ToPaise(a, u) = IF a.n < 0 \/ scaled % unit # 0 THEN Garbled ELSE scaled \div unit
  BY DEF ToPaise
<1> HIDE DEF scaled
<1>2. ~(a.n < 0) /\ scaled % unit = 0 /\ ToPaise(a, u) = scaled \div unit
  BY <1>1
<1>3. a.n \in Nat /\ unit \in Nat /\ unit > 0
  BY <1>2, TensGrow
<1>4. scaled = a.n * factor
  <2>1. CASE u = "rupees"
    BY <1>3, <2>1, HundredfoldExact DEF scaled
  <2>2. CASE u # "rupees"
    BY <1>3, <2>2 DEF scaled
  <2> QED
    BY <2>1, <2>2
<1>5. scaled \in Nat
  BY <1>3, <1>4
<1> HIDE DEF unit
<1>6. (scaled \div unit) * unit = scaled
  BY <1>2, <1>3, <1>5, DivisionExact
<1> QED
  BY <1>2, <1>4, <1>6 DEF unit
-----------------------------------------------------------------------------
(* Rows.                                                                   *)

LEMMA WordType ==
  ASSUME NEW word
  PROVE  /\ Status(word, GatewaySynonyms) \in PaymentStatus \cup {Garbled}
         /\ Status(word, MerchantSynonyms) \in MerchantStatus \cup {Garbled}
<1>1. DOMAIN GatewaySynonyms = PaymentStatus
  BY DEF GatewaySynonyms, PaymentStatus
<1>2. DOMAIN MerchantSynonyms = MerchantStatus
  BY DEF MerchantSynonyms, MerchantStatus
<1>3. ASSUME NEW table PROVE Status(word, table) \in DOMAIN table \cup {Garbled}
  <2> DEFINE meanings == {s \in DOMAIN table : word \in table[s]}
  <2>1. CASE meanings = {}
    BY <2>1 DEF Status
  <2>2. CASE meanings # {}
    <3>1. (CHOOSE s \in meanings : TRUE) \in meanings
      BY <2>2
    <3> QED
      BY <2>2, <3>1 DEF Status
  <2> QED
    BY <2>1, <2>2
<1> QED
  BY <1>1, <1>2, <1>3

\* A usable row of the order carries values of its columns' types only.
LEMMA GatewayRead ==
  ASSUME NEW cells \in GatewayCells, NEW i \in 1..MaxRows, NEW u \in Units,
         Paise(cells.amount, u) \in Amounts \cup {Null, Garbled},
         Usable(RowOf("gateway", cells, i, u)), cells.order = Order
  PROVE  RowOf("gateway", cells, i, u) \in ToolRow
<1> DEFINE sub    == Sub(cells.ids)
           word   == CASE sub = "refund" -> "refunded" [] sub = "dispute" -> "disputed"
                       [] OTHER -> Status(cells.status, GatewaySynonyms)
           amount == OrElse(Paise(cells.amount, u), Garbled)
           curr   == OrElse(cells.currency, "INR")
           r      == [file |-> "gateway", row |-> i, order |-> cells.order, sub |-> sub,
                      status |-> word, amount |-> amount, currency |-> curr, time |-> cells.time]
<1>1. RowOf("gateway", cells, i, u) = r
  BY DEF RowOf, GatewayRowOf
<1>2. sub \in {Null, "refund", "dispute"}
  BY DEF Sub
<1>3. word \in PaymentStatus \cup {"disputed", Garbled} /\ (sub = Null => word \in PaymentStatus \cup {Garbled})
  BY <1>2, WordType, NullAssumption DEF PaymentStatus
<1>4. amount \in Amounts \cup {Garbled}
  BY DEF OrElse
<1>5. curr \in Currencies \cup {Garbled}
  BY RequestAssumption DEF OrElse, GatewayCells
<1>6. cells.time \in Nat \cup {Null, Garbled}
  BY DEF GatewayCells
<1> HIDE DEF sub, word, amount, curr
<1>7. word # Garbled /\ amount # Garbled /\ curr # Garbled /\ cells.time # Garbled
  BY <1>1 DEF Usable
<1>8. r \in GatewayRow /\ (r.sub = Null => r.status \in PaymentStatus)
  BY <1>2, <1>3, <1>4, <1>5, <1>6, <1>7 DEF GatewayRow
<1> QED
  BY <1>1, <1>8 DEF ToolRow

LEMMA MerchantRead ==
  ASSUME NEW cells \in MerchantCells, NEW i \in 1..MaxRows, NEW u \in Units,
         Paise(cells.amount, u) \in Amounts \cup {Null, Garbled},
         Usable(RowOf("merchant", cells, i, u)), cells.order = Order
  PROVE  RowOf("merchant", cells, i, u) \in ToolRow
<1> DEFINE r == [file |-> "merchant", row |-> i, order |-> cells.order,
                 status |-> Status(cells.status, MerchantSynonyms), amount |-> Paise(cells.amount, u),
                 currency |-> cells.currency, time |-> cells.time]
<1>1. RowOf("merchant", cells, i, u) = r
  BY DEF RowOf, MerchantRowOf
<1>2. /\ r.status \in MerchantStatus \cup {Garbled} /\ r.currency \in Currencies \cup {Null, Garbled}
      /\ r.time \in Nat \cup {Null, Garbled}
  BY WordType DEF MerchantCells
<1>3. r.status # Garbled /\ r.amount # Garbled /\ r.currency # Garbled /\ r.time # Garbled
  BY <1>1 DEF Usable
<1>4. r \in MerchantRow
  BY <1>2, <1>3 DEF MerchantRow
<1> QED
  BY <1>1, <1>4 DEF ToolRow

\* What the three kinds of row say.
LEMMA RowKinds ==
  ASSUME NEW r \in ToolRow
  PROVE  /\ r.order = Order /\ r.row \in 1..MaxRows
         /\ r.file \in {"gateway", "merchant"}
         /\ r.file = "gateway" => /\ r.sub \in {Null, "refund", "dispute"}
                                  /\ r.amount \in Amounts /\ r.currency \in Currencies
                                  /\ r.status \in PaymentStatus \cup {"disputed"}
                                  /\ r.sub = Null => r.status \in PaymentStatus
         /\ r.file = "merchant" => /\ r.status \in MerchantStatus
                                   /\ r.amount \in Amounts \cup {Null}
                                   /\ r.currency \in Currencies \cup {Null}
BY DEF ToolRow, GatewayRow, MerchantRow

-----------------------------------------------------------------------------
(* The events made of rows.                                                *)

LEMMA PaymentEvent ==
  ASSUME NEW r \in ToolRow, r.file = "gateway", r.sub = Null
  PROVE  RowEvent(r) =
           [id |-> <<"gateway", r.row>>, source |-> "razorpay",
            type |-> IF r.status = "captured" THEN "capture" ELSE "other", order |-> Order,
            payment |-> r.status, merchant |-> Null, amount |-> r.amount, currency |-> r.currency,
            sub |-> Null, subId |-> Null]
<1> DEFINE entity == [id |-> r.row, status |-> r.status, amount |-> r.amount, currency |-> r.currency]
           raw    == [payment |-> entity, refund |-> Null, dispute |-> Null, order |-> Null]
           env    == [id |-> <<"gateway", r.row>>, source |-> "razorpay",
                      type |-> IF r.status = "captured" THEN "capture" ELSE "other",
                      order |-> Order, raw |-> raw]
<1>1. r.order = Order /\ r.row \in 1..MaxRows /\ r.amount \in Amounts /\ r.currency \in Currencies
      /\ r.status \in PaymentStatus
  BY RowKinds
<1>2. GatewayEnvelope(r) = env
  BY <1>1 DEF GatewayEnvelope, RazorpayEnvelope, NoEntities, OrElse
<1>3. entity \in [id : 1..MaxRows, status : PaymentStatus \cup {Null}, amount : Amounts,
                  currency : Currencies]
  BY <1>1
<1>4. entity # Null
  BY <1>3, NoneAssumption
<1>5. <<"gateway", r.row>> \in EventIds /\ Order \in Orders
  BY <1>1, RequestAssumption
<1>6. <<"gateway", r.row>> # Null /\ Order # Null
  BY <1>5, NoneAssumption, NullAssumption
<1> HIDE DEF entity
<1>7. raw.payment = entity /\ raw.refund = Null /\ raw.dispute = Null /\ raw.order = Null
  OBVIOUS
<1>8. entity.id = r.row /\ entity.status = r.status /\ entity.amount = r.amount /\ entity.currency = r.currency
  BY DEF entity
<1> HIDE DEF raw
<1>9. SubEntity(raw) = Null /\ Stating(raw) = entity
  BY <1>4, <1>7 DEF SubEntity, Stating
<1>10. RazorpayFields(raw) =
         [payment |-> r.status, merchant |-> Null, amount |-> r.amount, currency |-> r.currency,
          sub |-> Null, subId |-> Null]
  BY <1>1, <1>4, <1>7, <1>8, <1>9 DEF RazorpayFields, Known
<1>11. EnvelopeToEvent(env) =
         [id |-> <<"gateway", r.row>>, source |-> "razorpay",
          type |-> IF r.status = "captured" THEN "capture" ELSE "other", order |-> Order,
          payment |-> r.status, merchant |-> Null, amount |-> r.amount, currency |-> r.currency,
          sub |-> Null, subId |-> Null]
  BY <1>6, <1>10 DEF EnvelopeToEvent
<1> QED
  BY <1>2, <1>11 DEF RowEvent

LEMMA ReversalEvent ==
  ASSUME NEW r \in ToolRow, r.file = "gateway", r.sub # Null
  PROVE  RowEvent(r) =
           [id |-> <<"gateway", r.row>>, source |-> "razorpay", type |-> "reversal", order |-> Order,
            payment |-> Null, merchant |-> Null, amount |-> r.amount, currency |-> r.currency,
            sub |-> r.sub, subId |-> r.row]
<1> DEFINE entity == [id |-> r.row, status |-> Null, amount |-> r.amount, currency |-> r.currency]
           raw    == [NoEntities EXCEPT ![r.sub] = entity]
           env    == [id |-> <<"gateway", r.row>>, source |-> "razorpay", type |-> "reversal",
                      order |-> Order, raw |-> raw]
<1>1. r.order = Order /\ r.row \in 1..MaxRows /\ r.amount \in Amounts /\ r.currency \in Currencies
      /\ r.sub \in {"refund", "dispute"}
  BY RowKinds
<1>2. GatewayEnvelope(r) = env
  BY <1>1 DEF GatewayEnvelope, RazorpayEnvelope, OrElse
<1>3. entity \in [id : 1..MaxRows, status : PaymentStatus \cup {Null}, amount : Amounts,
                  currency : Currencies]
  BY <1>1
<1>4. entity # Null
  BY <1>3, NoneAssumption
<1>5. <<"gateway", r.row>> \in EventIds /\ Order \in Orders
  BY <1>1, RequestAssumption
<1>6. <<"gateway", r.row>> # Null /\ Order # Null
  BY <1>5, NoneAssumption, NullAssumption
<1>8. entity.id = r.row /\ entity.amount = r.amount /\ entity.currency = r.currency
  OBVIOUS
<1> HIDE DEF entity
<1>7. raw.payment = Null /\ raw[r.sub] = entity /\ (r.sub = "dispute" => raw.refund = Null)
      /\ (r.sub = "refund" => raw.refund = entity) /\ (r.sub = "dispute" => raw.dispute = entity)
  BY <1>1 DEF NoEntities
<1> HIDE DEF raw
<1>9. SubEntity(raw) = r.sub /\ Stating(raw) = entity
  BY <1>1, <1>4, <1>7 DEF SubEntity, Stating
<1>10. RazorpayFields(raw) =
         [payment |-> Null, merchant |-> Null, amount |-> r.amount, currency |-> r.currency,
          sub |-> r.sub, subId |-> r.row]
  BY <1>1, <1>4, <1>7, <1>8, <1>9 DEF RazorpayFields
<1>11. EnvelopeToEvent(env) =
         [id |-> <<"gateway", r.row>>, source |-> "razorpay", type |-> "reversal", order |-> Order,
          payment |-> Null, merchant |-> Null, amount |-> r.amount, currency |-> r.currency,
          sub |-> r.sub, subId |-> r.row]
  BY <1>6, <1>10 DEF EnvelopeToEvent
<1> QED
  BY <1>2, <1>11 DEF RowEvent

LEMMA RecordEvent ==
  ASSUME NEW r \in ToolRow, r.file = "merchant"
  PROVE  RowEvent(r) =
           [id |-> <<"merchant", r.row>>, source |-> "merchant", type |-> "other", order |-> Order,
            payment |-> Null, merchant |-> r.status, amount |-> r.amount, currency |-> r.currency,
            sub |-> Null, subId |-> Null]
<1> DEFINE raw == [status |-> r.status, amount |-> r.amount, currency |-> r.currency]
           env == [id |-> <<"merchant", r.row>>, source |-> "merchant", type |-> "other",
                   order |-> Order, raw |-> raw]
<1>1. r.order = Order /\ r.row \in 1..MaxRows /\ r.status \in MerchantStatus
  BY RowKinds
<1>2. MerchantRowEnvelope(r) = env
  BY <1>1 DEF MerchantRowEnvelope, MerchantEnvelope
<1>3. <<"merchant", r.row>> \in EventIds /\ Order \in Orders
  BY <1>1, RequestAssumption
<1>4. <<"merchant", r.row>> # Null /\ Order # Null
  BY <1>3, NoneAssumption, NullAssumption
<1>5. MerchantFields(raw) =
        [payment |-> Null, merchant |-> r.status, amount |-> r.amount, currency |-> r.currency,
         sub |-> Null, subId |-> Null]
  BY <1>1 DEF MerchantFields, Known
<1> HIDE DEF raw
<1>6. EnvelopeToEvent(env) =
        [id |-> <<"merchant", r.row>>, source |-> "merchant", type |-> "other", order |-> Order,
         payment |-> Null, merchant |-> r.status, amount |-> r.amount, currency |-> r.currency,
         sub |-> Null, subId |-> Null]
  BY <1>4, <1>5 DEF EnvelopeToEvent
<1> QED
  BY <1>2, <1>6 DEF RowEvent

LEMMA RowEventType ==
  ASSUME NEW r \in ToolRow
  PROVE  RowEvent(r) \in Event
<1>1. /\ r.row \in 1..MaxRows /\ Order \in Orders /\ SubIds = 1..MaxRows
      /\ <<"gateway", r.row>> \in EventIds /\ <<"merchant", r.row>> \in EventIds
  BY RowKinds, RequestAssumption
<1>2. CASE r.file = "gateway" /\ r.sub = Null
  <2>1. r.status \in PaymentStatus /\ r.amount \in Amounts /\ r.currency \in Currencies
    BY <1>2, RowKinds
  <2> QED
    BY <1>1, <1>2, <2>1, PaymentEvent DEF Event, Sources
<1>3. CASE r.file = "gateway" /\ r.sub # Null
  <2>1. r.sub \in {"refund", "dispute"} /\ r.amount \in Amounts /\ r.currency \in Currencies
    BY <1>3, RowKinds
  <2> QED
    BY <1>1, <1>3, <2>1, ReversalEvent DEF Event, Sources
<1>4. CASE r.file = "merchant"
  <2>1. r.status \in MerchantStatus /\ r.amount \in Amounts \cup {Null} /\ r.currency \in Currencies \cup {Null}
    BY <1>4, RowKinds
  <2> QED
    BY <1>1, <1>4, <2>1, RecordEvent DEF Event, Sources
<1> QED
  BY <1>2, <1>3, <1>4, RowKinds

-----------------------------------------------------------------------------
(* What folding a row does to the view.                                    *)

\* The view after a row that correlates.
LEMMA PaymentFolded ==
  ASSUME NEW v \in View, NEW r \in ToolRow, r.file = "gateway", r.sub = Null
  PROVE  LET w == Project(v, RowEvent(r)) IN
         /\ w.rp = r.status /\ w.mc = v.mc /\ w.reversals = v.reversals
         /\ w.amount = OrElse(v.amount, r.amount) /\ w.currency = OrElse(v.currency, r.currency)
         /\ w.settled = (v.settled \/ r.status \in {"captured", "refunded"})
<1> DEFINE e == RowEvent(r)
<1>1. /\ e.source = "razorpay" /\ e.type = (IF r.status = "captured" THEN "capture" ELSE "other")
      /\ e.payment = r.status /\ e.merchant = Null /\ e.amount = r.amount
      /\ e.currency = r.currency /\ e.sub = Null
  BY PaymentEvent
<1>2. r.status \in PaymentStatus /\ r.status # Null
  BY RowKinds, NullAssumption
<1> HIDE DEF e
<1>3. ~IsReversal(e)
  BY <1>1 DEF IsReversal
<1>4. /\ Project(v, e).rp = r.status /\ Project(v, e).mc = v.mc
      /\ Project(v, e).reversals = v.reversals
      /\ Project(v, e).amount = OrElse(v.amount, r.amount)
      /\ Project(v, e).currency = OrElse(v.currency, r.currency)
  BY <1>1, <1>2, <1>3 DEF Project, OrElse, View
<1>5. Project(v, e).settled = (v.settled \/ r.status \in {"captured", "refunded"})
  BY <1>1, <1>2 DEF Project, View
<1> QED
  BY <1>4, <1>5 DEF e

LEMMA ReversalFolded ==
  ASSUME NEW v \in View, NEW r \in ToolRow, r.file = "gateway", r.sub # Null
  PROVE  LET w == Project(v, RowEvent(r)) IN
         /\ w.rp = v.rp /\ w.mc = v.mc /\ w.reversals = v.reversals \cup {r.row}
         /\ w.amount = v.amount /\ w.currency = OrElse(v.currency, r.currency)
         /\ w.settled = v.settled
<1> DEFINE e == RowEvent(r)
<1>1. /\ e.source = "razorpay" /\ e.type = "reversal" /\ e.payment = Null /\ e.merchant = Null
      /\ e.amount = r.amount /\ e.currency = r.currency /\ e.sub # Null /\ e.subId = r.row
  BY ReversalEvent
<1>2. r.row \in SubIds /\ r.row # Null
  BY RowKinds, RequestAssumption, NullAssumption
<1> HIDE DEF e
<1>3. IsReversal(e)
  BY <1>1 DEF IsReversal
<1>4. /\ Project(v, e).rp = v.rp /\ Project(v, e).mc = v.mc
      /\ Project(v, e).reversals = v.reversals \cup {r.row}
      /\ Project(v, e).amount = v.amount
      /\ Project(v, e).currency = OrElse(v.currency, r.currency)
  BY <1>1, <1>2, <1>3 DEF Project, OrElse, View
<1>5. Project(v, e).settled = v.settled
  BY <1>1, NullAssumption DEF Project, View, PaymentStatus
<1> QED
  BY <1>4, <1>5 DEF e

LEMMA RecordFolded ==
  ASSUME NEW v \in View, NEW r \in ToolRow, r.file = "merchant"
  PROVE  LET w == Project(v, RowEvent(r)) IN
         /\ w.rp = v.rp /\ w.mc = r.status /\ w.reversals = v.reversals
         /\ w.amount = v.amount /\ w.currency = v.currency /\ w.settled = v.settled
<1> DEFINE e == RowEvent(r)
<1>1. /\ e.source = "merchant" /\ e.merchant = r.status /\ e.sub = Null
  BY RecordEvent
<1>2. r.status # Null
  BY RowKinds, NullAssumption
<1> HIDE DEF e
<1>3. /\ Project(v, e).rp = v.rp /\ Project(v, e).mc = r.status
      /\ Project(v, e).reversals = v.reversals
      /\ Project(v, e).amount = v.amount /\ Project(v, e).currency = v.currency
  BY <1>1, <1>2 DEF Project, OrElse, View
<1>4. Project(v, e).settled = v.settled
  BY <1>1 DEF Project, View
<1> QED
  BY <1>3, <1>4 DEF e

\* Which rows do not correlate.
LEMMA WhenRejected ==
  ASSUME NEW v \in View, NEW r \in ToolRow
  PROVE  LET f == Correlate(v, RowEvent(r), FALSE) IN
         /\ Conflicts(r.currency, v.currency) => f # Null
         /\ Conflicts(r.amount, v.amount) /\ (r.file = "gateway" => r.sub = Null) => f # Null
         /\ ~Conflicts(r.currency, v.currency) /\ ~Conflicts(r.amount, v.amount) => f = Null
         /\ ~Conflicts(r.currency, v.currency) /\ r.file = "gateway" /\ r.sub # Null => f = Null
<1> DEFINE e == RowEvent(r)
<1>1. e.order = Order /\ e.amount = r.amount /\ e.currency = r.currency
      /\ (r.file = "gateway" => e.sub = r.sub /\ (r.sub = Null => e.type # "reversal"))
      /\ (r.file = "merchant" => e.sub = Null /\ e.type = "other")
  BY PaymentEvent, ReversalEvent, RecordEvent, RowKinds
<1>2. Order # Null
  BY RequestAssumption, NullAssumption
<1>3. "currency_mismatch" # Null /\ "amount_mismatch" # Null
  BY NullAssumption DEF CorrelationFailures
<1> HIDE DEF e
<1>4. (r.file = "gateway" => r.sub = Null) => ~IsReversal(e)
  BY <1>1, RowKinds DEF IsReversal
<1>5. r.file = "gateway" /\ r.sub # Null => IsReversal(e)
  BY <1>1 DEF IsReversal
<1> QED
  BY <1>1, <1>2, <1>3, <1>4, <1>5 DEF Correlate, e

\* What a decision on a row can be.
LEMMA Outcome ==
  ASSUME NEW e, NEW failure \in CorrelationFailures \cup {Null}, NEW drift \in DriftKinds,
         NEW s \in {Null, "PENDING_RECHECK", "RESOLVED_NATURALLY", "DISPUTED"}
  PROVE  LET d == Decide(e, failure, drift, s)
             n == OrElse(d.new, s)
         IN /\ n \in {Null, "PENDING_RECHECK", "RESOLVED_NATURALLY", "DISPUTED"}
            /\ s \in {Null, "PENDING_RECHECK"} /\ failure # Null => n = s /\ d.review = failure
            /\ s \in {Null, "PENDING_RECHECK"} /\ failure = Null /\ drift = "REVERSAL" => n = "DISPUTED"
            /\ s \in {Null, "PENDING_RECHECK"} /\ n = "PENDING_RECHECK" =>
                 s = n \/ (failure = Null /\ drift = "SAFE")
            /\ s \in {Null, "PENDING_RECHECK"} /\ n = "RESOLVED_NATURALLY" =>
                 s = "PENDING_RECHECK" /\ failure = Null /\ drift = "NONE"
            /\ s = "RESOLVED_NATURALLY" =>
                 n \in {s, "DISPUTED"} /\ (IsReversal(e) => n = "DISPUTED")
            /\ s = "DISPUTED" => n = "DISPUTED"
<1>1. Null \notin ReconStatus /\ Null \notin CorrelationFailures
  BY NullAssumption
<1>2. CASE s \in {Null, "PENDING_RECHECK"} /\ failure # Null
  <2>1. Decide(e, failure, drift, s) = Flag(failure, "NEUTRAL")
    BY <1>1, <1>2 DEF Decide, TerminalStatuses, ReconStatus
  <2>2. Flag(failure, "NEUTRAL").new = Null /\ Flag(failure, "NEUTRAL").review = failure
    BY DEF Flag, Quiet
  <2> QED
    BY <1>1, <1>2, <2>1, <2>2 DEF OrElse, ReconStatus, TerminalStatuses
<1>3. CASE s \in {Null, "PENDING_RECHECK"} /\ failure = Null
  <2>1. Decide(e, failure, drift, s) = DecideFresh(drift, s)
    BY <1>1, <1>3 DEF Decide, TerminalStatuses, ReconStatus
  <2>2. Arm("SAFE").new = "PENDING_RECHECK" /\ Dispute.new = "DISPUTED"
        /\ ResolveNaturally.new = "RESOLVED_NATURALLY"
        /\ Flag("unsafe_drift", "UNSAFE").new = Null /\ Quiet("NO_OP").new = Null
    BY DEF Arm, Move, Dispute, ResolveNaturally, Flag, Quiet
  <2>3. \/ drift = "SAFE" /\ DecideFresh(drift, s).new = "PENDING_RECHECK"
        \/ drift = "REVERSAL" /\ DecideFresh(drift, s).new = "DISPUTED"
        \/ drift = "NONE" /\ s = "PENDING_RECHECK" /\ DecideFresh(drift, s).new = "RESOLVED_NATURALLY"
        \/ drift # "REVERSAL" /\ DecideFresh(drift, s).new = Null
    BY <2>2 DEF DecideFresh, DriftKinds
  <2> QED
    BY <1>1, <1>3, <2>1, <2>3 DEF OrElse, ReconStatus, TerminalStatuses
<1>4. CASE s \in {"RESOLVED_NATURALLY", "DISPUTED"}
  <2>1. Decide(e, failure, drift, s) =
          IF IsReversal(e) /\ s # "DISPUTED" THEN Dispute ELSE Quiet("LOCKED_REPLAY_IGNORED")
    BY <1>4 DEF Decide, TerminalStatuses
  <2>2. Dispute.new = "DISPUTED" /\ Quiet("LOCKED_REPLAY_IGNORED").new = Null
    BY DEF Dispute, Move, Quiet
  <2> QED
    BY <1>1, <1>4, <2>1, <2>2 DEF OrElse, ReconStatus, TerminalStatuses
<1> QED
  BY <1>2, <1>3, <1>4

-----------------------------------------------------------------------------
(* The rows folded so far.                                                 *)

\* The first of a set of row numbers.
First(S) == CHOOSE i \in S : \A j \in S : i <= j

LEMMA FirstIsLeast ==
  ASSUME NEW S \in SUBSET Nat, S # {}
  PROVE  First(S) \in S /\ \A j \in S : First(S) <= j
BY LeastNatural DEF First

\* Appending a later row leaves the first one alone.
LEMMA FirstStays ==
  ASSUME NEW S \in SUBSET Nat, S # {}, NEW n \in Nat, \A i \in S : i < n
  PROVE  First(S \cup {n}) = First(S)
<1> DEFINE a == First(S)
           b == First(S \cup {n})
<1>1. a \in S /\ \A j \in S : a <= j
  BY FirstIsLeast
<1>2. b \in S \cup {n} /\ \A j \in S \cup {n} : b <= j
  <2>1. S \cup {n} \in SUBSET Nat /\ S \cup {n} # {}
    OBVIOUS
  <2> QED
    BY <2>1, FirstIsLeast
<1> HIDE DEF a, b
<1>3. a \in Nat /\ b \in Nat /\ a < n /\ b <= a
  BY <1>1, <1>2
<1>4. b \in S
  BY <1>2, <1>3
<1>5. a = b
  BY <1>1, <1>3, <1>4
<1> QED
  BY <1>5 DEF a, b

LEMMA FirstOfOne ==
  ASSUME NEW n \in Nat
  PROVE  First({n}) = n
BY DEF First

\* How the rows folded grow by the next one.
RowAppended ==
  /\ next \in Nat \ {0} /\ next' = next + 1 /\ rows' = rows

LEMMA Appended ==
  ASSUME RowAppended
  PROVE  /\ Folded' = Folded \cup {next} /\ next \notin Folded
         /\ Folded \in SUBSET Nat /\ \A i \in Folded : i < next
         /\ OwnRows("gateway")' = IF rows[next].file = "gateway" /\ rows[next].sub = Null
                                  THEN PaymentRows \cup {next} ELSE PaymentRows
         /\ OwnRows("merchant")' = IF rows[next].file = "merchant"
                                   THEN OwnRows("merchant") \cup {next} ELSE OwnRows("merchant")
         /\ PaymentRows' = OwnRows("gateway")'
         /\ ReversalRows' = IF rows[next].file = "gateway" /\ rows[next].sub # Null
                            THEN ReversalRows \cup {next} ELSE ReversalRows
<1>1. next \in Nat /\ 1 <= next /\ next' = next + 1 /\ rows' = rows
  BY DEF RowAppended
<1>2. /\ Folded' = Folded \cup {next} /\ next \notin Folded
      /\ Folded \in SUBSET Nat /\ \A i \in Folded : i < next
  BY <1>1 DEF Folded
<1> HIDE DEF Folded
<1>3. PaymentRows' = OwnRows("gateway")'
  BY DEF PaymentRows
<1>4. OwnRows("gateway")' = IF rows[next].file = "gateway" /\ rows[next].sub = Null
                            THEN PaymentRows \cup {next} ELSE PaymentRows
  BY <1>1, <1>2 DEF OwnRows, PaymentRows
<1>5. OwnRows("merchant")' = IF rows[next].file = "merchant"
                             THEN OwnRows("merchant") \cup {next} ELSE OwnRows("merchant")
  BY <1>1, <1>2 DEF OwnRows
<1>6. ReversalRows' = IF rows[next].file = "gateway" /\ rows[next].sub # Null
                      THEN ReversalRows \cup {next} ELSE ReversalRows
  BY <1>1, <1>2 DEF ReversalRows
<1> QED
  BY <1>2, <1>3, <1>4, <1>5, <1>6

LEMMA OwnRowsType ==
  ASSUME NEW f
  PROVE  OwnRows(f) \subseteq Folded
BY DEF OwnRows

\* A row that reports its side's status is its last word; any other is not.
LEMMA WordTurns ==
  ASSUME RowAppended, NEW f \in {"gateway", "merchant"}, NEW word, NEW S
  PROVE  /\ S = OwnRows(f) \cup {next} =>
              \E i \in S : rows[next].status = rows'[i].status /\ \A j \in S : j <= i
         /\ S = OwnRows(f) /\ LastWord(f, word) =>
              \/ S = {} /\ word = Null
              \/ \E i \in S : word = rows'[i].status /\ \A j \in S : j <= i
<1>1. rows' = rows /\ next \in Nat
  BY DEF RowAppended
<1>2. \A i \in OwnRows(f) : i < next /\ i \in Nat
  BY Appended, OwnRowsType
<1>3. ASSUME S = OwnRows(f) \cup {next}
      PROVE  \E i \in S : rows[next].status = rows'[i].status /\ \A j \in S : j <= i
  <2>1. next \in S /\ \A j \in S : j <= next
    BY <1>1, <1>2, <1>3
  <2> QED
    BY <1>1, <2>1
<1>4. ASSUME S = OwnRows(f), LastWord(f, word)
      PROVE  \/ S = {} /\ word = Null
             \/ \E i \in S : word = rows'[i].status /\ \A j \in S : j <= i
  BY <1>1, <1>4 DEF LastWord
<1> QED
  BY <1>3, <1>4

-----------------------------------------------------------------------------
(* One row folded.                                                         *)

Undecided   == {Null, "PENDING_RECHECK"}
RowFailure  == Correlate(view, RowEvent(rows[next]), FALSE)

LEMMA FoldRowFacts ==
  ASSUME ToolInv, FoldRow
  PROVE  /\ RowAppended /\ rows[next] \in ToolRow /\ view \in View /\ view' \in View
         /\ next \in 1..Len(rows) /\ Len(rows) \in Nat /\ Len(rows) <= MaxRows
         /\ stage = "folding" /\ stage' = "folding"
         /\ UNCHANGED <<posted, rows, invalid, result>> /\ result = Null
         /\ check' \in CorrelationFailures \cup {Null} /\ risky' \in BOOLEAN
<1>1. /\ stage = "folding" /\ stage' = stage /\ next' = next + 1 /\ next <= Len(rows)
      /\ UNCHANGED <<posted, rows, invalid, result>>
  BY DEF FoldRow
<1>2. /\ next \in 1..(MaxRows + 1) /\ rows \in [1..Len(rows) -> ToolRow] /\ result = Null
      /\ view \in View /\ Len(rows) <= MaxRows /\ check \in CorrelationFailures \cup {Null}
  BY <1>1 DEF ToolInv, TypeOK
<1>3. Len(rows) \in Nat
  BY <1>2, LenProperties
<1>4. next \in 1..Len(rows)
  BY <1>1, <1>2, <1>3
<1>5. rows[next] \in ToolRow
  BY <1>2, <1>4
<1>6. view' \in View
  <2>1. view' = Evaluate(RowEvent(rows[next]), view, status, FALSE).view
    BY DEF FoldRow
  <2> QED
    BY <1>2, <1>5, <2>1, RowEventType, EvaluateViewType
<1>7. check' \in CorrelationFailures \cup {Null} /\ risky' \in BOOLEAN
  <2> DEFINE d == Evaluate(RowEvent(rows[next]), view, status, FALSE).decision
  <2>1. check' = (IF d.review \in CorrelationFailures THEN OrElse(check, d.review) ELSE check)
        /\ risky' = (risky \/ d.review = "unsafe_drift")
    BY DEF FoldRow
  <2> HIDE DEF d
  <2> QED
    BY <1>2, <2>1 DEF OrElse
<1> QED
  BY <1>1, <1>2, <1>3, <1>4, <1>5, <1>6, <1>7 DEF RowAppended

\* How a row moves the simulated pointer and the recorded failure.
LEMMA FoldRowOutcome ==
  ASSUME ToolInv, FoldRow
  PROVE  /\ status' \in {Null, "PENDING_RECHECK", "RESOLVED_NATURALLY", "DISPUTED"}
         /\ check' = Null => check = Null /\ (status \in Undecided => RowFailure = Null)
         /\ status' \in Undecided =>
              status \in Undecided /\ (RowFailure = Null => Assess(view') # "REVERSAL")
         /\ status' = "PENDING_RECHECK" =>
              status = "PENDING_RECHECK" \/ (RowFailure = Null /\ Assess(view') = "SAFE")
         /\ status' = "RESOLVED_NATURALLY" =>
              \/ status = "RESOLVED_NATURALLY" /\ ~IsReversal(RowEvent(rows[next]))
              \/ status = "PENDING_RECHECK" /\ RowFailure = Null /\ Assess(view') = "NONE"
<1> DEFINE e     == RowEvent(rows[next])
           drift == Assess(Project(view, e))
           d     == Decide(e, RowFailure, drift, status)
<1>1. status \in {Null, "PENDING_RECHECK", "RESOLVED_NATURALLY", "DISPUTED"}
  BY FoldRowFacts DEF ToolInv, Fold
<1>2. RowFailure \in CorrelationFailures \cup {Null} /\ drift \in DriftKinds
  BY CorrelateType, AssessType DEF RowFailure
<1>3. /\ status' = OrElse(d.new, status)
      /\ check' = (IF d.review \in CorrelationFailures THEN OrElse(check, d.review) ELSE check)
  BY DEF FoldRow, Evaluate, RowFailure
<1>4. RowFailure = Null => drift = Assess(view')
  BY DEF FoldRow, Evaluate, RowFailure
<1> DEFINE n == OrElse(d.new, status)
<1>5. /\ n \in {Null, "PENDING_RECHECK", "RESOLVED_NATURALLY", "DISPUTED"}
      /\ status \in {Null, "PENDING_RECHECK"} /\ RowFailure # Null => n = status /\ d.review = RowFailure
      /\ status \in {Null, "PENDING_RECHECK"} /\ RowFailure = Null /\ drift = "REVERSAL" => n = "DISPUTED"
      /\ status \in {Null, "PENDING_RECHECK"} /\ n = "PENDING_RECHECK" =>
           status = n \/ (RowFailure = Null /\ drift = "SAFE")
      /\ status \in {Null, "PENDING_RECHECK"} /\ n = "RESOLVED_NATURALLY" =>
           status = "PENDING_RECHECK" /\ RowFailure = Null /\ drift = "NONE"
      /\ status = "RESOLVED_NATURALLY" =>
           n \in {status, "DISPUTED"} /\ (IsReversal(e) => n = "DISPUTED")
      /\ status = "DISPUTED" => n = "DISPUTED"
  BY <1>1, <1>2, Outcome
<1>6. status' = n
  BY <1>3
<1>7. Null \notin {"PENDING_RECHECK", "RESOLVED_NATURALLY", "DISPUTED"} /\ Null \notin CorrelationFailures
  BY NullAssumption DEF ReconStatus, TerminalStatuses
<1> HIDE DEF d, drift, n
<1>8. check' = Null => check = Null
  BY <1>3, <1>7 DEF OrElse
<1>9. status \in Undecided /\ RowFailure # Null => check' # Null
  BY <1>2, <1>3, <1>5, <1>7 DEF OrElse, Undecided
<1>10. status' \in Undecided =>
         status \in Undecided /\ (RowFailure = Null => Assess(view') # "REVERSAL")
  BY <1>1, <1>4, <1>5, <1>6, <1>7 DEF Undecided
<1>11. status' = "PENDING_RECHECK" =>
         status = "PENDING_RECHECK" \/ (RowFailure = Null /\ Assess(view') = "SAFE")
  BY <1>1, <1>4, <1>5, <1>6, <1>7
<1>12. status' = "RESOLVED_NATURALLY" =>
         \/ status = "RESOLVED_NATURALLY" /\ ~IsReversal(e)
         \/ status = "PENDING_RECHECK" /\ RowFailure = Null /\ Assess(view') = "NONE"
  BY <1>1, <1>4, <1>5, <1>6, <1>7
<1> QED
  BY <1>5, <1>6, <1>8, <1>9, <1>10, <1>11, <1>12

\* What a row does to the view, by what it is and whether it correlates.
LEMMA FoldRowView ==
  ASSUME ToolInv, FoldRow
  PROVE  LET r == rows[next] IN
         /\ \/ /\ RowFailure # Null
               /\ view'.rp = view.rp /\ view'.mc = view.mc /\ view'.reversals = view.reversals
               /\ view'.amount = view.amount /\ view'.currency = view.currency
               /\ view'.settled = view.settled
            \/ /\ RowFailure = Null /\ r.file = "gateway" /\ r.sub = Null
               /\ view'.rp = r.status /\ view'.mc = view.mc /\ view'.reversals = view.reversals
               /\ view'.amount = OrElse(view.amount, r.amount)
               /\ view'.currency = OrElse(view.currency, r.currency)
               /\ view'.settled = (view.settled \/ r.status \in {"captured", "refunded"})
            \/ /\ RowFailure = Null /\ r.file = "gateway" /\ r.sub # Null
               /\ view'.rp = view.rp /\ view'.mc = view.mc
               /\ view'.reversals = view.reversals \cup {r.row}
               /\ view'.amount = view.amount /\ view'.currency = OrElse(view.currency, r.currency)
               /\ view'.settled = view.settled
            \/ /\ RowFailure = Null /\ r.file = "merchant"
               /\ view'.rp = view.rp /\ view'.mc = r.status /\ view'.reversals = view.reversals
               /\ view'.amount = view.amount /\ view'.currency = view.currency
               /\ view'.settled = view.settled
         /\ Conflicts(r.currency, view.currency) => RowFailure # Null
         /\ Conflicts(r.amount, view.amount) /\ (r.file = "gateway" => r.sub = Null) => RowFailure # Null
         /\ ~Conflicts(r.currency, view.currency) /\ ~Conflicts(r.amount, view.amount) => RowFailure = Null
         /\ ~Conflicts(r.currency, view.currency) /\ r.file = "gateway" /\ r.sub # Null => RowFailure = Null
<1> DEFINE r == rows[next]
<1>1. r \in ToolRow /\ view \in View /\ r.file \in {"gateway", "merchant"}
  BY FoldRowFacts, RowKinds
<1>2. view' = Evaluate(RowEvent(r), view, status, FALSE).view
  BY DEF FoldRow
<1>3. RowFailure = Null => view' = Project(view, RowEvent(r))
  BY <1>2 DEF Evaluate, RowFailure
<1>4. RowFailure = Correlate(view, RowEvent(r), FALSE)
  BY DEF RowFailure
<1> HIDE DEF r
<1>5. /\ Conflicts(r.currency, view.currency) => RowFailure # Null
      /\ Conflicts(r.amount, view.amount) /\ (r.file = "gateway" => r.sub = Null) => RowFailure # Null
      /\ ~Conflicts(r.currency, view.currency) /\ ~Conflicts(r.amount, view.amount) => RowFailure = Null
      /\ ~Conflicts(r.currency, view.currency) /\ r.file = "gateway" /\ r.sub # Null => RowFailure = Null
  BY <1>1, <1>4, WhenRejected
<1>6. CASE RowFailure # Null
  <2>1. /\ view'.rp = view.rp /\ view'.mc = view.mc /\ view'.reversals = view.reversals
        /\ view'.amount = view.amount /\ view'.currency = view.currency
        /\ view'.settled = view.settled
    <3>1. Correlate(view, RowEvent(r), FALSE) # Null
      BY <1>4, <1>6
    <3> DEFINE e == RowEvent(r)
    <3>2. view' = [view EXCEPT !.seen = @ \cup {e.id}]
      BY <1>2, <3>1 DEF Evaluate
    <3> HIDE DEF e
    <3> QED
      BY <1>1, <3>2 DEF View
  <2> QED
    BY <1>5, <1>6, <2>1 DEF r
<1>7. CASE RowFailure = Null /\ r.file = "gateway" /\ r.sub = Null
  BY <1>1, <1>3, <1>5, <1>7, PaymentFolded DEF r
<1>8. CASE RowFailure = Null /\ r.file = "gateway" /\ r.sub # Null
  BY <1>1, <1>3, <1>5, <1>8, ReversalFolded DEF r
<1>9. CASE RowFailure = Null /\ r.file = "merchant"
  BY <1>1, <1>3, <1>5, <1>9, RecordFolded DEF r
<1> QED
  BY <1>1, <1>6, <1>7, <1>8, <1>9

\* A view with a reversal on record and money taken is a disputed order's.
LEMMA SettledReversal ==
  ASSUME NEW v, v.reversals # {}, v.settled
  PROVE  Assess(v) = "REVERSAL"
BY DEF Assess

\* An accepted row leaves a view that tells of all the rows.
LEMMA ToldOnceMore ==
  ASSUME ToolInv, FoldRow, EveryRowTold, RowFailure = Null
  PROVE  /\ LastWord("gateway", view.rp)' /\ LastWord("merchant", view.mc)'
         /\ ReversalRows' # {} => view'.reversals # {}
         /\ (\E i \in PaymentRows' : rows'[i].status = "captured") => view'.settled
         /\ \A i \in PaymentRows', j \in Folded' \ ReversalRows' :
              i <= j => view'.amount # Null /\ rows'[j].amount \in {Null, view'.amount}
<1> DEFINE r == rows[next]
           G == OwnRows("gateway")'
           M == OwnRows("merchant")'
<1>1. /\ RowAppended /\ rows' = rows /\ r \in ToolRow /\ next \in Nat
  BY FoldRowFacts DEF RowAppended
<1>2. r.file \in {"gateway", "merchant"} /\ (r.file = "gateway" => r.amount \in Amounts)
      /\ Null \notin Amounts
  BY <1>1, RowKinds, NullAssumption
<1>3. /\ Folded' = Folded \cup {next} /\ next \notin Folded
      /\ Folded \in SUBSET Nat /\ \A i \in Folded : i < next
      /\ G = IF r.file = "gateway" /\ r.sub = Null THEN PaymentRows \cup {next} ELSE PaymentRows
      /\ M = IF r.file = "merchant" THEN OwnRows("merchant") \cup {next} ELSE OwnRows("merchant")
      /\ PaymentRows' = G
      /\ ReversalRows' = IF r.file = "gateway" /\ r.sub # Null
                         THEN ReversalRows \cup {next} ELSE ReversalRows
  BY <1>1, Appended
<1>4. PaymentRows = OwnRows("gateway") /\ PaymentRows \subseteq Folded
      /\ PaymentRows \cap ReversalRows = {} /\ ReversalRows \subseteq Folded
  BY DEF PaymentRows, ReversalRows, OwnRows
<1>5. /\ G = OwnRows("gateway") \cup {next} =>
           \E i \in G : r.status = rows'[i].status /\ \A j \in G : j <= i
      /\ G = OwnRows("gateway") =>
           \/ G = {} /\ view.rp = Null
           \/ \E i \in G : view.rp = rows'[i].status /\ \A j \in G : j <= i
  <2>1. LastWord("gateway", view.rp)
    BY DEF EveryRowTold
  <2> HIDE DEF r, G, M
  <2>2. rows[next] = r
    BY DEF r
  <2> QED
    BY <1>1, <2>1, <2>2, WordTurns
<1>6. /\ M = OwnRows("merchant") \cup {next} =>
           \E i \in M : r.status = rows'[i].status /\ \A j \in M : j <= i
      /\ M = OwnRows("merchant") =>
           \/ M = {} /\ view.mc = Null
           \/ \E i \in M : view.mc = rows'[i].status /\ \A j \in M : j <= i
  BY <1>1, WordTurns DEF EveryRowTold
<1>7. /\ ReversalRows # {} => view.reversals # {}
      /\ (\E i \in PaymentRows : rows[i].status = "captured") => view.settled
      /\ \A i \in PaymentRows, j \in Folded \ ReversalRows :
           i <= j => view.amount # Null /\ rows[j].amount \in {Null, view.amount}
  BY DEF EveryRowTold
<1>8. \/ /\ r.file = "gateway" /\ r.sub = Null
         /\ view'.rp = r.status /\ view'.mc = view.mc /\ view'.reversals = view.reversals
         /\ view'.amount = OrElse(view.amount, r.amount)
         /\ view'.settled = (view.settled \/ r.status \in {"captured", "refunded"})
      \/ /\ r.file = "gateway" /\ r.sub # Null
         /\ view'.rp = view.rp /\ view'.mc = view.mc
         /\ view'.reversals = view.reversals \cup {r.row}
         /\ view'.amount = view.amount /\ view'.settled = view.settled
      \/ /\ r.file = "merchant"
         /\ view'.rp = view.rp /\ view'.mc = r.status /\ view'.reversals = view.reversals
         /\ view'.amount = view.amount /\ view'.settled = view.settled
  BY FoldRowView
<1>9. (r.file = "gateway" => r.sub = Null) => ~Conflicts(r.amount, view.amount)
  BY FoldRowView
<1>10. LastWord("gateway", view.rp)' =
         (\/ G = {} /\ view'.rp = Null
          \/ \E i \in G : view'.rp = rows'[i].status /\ \A j \in G : j <= i)
  BY DEF LastWord
<1>11. LastWord("merchant", view.mc)' =
         (\/ M = {} /\ view'.mc = Null
          \/ \E i \in M : view'.mc = rows'[i].status /\ \A j \in M : j <= i)
  BY DEF LastWord
<1> HIDE DEF r, G, M
<1>12. r = rows[next]
  BY DEF r
<1>13. LastWord("gateway", view.rp)'
  BY <1>2, <1>3, <1>4, <1>5, <1>8, <1>10
<1>14. LastWord("merchant", view.mc)'
  BY <1>2, <1>3, <1>6, <1>8, <1>11
<1>15. ReversalRows' # {} => view'.reversals # {}
  BY <1>2, <1>3, <1>7, <1>8
<1>16. (\E i \in PaymentRows' : rows'[i].status = "captured") => view'.settled
  <2> SUFFICES ASSUME NEW i \in PaymentRows', rows'[i].status = "captured"
               PROVE  view'.settled
    OBVIOUS
  <2>1. CASE i \in PaymentRows
    BY <1>1, <1>7, <1>8, <2>1
  <2>2. CASE i = next /\ r.file = "gateway" /\ r.sub = Null
    BY <1>1, <1>8, <1>12, <2>2
  <2> QED
    BY <1>3, <2>1, <2>2
<1>17. ASSUME NEW i \in PaymentRows', NEW j \in Folded' \ ReversalRows', i <= j
       PROVE  view'.amount # Null /\ rows'[j].amount \in {Null, view'.amount}
  <2>1. PaymentRows # {} => view.amount # Null
    <3>1. \A k \in PaymentRows : k \in Folded \ ReversalRows /\ k <= k
      BY <1>3, <1>4
    <3> QED
      BY <1>7, <3>1
  <2>2. view.amount # Null => view'.amount = view.amount
    BY <1>8 DEF OrElse
  <2>3. CASE j \in Folded
    <3>1. i \in Nat /\ j \in Nat /\ j < next /\ j \notin ReversalRows
      BY <1>3, <1>4, <2>3
    <3>2. i # next
      BY <1>1, <1>17, <3>1
    <3>3. i \in PaymentRows
      BY <1>3, <3>2
    <3> QED
      BY <1>1, <1>7, <1>17, <2>1, <2>2, <2>3, <3>1, <3>3
  <2>4. CASE j = next
    <3>1. r.file = "gateway" => r.sub = Null
      BY <1>3, <2>4
    <3>2. ~Conflicts(r.amount, view.amount) /\ rows'[j] = r
      BY <1>1, <1>9, <1>12, <2>4, <3>1
    <3>3. CASE i \in PaymentRows
      BY <2>1, <2>2, <3>2, <3>3 DEF Conflicts
    <3>4. CASE i = next /\ r.file = "gateway" /\ r.sub = Null
      BY <1>2, <1>8, <3>2, <3>4 DEF Conflicts, OrElse
    <3> QED
      BY <1>3, <3>3, <3>4
  <2> QED
    BY <1>3, <2>3, <2>4
<1> QED
  BY <1>13, <1>14, <1>15, <1>16, <1>17

LEMMA FoldKept ==
  ASSUME ToolInv, FoldRow
  PROVE  Fold'
<1> DEFINE r == rows[next]
<1>1. /\ Fold /\ view \in View /\ r \in ToolRow /\ r.file \in {"gateway", "merchant"}
  BY FoldRowFacts, RowKinds DEF ToolInv
<1>2. /\ status' \in {Null, "PENDING_RECHECK", "RESOLVED_NATURALLY", "DISPUTED"}
      /\ check' = Null => check = Null /\ (status \in Undecided => RowFailure = Null)
      /\ status' \in Undecided => status \in Undecided /\ (RowFailure = Null => Assess(view') # "REVERSAL")
      /\ status' = "PENDING_RECHECK" =>
           status = "PENDING_RECHECK" \/ (RowFailure = Null /\ Assess(view') = "SAFE")
      /\ status' = "RESOLVED_NATURALLY" =>
           \/ status = "RESOLVED_NATURALLY" /\ ~IsReversal(RowEvent(rows[next]))
           \/ status = "PENDING_RECHECK" /\ RowFailure = Null /\ Assess(view') = "NONE"
  BY FoldRowOutcome
<1>3. /\ view.settled => view'.settled
      /\ view'.rp = view.rp \/ (view'.rp \in {"captured", "refunded"} => view'.settled)
  BY FoldRowView
<1>4. view'.rp \in {"captured", "refunded"} => view'.settled
  BY <1>1, <1>3 DEF Fold
<1>5. status' = "PENDING_RECHECK" => view'.settled
  <2>1. Assess(view') = "SAFE" => view'.rp = "captured"
    BY SafeMeansLag
  <2> QED
    BY <1>1, <1>2, <1>3, <1>4, <2>1 DEF Fold
<1>6. ASSUME status \in Undecided, check = Null, RowFailure = Null
      PROVE  /\ LastWord("gateway", view.rp)' /\ LastWord("merchant", view.mc)'
             /\ ReversalRows' # {} => view'.reversals # {}
             /\ (\E i \in PaymentRows' : rows'[i].status = "captured") => view'.settled
             /\ \A i \in PaymentRows', j \in Folded' \ ReversalRows' :
                  i <= j => view'.amount # Null /\ rows'[j].amount \in {Null, view'.amount}
  <2>1. EveryRowTold
    BY <1>1, <1>6 DEF Fold, Undecided
  <2> QED
    BY <1>6, <2>1, ToldOnceMore
<1>7. ASSUME status' \in Undecided, check' = Null
      PROVE  EveryRowTold'
  <2>1. status \in Undecided /\ check = Null /\ RowFailure = Null /\ Assess(view') # "REVERSAL"
    BY <1>2, <1>7
  <2>2. view'.reversals = {} \/ ~view'.settled
    BY <2>1, SettledReversal
  <2> QED
    BY <1>6, <2>1, <2>2 DEF EveryRowTold
<1>8. ASSUME status' = "RESOLVED_NATURALLY", check' = Null
      PROVE  ReversalRows' = {}
  <2>1. CASE status = "RESOLVED_NATURALLY" /\ ~IsReversal(RowEvent(rows[next]))
    <3>1. ReversalRows = {}
      BY <1>1, <1>2, <1>8, <2>1 DEF Fold
    <3>2. ~(r.file = "gateway" /\ r.sub # Null)
      BY <1>1, <2>1, ReversalEvent DEF IsReversal
    <3>3. ReversalRows' = IF r.file = "gateway" /\ r.sub # Null THEN ReversalRows \cup {next} ELSE ReversalRows
      BY FoldRowFacts, Appended
    <3> QED
      BY <3>1, <3>2, <3>3
  <2>2. CASE status = "PENDING_RECHECK" /\ RowFailure = Null /\ Assess(view') = "NONE"
    <3>1. view'.settled /\ status \in Undecided /\ check = Null
      BY <1>1, <1>2, <1>3, <1>8, <2>2 DEF Fold, Undecided
    <3>2. view'.reversals = {}
      BY <2>2, <3>1, SettledReversal
    <3> QED
      BY <1>6, <2>2, <3>1, <3>2
  <2> QED
    BY <1>2, <1>8, <2>1, <2>2
<1>9. ASSUME \A i \in Folded' : rows'[i].file # "gateway"
      PROVE  view'.currency = Null /\ view'.amount = Null
  <2>1. rows' = rows /\ next \in Folded' /\ Folded \subseteq Folded'
    BY FoldRowFacts, Appended DEF RowAppended
  <2>2. view.currency = Null /\ view.amount = Null /\ r.file = "merchant"
    BY <1>1, <1>9, <2>1 DEF Fold
  <2> QED
    BY <2>2, FoldRowView
<1> QED
  BY <1>2, <1>4, <1>5, <1>7, <1>8, <1>9 DEF Fold, Undecided

-----------------------------------------------------------------------------
(* The order's currency and amount.                                        *)

GatewayRows   == {i \in Folded : rows[i].file = "gateway"}
InCurrency(c) == {i \in GatewayRows : rows[i].sub = Null /\ rows[i].currency = c}
FirstRules ==
  GatewayRows # {} =>
    /\ view.currency = rows[First(GatewayRows)].currency
    /\ view.amount = IF InCurrency(view.currency) = {} THEN Null
                     ELSE rows[First(InCurrency(view.currency))].amount

LEMMA FirstRulesMean ==
  FirstPaymentRules <=> FirstRules
<1>1. \A c : InCurrency(c) = {i \in GatewayRows : rows[i].sub = Null /\ rows[i].currency = c}
  BY Zenon DEF InCurrency
<1> DEFINE c == rows[First(GatewayRows)].currency
           P == InCurrency(c)
<1>2. FirstPaymentRules <=>
        (GatewayRows # {} =>
           /\ view.currency = c
           /\ view.amount = IF P = {} THEN Null ELSE rows[First(P)].amount)
  BY Zenon DEF FirstPaymentRules, First, GatewayRows, InCurrency, Folded
<1>3. FirstRules <=>
        (GatewayRows # {} =>
           /\ view.currency = c
           /\ view.amount = IF P = {} THEN Null ELSE rows[First(P)].amount)
  BY DEF FirstRules
<1> QED
  BY <1>2, <1>3

LEMMA FirstRulesKept ==
  ASSUME ToolInv, FoldRow
  PROVE  FirstRules'
<1> DEFINE r == rows[next]
           G == GatewayRows
           I == InCurrency(view.currency)
           J == {i \in GatewayRows' : rows'[i].sub = Null /\ rows'[i].currency = view'.currency}
<1>1. /\ rows' = rows /\ r \in ToolRow /\ next \in Nat /\ RowAppended
      /\ r.file \in {"gateway", "merchant"}
      /\ r.file = "gateway" => r.amount \in Amounts /\ r.currency \in Currencies
  BY FoldRowFacts, RowKinds DEF RowAppended
<1>2. /\ Folded' = Folded \cup {next} /\ Folded \in SUBSET Nat /\ \A i \in Folded : i < next
      /\ Folded \subseteq 1..Len(rows)
  <2>1. Folded \subseteq 1..Len(rows)
    BY FoldRowFacts DEF Folded
  <2> QED
    BY <1>1, <2>1, Appended
<1>3. /\ G \in SUBSET Nat /\ I \in SUBSET Nat /\ I \subseteq G
      /\ \A i \in G : i < next
      /\ \A i \in G : rows[i] \in ToolRow /\ rows[i].file = "gateway"
      /\ \A i \in I : rows[i].amount \in Amounts
  <2>1. rows \in [1..Len(rows) -> ToolRow]
    BY DEF ToolInv
  <2>2. G \subseteq Folded /\ I \subseteq G /\ \A i \in G : rows[i].file = "gateway"
    BY DEF GatewayRows, InCurrency
  <2> QED
    BY <1>2, <2>1, <2>2, RowKinds
<1>4. GatewayRows' = IF r.file = "gateway" THEN G \cup {next} ELSE G
  BY <1>1, <1>2 DEF GatewayRows
<1>5. J = IF r.file = "gateway" /\ r.sub = Null /\ r.currency = view'.currency
          THEN InCurrency(view'.currency) \cup {next} ELSE InCurrency(view'.currency)
  BY <1>1, <1>4 DEF InCurrency
<1>6. FirstRules /\ Null \notin Amounts /\ Null \notin Currencies
      /\ (G = {} => view.currency = Null /\ view.amount = Null)
  <2>1. G = {} => \A i \in Folded : rows[i].file # "gateway"
    BY DEF GatewayRows
  <2> QED
    BY <2>1, FirstRulesMean, FoldRowFacts, NullAssumption DEF ToolInv, Fold
<1>7. FirstRules' <=>
        (GatewayRows' # {} =>
           /\ view'.currency = rows'[First(GatewayRows')].currency
           /\ view'.amount = IF J = {} THEN Null ELSE rows'[First(J)].amount)
  <2>1. InCurrency(view.currency)' = J
    BY DEF InCurrency
  <2> QED
    BY <2>1 DEF FirstRules
<1>8. /\ view'.currency \in {view.currency, OrElse(view.currency, r.currency)}
      /\ r.file = "merchant" => view'.currency = view.currency /\ view'.amount = view.amount
      /\ RowFailure # Null => view'.currency = view.currency /\ view'.amount = view.amount
      /\ RowFailure = Null /\ r.file = "gateway" =>
           /\ view'.currency = OrElse(view.currency, r.currency)
           /\ r.sub = Null => view'.amount = OrElse(view.amount, r.amount)
           /\ r.sub # Null => view'.amount = view.amount
      /\ Conflicts(r.currency, view.currency) => RowFailure # Null
      /\ ~Conflicts(r.currency, view.currency) /\ ~Conflicts(r.amount, view.amount) => RowFailure = Null
      /\ ~Conflicts(r.currency, view.currency) /\ r.file = "gateway" /\ r.sub # Null => RowFailure = Null
  BY FoldRowView
<1>9. G # {} =>
        /\ view.currency = rows[First(G)].currency /\ view.currency \in Currencies
        /\ view.amount = IF I = {} THEN Null ELSE rows[First(I)].amount
        /\ First(G \cup {next}) = First(G)
  <2> SUFFICES ASSUME G # {}
               PROVE  /\ view.currency = rows[First(G)].currency /\ view.currency \in Currencies
                      /\ view.amount = IF I = {} THEN Null ELSE rows[First(I)].amount
                      /\ First(G \cup {next}) = First(G)
    OBVIOUS
  <2>1. First(G) \in G
    BY <1>3, FirstIsLeast
  <2>2. rows[First(G)].currency \in Currencies
    BY <1>3, <2>1, RowKinds
  <2>3. First(G \cup {next}) = First(G)
    BY <1>1, <1>3, FirstStays
  <2> QED
    BY <1>6, <2>2, <2>3 DEF FirstRules
<1>10. I # {} => rows[First(I)].amount \in Amounts /\ First(I \cup {next}) = First(I)
  <2> SUFFICES ASSUME I # {}
               PROVE  rows[First(I)].amount \in Amounts /\ First(I \cup {next}) = First(I)
    OBVIOUS
  <2>1. First(I) \in I
    BY <1>3, FirstIsLeast
  <2>2. \A i \in I : i < next
    BY <1>3
  <2> QED
    BY <1>1, <1>3, <2>1, <2>2, FirstStays
<1>11. First({next}) = next
  BY <1>1, FirstOfOne
<1>12. G = {} => I = {} /\ \A c : InCurrency(c) = {}
  BY DEF InCurrency
<1>13. view'.currency = view.currency => InCurrency(view'.currency) = I
  OBVIOUS
<1>14. r = rows[next]
  OBVIOUS
<1> HIDE DEF r, G, I, J
<1>15. CASE r.file = "merchant"
  <2>1. GatewayRows' = G /\ J = I /\ view'.currency = view.currency /\ view'.amount = view.amount
    BY <1>4, <1>5, <1>8, <1>13, <1>15
  <2> QED
    BY <1>1, <1>7, <1>9, <2>1
<1>16. CASE r.file = "gateway" /\ G = {}
  <2>1. GatewayRows' = {next} /\ First(GatewayRows') = next
    BY <1>4, <1>11, <1>16
  <2>2. ~Conflicts(r.currency, view.currency) /\ ~Conflicts(r.amount, view.amount)
    BY <1>6, <1>16 DEF Conflicts
  <2>3. view'.currency = r.currency /\ view'.amount = IF r.sub = Null THEN r.amount ELSE Null
    BY <1>6, <1>8, <1>16, <2>2 DEF OrElse
  <2>4. J = IF r.sub = Null THEN {next} ELSE {}
    BY <1>5, <1>12, <1>16, <2>3
  <2>5. rows'[next] = r
    BY <1>1, <1>14
  <2> QED
    BY <1>7, <1>11, <2>1, <2>3, <2>4, <2>5
<1>17. CASE r.file = "gateway" /\ G # {}
  <2>1. GatewayRows' # {} /\ rows'[First(GatewayRows')].currency = view.currency
    BY <1>1, <1>4, <1>9, <1>17
  <2>2. view.currency # Null
    BY <1>6, <1>9, <1>17
  <2>3. view'.currency = view.currency
    BY <1>8, <2>2 DEF OrElse
  <2>4. InCurrency(view'.currency) = I
    BY <1>13, <2>3
  <2>5. CASE r.currency # view.currency
    <3>1. view'.amount = view.amount
      BY <1>1, <1>6, <1>8, <1>17, <2>2, <2>5 DEF Conflicts
    <3>2. J = I
      BY <1>5, <2>3, <2>4, <2>5
    <3> QED
      BY <1>1, <1>7, <1>9, <1>17, <2>1, <2>3, <3>1, <3>2
  <2>6. CASE r.currency = view.currency /\ r.sub # Null
    <3>1. view'.amount = view.amount
      BY <1>8, <1>17, <2>6
    <3>2. J = I
      BY <1>5, <2>4, <2>6
    <3> QED
      BY <1>1, <1>7, <1>9, <1>17, <2>1, <2>3, <3>1, <3>2
  <2>7. CASE r.currency = view.currency /\ r.sub = Null /\ I = {}
    <3>1. J = {next}
      BY <1>5, <1>17, <2>3, <2>4, <2>7
    <3>2. view.amount = Null
      BY <1>9, <1>17, <2>7
    <3>3. view'.amount = r.amount
      BY <1>8, <1>17, <2>7, <3>2 DEF Conflicts, OrElse
    <3> QED
      BY <1>1, <1>7, <1>11, <1>14, <2>1, <2>3, <3>1, <3>3
  <2>8. CASE r.currency = view.currency /\ r.sub = Null /\ I # {}
    <3>1. J = I \cup {next} /\ First(J) = First(I)
      BY <1>5, <1>10, <1>17, <2>3, <2>4, <2>8
    <3>2. view.amount = rows[First(I)].amount /\ view.amount # Null
      BY <1>6, <1>9, <1>10, <1>17, <2>8
    <3>3. view'.amount = view.amount
      BY <1>8, <1>17, <2>8, <3>2 DEF OrElse
    <3> QED
      BY <1>1, <1>7, <2>1, <2>3, <3>1, <3>2, <3>3
  <2> QED
    BY <2>5, <2>6, <2>7, <2>8
<1> QED
  BY <1>1, <1>15, <1>16, <1>17

\* Nothing is said of the verdict before there is a result.
LEMMA NoVerdictYet ==
  ASSUME result = Null
  PROVE  Verdict = Null /\ AutoCorrectIsSafe /\ ReversalSurfaces /\ OneAmountToMarkPaid
<1>1. Null \notin Verdicts
  BY NoneAssumption
<1> QED
  BY <1>1 DEF Verdict, AutoCorrectIsSafe, ReversalSurfaces, OneAmountToMarkPaid, Verdicts

LEMMA NoVerdictNext ==
  ASSUME result' = Null
  PROVE  AutoCorrectIsSafe' /\ ReversalSurfaces' /\ OneAmountToMarkPaid'
<1>1. Null \notin Verdicts
  BY NoneAssumption
<1> QED
  BY <1>1 DEF Verdict, AutoCorrectIsSafe, ReversalSurfaces, OneAmountToMarkPaid, Verdicts

LEMMA FoldRowKeeps ==
  ASSUME ToolInv, FoldRow
  PROVE  ToolInv'
<1>1. /\ rows' = rows /\ next' = next + 1 /\ view' \in View
      /\ next \in 1..Len(rows) /\ Len(rows) \in Nat /\ Len(rows) <= MaxRows
      /\ stage = "folding" /\ stage' = "folding"
      /\ UNCHANGED <<posted, rows, invalid, result>> /\ result = Null
      /\ check' \in CorrelationFailures \cup {Null} /\ risky' \in BOOLEAN
  BY FoldRowFacts DEF RowAppended
<1>2. status' \in {Null, "PENDING_RECHECK", "RESOLVED_NATURALLY", "DISPUTED"}
  BY FoldRowOutcome
<1>3. MaxRows \in Nat /\ next' \in 1..(MaxRows + 1) /\ next' <= Len(rows') + 1
  BY <1>1, RequestAssumption
<1>4. TypeOK'
  BY <1>1, <1>2, <1>3 DEF TypeOK, ToolInv, TerminalStatuses
<1>5. Request' /\ AllAccounted' /\ rows' \in [1..Len(rows') -> ToolRow]
  BY <1>1 DEF ToolInv, Request, AllAccounted, IgnoredRows
<1>6. FirstPaymentRules'
  <2>1. FirstRules'
    BY FirstRulesKept
  <2>2. (FirstPaymentRules <=> FirstRules)'
    BY FirstRulesMean, PTL
  <2> QED
    BY <2>1, <2>2
<1>7. Fold' /\ AutoCorrectIsSafe' /\ ReversalSurfaces' /\ OneAmountToMarkPaid'
  BY <1>1, FoldKept, NoVerdictNext
<1>8. RowsRead'
  BY <1>1 DEF ToolInv, RowsRead
<1> QED
  BY <1>1, <1>3, <1>4, <1>5, <1>6, <1>7, <1>8 DEF ToolInv

-----------------------------------------------------------------------------
(* The recheck and the verdict.                                            *)

\* The synthetic event of a recheck says nothing.
LEMMA RecheckSaysNothing ==
  ASSUME NEW id, NEW v \in View
  PROVE  LET e == RecheckEvent(id, Order)
             w == Project(v, e)
             x == Evaluate(e, v, "PROCESSING", TRUE).view
         IN /\ w.rp = v.rp /\ w.mc = v.mc /\ w.reversals = v.reversals
            /\ w.amount = v.amount /\ w.currency = v.currency /\ w.settled = v.settled
            /\ x.rp = v.rp /\ x.mc = v.mc /\ x.reversals = v.reversals
            /\ x.amount = v.amount /\ x.currency = v.currency /\ x.settled = v.settled
            /\ Correlate(v, e, TRUE) = IF v.mc = Null THEN "no_merchant_record" ELSE Null
<1> DEFINE e == RecheckEvent(id, Order)
           w == Project(v, e)
           x == Evaluate(e, v, "PROCESSING", TRUE).view
<1>1. /\ e.id = id /\ e.source = "system" /\ e.type = "other" /\ e.order = Order
      /\ e.amount = Null /\ e.currency = Null /\ e.sub = Null
  BY DEF RecheckEvent
<1>2. Order # Null
  BY RequestAssumption, NullAssumption
<1> HIDE DEF e
<1>3. /\ w.rp = v.rp /\ w.mc = v.mc /\ w.reversals = v.reversals
      /\ w.amount = v.amount /\ w.currency = v.currency
  BY <1>1 DEF Project, View
<1>4. w.settled = v.settled
  BY <1>1 DEF Project, View
<1>5. x = w \/ x = [v EXCEPT !.seen = @ \cup {e.id}]
  BY DEF Evaluate
<1>6. /\ x.rp = v.rp /\ x.mc = v.mc /\ x.reversals = v.reversals
      /\ x.amount = v.amount /\ x.currency = v.currency /\ x.settled = v.settled
  BY <1>3, <1>4, <1>5 DEF View
<1>7. Correlate(v, e, TRUE) = IF v.mc = Null THEN "no_merchant_record" ELSE Null
  BY <1>1, <1>2, <1>3 DEF Correlate, Conflicts
<1> QED
  BY <1>3, <1>4, <1>6, <1>7 DEF e

LEMMA RecheckOutcome ==
  ASSUME NEW e, NEW failure \in CorrelationFailures \cup {Null}, NEW drift \in DriftKinds
  PROVE  LET n == OrElse(Decide(e, failure, drift, "PROCESSING").new, "PENDING_RECHECK") IN
         /\ n \in {"PENDING_RECHECK", "RESOLVED_NATURALLY", "DISPUTED", "RESOLVED_AUTOCORRECTED"}
         /\ n = "RESOLVED_AUTOCORRECTED" => failure = Null /\ drift = "SAFE"
<1>1. Null \notin ReconStatus
  BY NullAssumption
<1>2. CASE failure # Null
  <2>1. Decide(e, failure, drift, "PROCESSING").new = Null
    BY <1>2 DEF Decide, TerminalStatuses, Flag, Quiet
  <2> QED
    BY <2>1 DEF OrElse
<1>3. CASE failure = Null
  <2>1. Decide(e, failure, drift, "PROCESSING") = DecideClaimed(drift)
    BY <1>3 DEF Decide, TerminalStatuses
  <2>2. \/ drift = "SAFE" /\ DecideClaimed(drift).new = "RESOLVED_AUTOCORRECTED"
        \/ DecideClaimed(drift).new \in {"RESOLVED_NATURALLY", "DISPUTED", "PENDING_RECHECK"}
    BY DEF DecideClaimed, DriftKinds, AutoCorrect, ResolveNaturally, Dispute, Arm, Move, Quiet
  <2> QED
    BY <1>1, <1>3, <2>1, <2>2 DEF OrElse, ReconStatus, TerminalStatuses
<1> QED
  BY <1>2, <1>3

LEMMA ReportFacts ==
  ASSUME ToolInv, Report
  PROVE  /\ stage = "folding" /\ stage' = "answered" /\ next = Len(rows) + 1 /\ Len(rows) \in Nat
         /\ UNCHANGED <<posted, rows, invalid, next, check, risky>>
         /\ view \in View /\ view' \in View
         /\ view'.rp = view.rp /\ view'.mc = view.mc /\ view'.reversals = view.reversals
         /\ view'.amount = view.amount /\ view'.currency = view.currency
         /\ status \in {Null, "PENDING_RECHECK", "RESOLVED_NATURALLY", "DISPUTED"}
         /\ status' \in {Null, "PENDING_RECHECK"} \cup TerminalStatuses
         /\ status' = "RESOLVED_AUTOCORRECTED" =>
              /\ status = "PENDING_RECHECK" /\ view.rp = "captured" /\ view.reversals = {}
              /\ view.mc \in {"pending", "failed"}
         /\ status = "DISPUTED" => status' = "DISPUTED"
<1> DEFINE e == RecheckEvent(<<"recheck", "stateless">>, Order)
           failure == Correlate(view, e, TRUE)
           drift == Assess(Project(view, e))
           n == OrElse(Decide(e, failure, drift, "PROCESSING").new, "PENDING_RECHECK")
<1>1. /\ stage = "folding" /\ stage' = "answered" /\ next > Len(rows)
      /\ UNCHANGED <<posted, rows, invalid, next, check, risky>>
  BY DEF Report
<1>2. /\ view \in View /\ next <= Len(rows) + 1 /\ next \in Nat
      /\ rows \in [1..Len(rows) -> ToolRow]
      /\ status \in {Null, "PENDING_RECHECK", "RESOLVED_NATURALLY", "DISPUTED"}
  BY <1>1 DEF ToolInv, TypeOK, Fold
<1>3. Len(rows) \in Nat
  BY <1>2, LenProperties
<1>4. \/ /\ status = "PENDING_RECHECK" /\ status' = n
         /\ view' = Evaluate(e, view, "PROCESSING", TRUE).view
      \/ status # "PENDING_RECHECK" /\ status' = status /\ view' = view
  BY DEF Report, EvaluateRecheck, Evaluate
<1>5. /\ Project(view, e).rp = view.rp /\ Project(view, e).mc = view.mc
      /\ Project(view, e).reversals = view.reversals
      /\ failure = IF view.mc = Null THEN "no_merchant_record" ELSE Null
  BY <1>2, RecheckSaysNothing
<1>6. /\ n \in {"PENDING_RECHECK", "RESOLVED_NATURALLY", "DISPUTED", "RESOLVED_AUTOCORRECTED"}
      /\ n = "RESOLVED_AUTOCORRECTED" => failure = Null /\ drift = "SAFE"
  <2>1. failure \in CorrelationFailures \cup {Null} /\ drift \in DriftKinds
    BY CorrelateType, AssessType
  <2> HIDE DEF e, failure, drift
  <2> QED
    BY <2>1, RecheckOutcome
<1>7. n = "RESOLVED_AUTOCORRECTED" =>
        view.rp = "captured" /\ view.reversals = {} /\ view.mc \in {"pending", "failed"}
  <2> SUFFICES ASSUME n = "RESOLVED_AUTOCORRECTED"
               PROVE  view.rp = "captured" /\ view.reversals = {} /\ view.mc \in {"pending", "failed"}
    OBVIOUS
  <2>1. failure = Null /\ drift = "SAFE"
    BY <1>6
  <2>2. view.mc # Null
    BY <1>5, <2>1, NullAssumption DEF CorrelationFailures
  <2>3. view.rp = "captured" /\ view.reversals = {} /\ view.mc \notin {"paid", "cancelled", "refunded"}
    BY <1>5, <2>1, SafeMeansLag
  <2>4. view.mc \in MerchantStatus \cup {Null}
    BY <1>2 DEF View
  <2> QED
    BY <2>2, <2>3, <2>4 DEF MerchantStatus
<1>8. view' \in View
  <2>1. e \in Event
    BY RequestAssumption DEF RecheckEvent, Event, Sources
  <2> QED
    BY <1>2, <1>4, <2>1, EvaluateViewType
<1>9. /\ view'.rp = view.rp /\ view'.mc = view.mc /\ view'.reversals = view.reversals
      /\ view'.amount = view.amount /\ view'.currency = view.currency
  <2> DEFINE x == Evaluate(e, view, "PROCESSING", TRUE).view
  <2>1. /\ x.rp = view.rp /\ x.mc = view.mc /\ x.reversals = view.reversals
        /\ x.amount = view.amount /\ x.currency = view.currency
    BY <1>2, RecheckSaysNothing
  <2>2. view' = x \/ view' = view
    BY <1>4
  <2> HIDE DEF x
  <2> QED
    BY <2>1, <2>2
<1> HIDE DEF n
<1>10. Null \notin {"RESOLVED_AUTOCORRECTED", "DISPUTED", "PENDING_RECHECK"}
  BY NullAssumption DEF TerminalStatuses, ReconStatus
<1>11. status' \in {Null, "PENDING_RECHECK"} \cup TerminalStatuses
  BY <1>2, <1>4, <1>6 DEF TerminalStatuses
<1>12. status' = "RESOLVED_AUTOCORRECTED" =>
         /\ status = "PENDING_RECHECK" /\ view.rp = "captured" /\ view.reversals = {}
         /\ view.mc \in {"pending", "failed"}
  BY <1>2, <1>4, <1>7, <1>10
<1>13. status = "DISPUTED" => status' = "DISPUTED"
  BY <1>4
<1>14. next = Len(rows) + 1
  BY <1>1, <1>2, <1>3
<1> QED
  BY <1>1, <1>2, <1>3, <1>8, <1>9, <1>11, <1>12, <1>13, <1>14

\* The last word of a file is that of its last row with a status of its own.
LEMMA LastOfIs ==
  ASSUME DOMAIN rows = Folded, NEW f \in {"gateway", "merchant"}, NEW word, LastWord(f, word),
         Folded \in SUBSET Nat
  PROVE  LastOf(f) = word
<1> DEFINE S == {i \in DOMAIN rows : rows[i].file = f /\ (f = "merchant" \/ rows[i].sub = Null)}
<1>1. S = OwnRows(f)
  BY DEF OwnRows
<1>2. LastOf(f) = IF S = {} THEN Null ELSE rows[CHOOSE i \in S : \A j \in S : j <= i].status
  BY Zenon DEF LastOf
<1>3. S \in SUBSET Nat
  BY <1>1, OwnRowsType
<1>4. \/ S = {} /\ word = Null
      \/ \E i \in S : word = rows[i].status /\ \A j \in S : j <= i
  <2> HIDE DEF S
  <2> QED
    BY <1>1 DEF LastWord
<1> HIDE DEF S
<1>5. CASE S = {}
  BY <1>2, <1>4, <1>5
<1>6. CASE S # {}
  <2>1. PICK i \in S : word = rows[i].status /\ \A j \in S : j <= i
    BY <1>4, <1>6
  <2> DEFINE k == CHOOSE n \in S : \A j \in S : j <= n
  <2>2. k \in S /\ \A j \in S : j <= k
    BY <2>1
  <2> HIDE DEF k
  <2>3. k = i
    BY <1>3, <2>1, <2>2
  <2> QED
    BY <1>2, <1>6, <2>1, <2>3 DEF k
<1> QED
  BY <1>5, <1>6

\* The rows of the order once all of them are folded.
LEMMA AllFolded ==
  ASSUME ToolInv, Report
  PROVE  /\ DOMAIN rows = Folded /\ Folded \in SUBSET Nat
         /\ Reversed <=> ReversalRows # {}
         /\ Captured <=> \E i \in PaymentRows : rows[i].status = "captured"
         /\ \A i \in Folded : rows[i].file = "gateway" =>
              i \in PaymentRows \/ i \in ReversalRows
<1>1. next = Len(rows) + 1 /\ Len(rows) \in Nat /\ rows \in [1..Len(rows) -> ToolRow]
  BY ReportFacts DEF ToolInv
<1>2. DOMAIN rows = 1..Len(rows) /\ Folded = 1..Len(rows)
  BY <1>1 DEF Folded
<1>3. DOMAIN rows = Folded /\ Folded \in SUBSET Nat
  BY <1>1, <1>2
<1> HIDE DEF Folded
<1>4. Reversed <=> ReversalRows # {}
  BY <1>3 DEF Reversed, ReversalRows
<1>5. Captured <=> \E i \in PaymentRows : rows[i].status = "captured"
  BY <1>3 DEF Captured, PaymentRows, OwnRows
<1>6. \A i \in Folded : rows[i].file = "gateway" => i \in PaymentRows \/ i \in ReversalRows
  BY DEF PaymentRows, ReversalRows, OwnRows
<1> QED
  BY <1>3, <1>4, <1>5, <1>6

\* How the verdict comes about.
LEMMA VerdictFacts ==
  ASSUME ToolInv, Report
  PROVE  /\ result' # Null => result'.verdict \in Verdicts /\ result'.ignored = IgnoredRows
         /\ Verdict' # Null /\ Verdict' \notin {"DISPUTED", "CORRELATION_FAILED"} =>
              status' # "DISPUTED" /\ check = Null
         /\ Verdict' = "AUTO_CORRECT" =>
              /\ status' = "RESOLVED_AUTOCORRECTED" /\ check = Null
              /\ result'.amount = OrElse(view'.amount, OrElse(FirstAmount("gateway"),
                                                              FirstAmount("merchant")))
<1> DEFINE verdict == VerdictOf(view', status')
           amount  == OrElse(view'.amount, OrElse(FirstAmount("gateway"), FirstAmount("merchant")))
<1>1. result' = IF rows = <<>> THEN Null
                ELSE [verdict |-> verdict, amount |-> amount, ignored |-> IgnoredRows]
  BY DEF Report
<1>2. verdict \in Verdicts
  BY DEF VerdictOf, Verdicts
<1>3. verdict \notin {"DISPUTED", "CORRELATION_FAILED"} => status' # "DISPUTED" /\ check = Null
  BY DEF VerdictOf
<1>4. verdict = "AUTO_CORRECT" => status' = "RESOLVED_AUTOCORRECTED" /\ check = Null
  BY DEF VerdictOf
<1>5. "AUTO_CORRECT" # Null
  BY NoneAssumption DEF Verdicts
<1> HIDE DEF verdict, amount
<1>6. Verdict' = IF result' = Null THEN Null ELSE result'.verdict
  BY DEF Verdict
<1>7. result' # Null => result'.verdict = verdict /\ result'.amount = amount /\ result'.ignored = IgnoredRows
  BY <1>1
<1>8. Verdict' # Null => Verdict' = verdict
  BY <1>6, <1>7
<1>9. Verdict' = "AUTO_CORRECT" => result'.amount = amount /\ verdict = "AUTO_CORRECT"
  BY <1>5, <1>6, <1>7
<1> QED
  BY <1>2, <1>3, <1>4, <1>7, <1>8, <1>9 DEF amount

LEMMA CorrectionIsSafe ==
  ASSUME ToolInv, Report, Verdict' = "AUTO_CORRECT"
  PROVE  /\ EveryRowTold /\ ReversalRows = {}
         /\ AutoCorrectIsSafe' /\ OneAmountToMarkPaid'
<1>1. /\ UNCHANGED <<rows, next, check>> /\ stage = "folding"
      /\ view'.amount = view.amount
      /\ status = "PENDING_RECHECK" /\ view.rp = "captured" /\ view.reversals = {}
      /\ view.mc \in {"pending", "failed"} /\ check = Null
  BY ReportFacts, VerdictFacts
<1>2. EveryRowTold /\ ReversalRows = {}
  BY <1>1 DEF ToolInv, Fold, EveryRowTold
<1>3. LastOf("gateway") = view.rp /\ LastOf("merchant") = view.mc
  BY <1>2, AllFolded, LastOfIs DEF EveryRowTold
<1>4. ~Reversed
  BY <1>2, AllFolded
<1>5. AutoCorrectIsSafe'
  <2>1. LastOf("gateway")' = LastOf("gateway") /\ LastOf("merchant")' = LastOf("merchant")
        /\ Reversed' = Reversed
    BY <1>1 DEF LastOf, Reversed
  <2> QED
    BY <1>1, <1>3, <1>4, <2>1 DEF AutoCorrectIsSafe
<1>6. OneAmountToMarkPaid'
  <2> SUFFICES ASSUME NEW i \in DOMAIN rows, NEW j \in DOMAIN rows,
                      rows[i].file = "gateway", i <= j, rows[j].amount # Null
               PROVE  rows[j].amount = result'.amount
    BY <1>1 DEF OneAmountToMarkPaid
  <2>1. i \in PaymentRows /\ j \in Folded \ ReversalRows
    BY <1>2, AllFolded
  <2>2. view.amount # Null /\ rows[j].amount = view.amount
    BY <1>2, <2>1 DEF EveryRowTold
  <2>3. result'.amount = OrElse(view'.amount, OrElse(FirstAmount("gateway"), FirstAmount("merchant")))
    BY VerdictFacts
  <2> QED
    BY <1>1, <2>2, <2>3 DEF OrElse
<1> QED
  BY <1>2, <1>5, <1>6

LEMMA ReversalIsSeen ==
  ASSUME ToolInv, Report
  PROVE  ReversalSurfaces'
<1>1. /\ UNCHANGED <<rows, next, check>> /\ stage = "folding"
      /\ status \in {Null, "PENDING_RECHECK", "RESOLVED_NATURALLY", "DISPUTED"}
      /\ status = "DISPUTED" => status' = "DISPUTED"
  BY ReportFacts
<1>2. Reversed' = Reversed /\ Captured' = Captured
  BY <1>1 DEF Reversed, Captured
<1>3. SUFFICES ASSUME Verdict' # Null, Reversed, Captured,
                      Verdict' \notin {"DISPUTED", "CORRELATION_FAILED"}
               PROVE  FALSE
  BY <1>2 DEF ReversalSurfaces
<1>4. status' # "DISPUTED" /\ check = Null
  BY <1>3, VerdictFacts
<1>5. ReversalRows # {} /\ \E i \in PaymentRows : rows[i].status = "captured"
  BY <1>3, AllFolded
<1>6. Fold
  BY <1>1 DEF ToolInv
<1>7. CASE status \in Undecided
  <2>1. EveryRowTold
    BY <1>4, <1>6, <1>7 DEF Fold, Undecided
  <2> QED
    BY <1>5, <2>1 DEF EveryRowTold
<1>8. CASE status = "RESOLVED_NATURALLY"
  BY <1>4, <1>5, <1>6, <1>8 DEF Fold
<1> QED
  BY <1>1, <1>4, <1>7, <1>8 DEF Undecided

LEMMA ReportKeeps ==
  ASSUME ToolInv, Report
  PROVE  ToolInv'
<1>1. /\ stage = "folding" /\ stage' = "answered" /\ next = Len(rows) + 1 /\ Len(rows) \in Nat
      /\ UNCHANGED <<posted, rows, invalid, next, check, risky>>
      /\ view' \in View /\ view'.amount = view.amount /\ view'.currency = view.currency
      /\ status' \in {Null, "PENDING_RECHECK"} \cup TerminalStatuses
  BY ReportFacts
<1>2. TypeOK'
  BY <1>1, VerdictFacts DEF TypeOK, ToolInv
<1>3. Request' /\ AllAccounted' /\ rows' \in [1..Len(rows') -> ToolRow] /\ next' = Len(rows') + 1
  BY <1>1 DEF ToolInv, Request, AllAccounted, IgnoredRows
<1>4. FirstPaymentRules'
  <2>1. FirstRules
    BY FirstRulesMean DEF ToolInv
  <2>2. FirstRules'
    BY <1>1, <2>1 DEF FirstRules, GatewayRows, InCurrency, Folded
  <2>3. (FirstPaymentRules <=> FirstRules)'
    BY FirstRulesMean, PTL
  <2> QED
    BY <2>2, <2>3
<1>5. ReversalSurfaces'
  BY ReversalIsSeen
<1>6. AutoCorrectIsSafe' /\ OneAmountToMarkPaid'
  BY CorrectionIsSafe DEF AutoCorrectIsSafe, OneAmountToMarkPaid
<1>7. result' # Null => result'.ignored = IgnoredRows'
  <2>1. IgnoredRows' = IgnoredRows
    BY <1>1 DEF IgnoredRows
  <2> QED
    BY <2>1, VerdictFacts
<1>8. RowsRead'
  BY <1>1 DEF ToolInv, RowsRead
<1> QED
  BY <1>1, <1>2, <1>3, <1>4, <1>5, <1>6, <1>7, <1>8 DEF ToolInv

-----------------------------------------------------------------------------
(* Both exports read.                                                      *)

\* As many images as there are elements, if no two share one.
LEMMA ImageSize ==
  ASSUME NEW S, IsFiniteSet(S), NEW T, NEW f \in [S -> T],
         \A x, y \in S : f[x] = f[y] => x = y, \A z \in T : \E x \in S : f[x] = z
  PROVE  IsFiniteSet(T) /\ Cardinality(T) = Cardinality(S)
<1>1. f \in Bijection(S, T)
  BY DEF Bijection, Injection, Surjection, IsInjective
<1>2. ExistsBijection(S, T)
  BY <1>1 DEF ExistsBijection
<1> QED
  BY <1>2, FS_Bijection

LEMMA RowOfFields ==
  ASSUME NEW file \in {"gateway", "merchant"}, NEW cells, NEW i, NEW u
  PROVE  LET r == RowOf(file, cells, i, u) IN
         r.file = file /\ r.row = i /\ r.order = cells.order
BY DEF RowOf, GatewayRowOf, MerchantRowOf

\* A row read from an export is a usable one of it.
LEMMA RowIsRead ==
  ASSUME NEW file \in {"gateway", "merchant"}, NEW export, NEW u, NEW r \in RowsOf(file, export, u)
  PROVE  /\ r.file = file /\ r.row \in DOMAIN export /\ export[r.row] # Null
         /\ Usable(r) /\ r = RowOf(file, export[r.row], r.row, u)
<1>1. PICK i \in UsableRows(file, export, u) : r = RowOf(file, export[i], i, u)
  BY DEF RowsOf
<1>2. i \in DOMAIN export /\ export[i] # Null /\ Usable(r)
  BY <1>1 DEF UsableRows
<1>3. r.file = file /\ r.row = i
  BY <1>1, RowOfFields
<1> QED
  BY <1>1, <1>2, <1>3

\* Of an export, the rows that name the order are read or rejected.
LEMMA ReadCount ==
  ASSUME NEW file \in {"gateway", "merchant"}, NEW cells, NEW export,
         export \in Seq(cells \cup {Null}), NEW u
  PROVE  LET N == {i \in DOMAIN export : export[i] # Null /\ export[i].order = Order}
             R == {r \in RowsOf(file, export, u) : r.order = Order}
             B == {b \in Invalid(file, export, u) : b.order = Order}
         IN /\ IsFiniteSet(R) /\ IsFiniteSet(B)
            /\ Cardinality(R) \in Nat /\ Cardinality(B) \in Nat /\ Cardinality(R) <= Len(export)
            /\ Cardinality(N) = Cardinality(R) + Cardinality(B)
            /\ \A r \in R : r.file = file
            /\ \A b \in B : b.file = file
<1> DEFINE N == {i \in DOMAIN export : export[i] # Null /\ export[i].order = Order}
           R == {r \in RowsOf(file, export, u) : r.order = Order}
           B == {b \in Invalid(file, export, u) : b.order = Order}
           W == UsableRows(file, export, u)
           P == {i \in W : export[i].order = Order}
           Q == {i \in DOMAIN export \ W : export[i] # Null /\ export[i].order = Order}
           row(i) == RowOf(file, export[i], i, u)
           bad(i) == [file |-> file, row |-> i,
                      order |-> IF export[i] = Null THEN Null ELSE export[i].order]
<1>1. Len(export) \in Nat /\ DOMAIN export = 1..Len(export)
  BY LenProperties
<1>2. W \subseteq DOMAIN export /\ \A i \in W : export[i] # Null
  BY DEF UsableRows
<1>3. Order # Null
  BY RequestAssumption, NullAssumption
<1>4. \A i : row(i).file = file /\ row(i).row = i /\ row(i).order = export[i].order
  BY RowOfFields
<1>5. \A i : bad(i).file = file /\ bad(i).row = i
             /\ bad(i).order = IF export[i] = Null THEN Null ELSE export[i].order
  OBVIOUS
<1>6. RowsOf(file, export, u) = {row(i) : i \in W}
  BY DEF RowsOf
<1>7. Invalid(file, export, u) = {bad(i) : i \in DOMAIN export \ W}
  BY DEF Invalid
<1> HIDE DEF W, row, bad
<1>8. R = {row(i) : i \in P}
  BY <1>4, <1>6
<1>9. B = {bad(i) : i \in Q}
  BY <1>3, <1>5, <1>7
<1>10. IsFiniteSet(N) /\ IsFiniteSet(P) /\ IsFiniteSet(Q) /\ P \cap Q = {} /\ N = P \cup Q
       /\ Cardinality(P) <= Len(export)
  <2>1. IsFiniteSet(1..Len(export)) /\ Cardinality(1..Len(export)) = Len(export)
    BY <1>1, FS_Interval
  <2>2. N \in SUBSET (1..Len(export)) /\ P \in SUBSET (1..Len(export)) /\ Q \in SUBSET (1..Len(export))
    BY <1>1, <1>2
  <2>3. IsFiniteSet(N) /\ IsFiniteSet(P) /\ IsFiniteSet(Q) /\ Cardinality(P) <= Len(export)
    BY <2>1, <2>2, FS_Subset
  <2>4. P \cap Q = {} /\ N = P \cup Q
    BY <1>2
  <2> QED
    BY <2>3, <2>4
<1> HIDE DEF N, R, B, P, Q
<1>11. IsFiniteSet(R) /\ Cardinality(R) = Cardinality(P)
  <2> DEFINE f == [i \in P |-> row(i)]
  <2>1. f \in [P -> R] /\ \A i \in P : f[i] = row(i)
    BY <1>8
  <2>2. \A x, y \in P : f[x] = f[y] => x = y
    BY <1>4, <2>1
  <2>3. \A z \in R : \E x \in P : f[x] = z
    BY <1>8, <2>1
  <2> HIDE DEF f
  <2> QED
    BY <1>10, <2>1, <2>2, <2>3, ImageSize
<1>12. IsFiniteSet(B) /\ Cardinality(B) = Cardinality(Q)
  <2> DEFINE f == [i \in Q |-> bad(i)]
  <2>1. f \in [Q -> B] /\ \A i \in Q : f[i] = bad(i)
    BY <1>9
  <2>2. \A x, y \in Q : f[x] = f[y] => x = y
    BY <1>5, <2>1
  <2>3. \A z \in B : \E x \in Q : f[x] = z
    BY <1>9, <2>1
  <2> HIDE DEF f
  <2> QED
    BY <1>10, <2>1, <2>2, <2>3, ImageSize
<1>13. Cardinality(N) = Cardinality(P) + Cardinality(Q)
  <2>1. Cardinality(P \cup Q) = Cardinality(P) + Cardinality(Q) - Cardinality({})
    BY <1>10, FS_Union
  <2>2. Cardinality({}) = 0 /\ Cardinality(P) \in Nat /\ Cardinality(Q) \in Nat
    BY <1>10, FS_EmptySet, FS_CardinalityType
  <2> QED
    BY <1>10, <2>1, <2>2
<1>14. Cardinality(P) \in Nat /\ Cardinality(Q) \in Nat
  BY <1>10, FS_CardinalityType
<1>15. (\A r \in R : r.file = file) /\ (\A b \in B : b.file = file)
  BY <1>4, <1>5, <1>8, <1>9
<1> QED
  BY <1>10, <1>11, <1>12, <1>13, <1>14, <1>15 DEF N, R, B

\* The rows of the order in both exports: of the columns' types, no more than
\* were posted, and with the rejected ones as many as name the order.
LEMMA ReadBoth ==
  ASSUME NEW gateway, NEW merchant, NEW u \in Units,
         MadeOf(gateway, GatewayCells), MadeOf(merchant, MerchantCells),
         Len(gateway) + Len(merchant) <= MaxRows
  PROVE  LET read == RowsOf("gateway", gateway, u) \cup RowsOf("merchant", merchant, u)
             S == {r \in read : r.order = Order}
             B == {b \in Invalid("gateway", gateway, u) \cup Invalid("merchant", merchant, u) :
                     b.order = Order}
             named(export) == {i \in DOMAIN export : export[i] # Null /\ export[i].order = Order}
         IN /\ S \subseteq ToolRow /\ IsFiniteSet(S) /\ Cardinality(S) \in 0..MaxRows
            /\ Cardinality(named(gateway)) + Cardinality(named(merchant))
                 = Cardinality(S) + Cardinality(B)
<1> DEFINE read == RowsOf("gateway", gateway, u) \cup RowsOf("merchant", merchant, u)
           S == {r \in read : r.order = Order}
           B == {b \in Invalid("gateway", gateway, u) \cup Invalid("merchant", merchant, u) :
                   b.order = Order}
           G  == {r \in RowsOf("gateway", gateway, u) : r.order = Order}
           M  == {r \in RowsOf("merchant", merchant, u) : r.order = Order}
           BG == {b \in Invalid("gateway", gateway, u) : b.order = Order}
           BM == {b \in Invalid("merchant", merchant, u) : b.order = Order}
           NG == {i \in DOMAIN gateway : gateway[i] # Null /\ gateway[i].order = Order}
           NM == {i \in DOMAIN merchant : merchant[i] # Null /\ merchant[i].order = Order}
<1>1. gateway \in Seq(GatewayCells \cup {Null}) /\ merchant \in Seq(MerchantCells \cup {Null})
  BY DEF MadeOf
<1>2. /\ Len(gateway) \in Nat /\ DOMAIN gateway = 1..Len(gateway)
      /\ Len(merchant) \in Nat /\ DOMAIN merchant = 1..Len(merchant) /\ MaxRows \in Nat
  BY <1>1, LenProperties, RequestAssumption
<1>3. DOMAIN gateway \subseteq 1..MaxRows /\ DOMAIN merchant \subseteq 1..MaxRows
  BY <1>2
<1>4. G \subseteq ToolRow
  <2> SUFFICES ASSUME NEW r \in G PROVE r \in ToolRow
    OBVIOUS
  <2>1. PICK i \in UsableRows("gateway", gateway, u) : r = RowOf("gateway", gateway[i], i, u)
    BY DEF RowsOf
  <2>2. i \in 1..MaxRows /\ i \in DOMAIN gateway /\ gateway[i] # Null
        /\ Usable(RowOf("gateway", gateway[i], i, u))
    BY <1>3, <2>1 DEF UsableRows
  <2>3. gateway[i] \in GatewayCells /\ Paise(gateway[i].amount, u) \in Amounts \cup {Null, Garbled}
    BY <1>1, <1>2, <2>2 DEF MadeOf
  <2>4. gateway[i].order = Order
    BY <2>1, RowOfFields
  <2> QED
    BY <2>1, <2>2, <2>3, <2>4, GatewayRead
<1>5. M \subseteq ToolRow
  <2> SUFFICES ASSUME NEW r \in M PROVE r \in ToolRow
    OBVIOUS
  <2>1. PICK i \in UsableRows("merchant", merchant, u) : r = RowOf("merchant", merchant[i], i, u)
    BY DEF RowsOf
  <2>2. i \in 1..MaxRows /\ i \in DOMAIN merchant /\ merchant[i] # Null
        /\ Usable(RowOf("merchant", merchant[i], i, u))
    BY <1>3, <2>1 DEF UsableRows
  <2>3. merchant[i] \in MerchantCells /\ Paise(merchant[i].amount, u) \in Amounts \cup {Null, Garbled}
    BY <1>1, <1>2, <2>2 DEF MadeOf
  <2>4. merchant[i].order = Order
    BY <2>1, RowOfFields
  <2> QED
    BY <2>1, <2>2, <2>3, <2>4, MerchantRead
<1>6. /\ IsFiniteSet(G) /\ IsFiniteSet(BG) /\ Cardinality(G) \in Nat /\ Cardinality(BG) \in Nat
      /\ Cardinality(G) <= Len(gateway) /\ Cardinality(NG) = Cardinality(G) + Cardinality(BG)
      /\ (\A r \in G : r.file = "gateway") /\ (\A b \in BG : b.file = "gateway")
  BY <1>1, ReadCount
<1>7. /\ IsFiniteSet(M) /\ IsFiniteSet(BM) /\ Cardinality(M) \in Nat /\ Cardinality(BM) \in Nat
      /\ Cardinality(M) <= Len(merchant) /\ Cardinality(NM) = Cardinality(M) + Cardinality(BM)
      /\ (\A r \in M : r.file = "merchant") /\ (\A b \in BM : b.file = "merchant")
  BY <1>1, ReadCount
<1>8. S = G \cup M /\ B = BG \cup BM
  OBVIOUS
<1> HIDE DEF S, B, G, M, BG, BM, NG, NM
<1>9. G \cap M = {} /\ BG \cap BM = {}
  BY <1>6, <1>7
<1>10. IsFiniteSet(S) /\ Cardinality(S) = Cardinality(G) + Cardinality(M)
  <2>1. Cardinality({}) = 0
    BY FS_EmptySet
  <2>2. IsFiniteSet(G \cup M)
        /\ Cardinality(G \cup M) = Cardinality(G) + Cardinality(M) - Cardinality(G \cap M)
    BY <1>6, <1>7, FS_Union
  <2>3. Cardinality(G \cap M) = 0
    BY <1>9, <2>1, Zenon
  <2>4. IsFiniteSet(S) /\ Cardinality(S) = Cardinality(G \cup M)
    BY <1>8, <2>2, Zenon
  <2>5. Cardinality(G) \in Nat /\ Cardinality(M) \in Nat
    BY <1>6, <1>7
  <2> QED
    BY <2>2, <2>3, <2>4, <2>5
<1>11. Cardinality(B) = Cardinality(BG) + Cardinality(BM)
  <2>1. Cardinality({}) = 0
    BY FS_EmptySet
  <2>2. IsFiniteSet(BG \cup BM)
        /\ Cardinality(BG \cup BM) = Cardinality(BG) + Cardinality(BM) - Cardinality(BG \cap BM)
    BY <1>6, <1>7, FS_Union
  <2>3. Cardinality(BG \cap BM) = 0
    BY <1>9, <2>1, Zenon
  <2>4. IsFiniteSet(B) /\ Cardinality(B) = Cardinality(BG \cup BM)
    BY <1>8, <2>2, Zenon
  <2>5. Cardinality(BG) \in Nat /\ Cardinality(BM) \in Nat
    BY <1>6, <1>7
  <2> QED
    BY <2>2, <2>3, <2>4, <2>5
<1>12. Cardinality(S) \in 0..MaxRows
  BY <1>2, <1>6, <1>7, <1>10
<1>13. Cardinality(NG) + Cardinality(NM) = Cardinality(S) + Cardinality(B)
  BY <1>6, <1>7, <1>10, <1>11
<1> QED
  BY <1>4, <1>5, <1>8, <1>10, <1>12, <1>13 DEF S, B, NG, NM

\* Before the first row the view tells nothing, and there is nothing to tell.
LEMMA NothingFolded ==
  ASSUME next = 1
  PROVE  Folded = {} /\ ReversalRows = {} /\ PaymentRows = {} /\ \A f : OwnRows(f) = {}
BY DEF Folded, ReversalRows, PaymentRows, OwnRows

LEMMA ParseKeeps ==
  ASSUME ToolInv, Parse
  PROVE  ToolInv'
<1> DEFINE u == posted.unit
           read == RowsOf("gateway", posted.gateway, u) \cup RowsOf("merchant", posted.merchant, u)
           S == {r \in read : r.order = Order}
           B == {b \in Invalid("gateway", posted.gateway, u) \cup Invalid("merchant", posted.merchant, u) :
                   b.order = Order}
           named(export) == {i \in DOMAIN export : export[i] # Null /\ export[i].order = Order}
<1>1. /\ stage = "posted" /\ stage' = "folding" /\ rows' \in FoldOrders(S)
      /\ invalid' = Invalid("gateway", posted.gateway, u) \cup Invalid("merchant", posted.merchant, u)
      /\ UNCHANGED <<posted, next, view, status, check, risky, result>>
      /\ Accepted(posted.gateway) /\ Accepted(posted.merchant)
      /\ posted.gateway # Null /\ posted.merchant # Null
  BY DEF Parse, Accepted
<1>2. /\ u \in Units /\ MadeOf(posted.gateway, GatewayCells) /\ MadeOf(posted.merchant, MerchantCells)
      /\ Len(posted.gateway) + Len(posted.merchant) <= MaxRows
  BY <1>1 DEF ToolInv, Request
<1>3. /\ S \subseteq ToolRow /\ IsFiniteSet(S) /\ Cardinality(S) \in 0..MaxRows
      /\ Cardinality(named(posted.gateway)) + Cardinality(named(posted.merchant))
           = Cardinality(S) + Cardinality(B)
  <2> DEFINE g == posted.gateway
             m == posted.merchant
             n == posted.unit
  <2>1. n \in Units /\ MadeOf(g, GatewayCells) /\ MadeOf(m, MerchantCells) /\ Len(g) + Len(m) <= MaxRows
    BY <1>2
  <2> HIDE DEF g, m, n
  <2> DEFINE T == {r \in RowsOf("gateway", g, n) \cup RowsOf("merchant", m, n) : r.order = Order}
             C == {b \in Invalid("gateway", g, n) \cup Invalid("merchant", m, n) : b.order = Order}
             NG == {i \in DOMAIN g : g[i] # Null /\ g[i].order = Order}
             NM == {i \in DOMAIN m : m[i] # Null /\ m[i].order = Order}
  <2>2. /\ T \subseteq ToolRow /\ IsFiniteSet(T) /\ Cardinality(T) \in 0..MaxRows
        /\ Cardinality(NG) + Cardinality(NM) = Cardinality(T) + Cardinality(C)
    BY <2>1, ReadBoth
  <2> QED
    BY <2>2 DEF g, m, n
<1> HIDE DEF S
<1>4. rows' \in [1..Cardinality(S) -> S] /\ Cardinality(S) \in Nat
  <2>1. Cardinality(S) \in Nat
    BY <1>3, RequestAssumption
  <2> QED
    BY <1>1, <2>1 DEF FoldOrders
<1>5. rows' \in Seq(ToolRow) /\ Len(rows') = Cardinality(S) /\ rows' \in [1..Len(rows') -> ToolRow]
  <2>1. rows' \in [1..Cardinality(S) -> ToolRow]
    BY <1>3, <1>4
  <2>2. rows' \in Seq(ToolRow)
    BY <1>4, <2>1
  <2>3. Len(rows') \in Nat /\ DOMAIN rows' = 1..Len(rows')
    BY <2>2, LenProperties
  <2>4. Len(rows') = Cardinality(S)
    BY <1>4, <2>1, <2>3
  <2> QED
    BY <2>1, <2>2, <2>4
<1>6. AllAccounted'
  <2>1. IgnoredRows' = Cardinality(B)
    BY <1>1 DEF IgnoredRows
  <2>2. posted' = posted
    BY <1>1
  <2> QED
    BY <1>3, <1>5, <2>1, <2>2 DEF AllAccounted
<1>7. next = 1 /\ next' = 1 /\ next' <= Len(rows') + 1
  <2>1. rows = <<>> /\ next <= Len(rows) + 1 /\ next \in 1..(MaxRows + 1)
    BY <1>1 DEF ToolInv, TypeOK
  <2>2. Len(rows) = 0
    BY <2>1
  <2> QED
    BY <1>1, <1>3, <1>5, <2>1, <2>2, RequestAssumption
<1>8. TypeOK'
  <2>1. /\ view' \in View /\ status' \in {Null, "PENDING_RECHECK"} \cup TerminalStatuses
        /\ check' \in CorrelationFailures \cup {Null} /\ risky' \in BOOLEAN
        /\ result' = Null \/ result'.verdict \in Verdicts
        /\ stage' \in {"posted", "folding", "answered", "refused"}
    BY <1>1 DEF ToolInv, TypeOK
  <2>2. next' \in 1..(MaxRows + 1) /\ Len(rows') <= MaxRows
    BY <1>3, <1>5, <1>7, RequestAssumption
  <2>3. \A i \in DOMAIN rows' :
          rows'[i].status \in IF rows'[i].file = "gateway" THEN PaymentStatus \cup {"disputed"}
                            ELSE MerchantStatus
    BY <1>5, RowKinds
  <2> QED
    BY <2>1, <2>2, <2>3 DEF TypeOK
<1>9. Folded = {} /\ ReversalRows = {} /\ PaymentRows = {} /\ \A f : OwnRows(f) = {}
  BY <1>7, NothingFolded
<1>10. Folded' = {} /\ ReversalRows' = {} /\ PaymentRows' = {}
       /\ OwnRows("gateway")' = {} /\ OwnRows("merchant")' = {}
  BY <1>7 DEF Folded, ReversalRows, PaymentRows, OwnRows
<1>11. Fold'
  <2>1. Fold /\ view' = view /\ status' = status /\ check' = check
    BY <1>1 DEF ToolInv
  <2>2. EveryRowTold => EveryRowTold'
    BY <1>1, <1>9, <1>10 DEF EveryRowTold, LastWord
  <2>3. (\A i \in Folded : rows[i].file # "gateway") /\ \A i \in Folded' : rows'[i].file # "gateway"
    BY <1>9, <1>10
  <2> QED
    BY <1>9, <1>10, <2>1, <2>2, <2>3 DEF Fold
<1>12. FirstPaymentRules'
  BY <1>7 DEF FirstPaymentRules
<1>13. Request' /\ AutoCorrectIsSafe' /\ ReversalSurfaces' /\ OneAmountToMarkPaid' /\ result' = Null
  <2>1. Request' /\ result' = Null
    BY <1>1 DEF ToolInv, Request
  <2> QED
    BY <2>1, NoVerdictNext
<1>14. RowsRead'
  <2>1. ASSUME NEW i \in DOMAIN rows'
        PROVE  LET x == rows'[i]
                   export == IF x.file = "gateway" THEN posted.gateway ELSE posted.merchant
               IN /\ export # Null /\ x.row \in DOMAIN export /\ export[x.row] # Null
                  /\ Usable(x) /\ x = RowOf(x.file, export[x.row], x.row, posted.unit)
    <3> DEFINE x == rows'[i]
    <3>1. x \in RowsOf("gateway", posted.gateway, u) \/ x \in RowsOf("merchant", posted.merchant, u)
      BY <1>4 DEF S
    <3> HIDE DEF x
    <3>2. CASE x \in RowsOf("gateway", posted.gateway, u)
      BY <1>1, <3>2, RowIsRead DEF x
    <3>3. CASE x \in RowsOf("merchant", posted.merchant, u)
      BY <1>1, <3>3, RowIsRead DEF x
    <3> QED
      BY <3>1, <3>2, <3>3
  <2>2. posted' = posted
    BY <1>1
  <2> QED
    BY <2>1, <2>2 DEF RowsRead
<1> QED
  BY <1>1, <1>5, <1>6, <1>7, <1>8, <1>11, <1>12, <1>13, <1>14 DEF ToolInv

LEMMA RefuseKeeps ==
  ASSUME ToolInv, Refuse
  PROVE  ToolInv'
<1>1. /\ stage = "posted" /\ stage' = "refused"
      /\ UNCHANGED <<posted, rows, invalid, next, view, status, check, risky, result>>
  BY DEF Refuse
<1>2. TypeOK'
  BY <1>1 DEF ToolInv, TypeOK
<1>3. Request' /\ rows' \in [1..Len(rows') -> ToolRow] /\ next' <= Len(rows') + 1
      /\ rows' = <<>> /\ result' = Null
  BY <1>1 DEF ToolInv, Request
<1>4. Fold'
  <2>1. Fold
    BY <1>1 DEF ToolInv
  <2> QED
    BY <1>1, <2>1 DEF Fold, EveryRowTold, LastWord, OwnRows, PaymentRows, ReversalRows, Folded
<1>5. FirstPaymentRules'
  <2>1. FirstRules
    BY FirstRulesMean DEF ToolInv
  <2>2. FirstRules'
    BY <1>1, <2>1 DEF FirstRules, GatewayRows, InCurrency, Folded
  <2>3. (FirstPaymentRules <=> FirstRules)'
    BY FirstRulesMean, PTL
  <2> QED
    BY <2>2, <2>3
<1>6. AutoCorrectIsSafe' /\ ReversalSurfaces' /\ OneAmountToMarkPaid'
  BY <1>3, NoVerdictNext
<1>7. RowsRead'
  BY <1>1 DEF ToolInv, RowsRead
<1> QED
  BY <1>1, <1>2, <1>3, <1>4, <1>5, <1>6, <1>7 DEF ToolInv

LEMMA NothingKeeps ==
  ASSUME ToolInv,
         UNCHANGED <<posted, stage, rows, invalid, next, view, status, check, risky, result>>
  PROVE  ToolInv'
<1>1. UNCHANGED <<posted, stage, rows, invalid, next, view, status, check, risky, result>>
  OBVIOUS
<1>2. TypeOK' /\ Request' /\ rows' \in [1..Len(rows') -> ToolRow] /\ next' <= Len(rows') + 1
  BY <1>1 DEF ToolInv, TypeOK, Request
<1>3. stage' # "answered" => Fold'
  BY <1>1 DEF ToolInv, Fold, EveryRowTold, LastWord, OwnRows, PaymentRows, ReversalRows, Folded
<1>4. FirstPaymentRules'
  <2>1. FirstRules
    BY FirstRulesMean DEF ToolInv
  <2>2. FirstRules'
    BY <1>1, <2>1 DEF FirstRules, GatewayRows, InCurrency, Folded
  <2>3. (FirstPaymentRules <=> FirstRules)'
    BY FirstRulesMean, PTL
  <2> QED
    BY <2>2, <2>3
<1>5. AutoCorrectIsSafe' /\ ReversalSurfaces' /\ OneAmountToMarkPaid'
  BY <1>1 DEF ToolInv, AutoCorrectIsSafe, ReversalSurfaces, OneAmountToMarkPaid, Verdict, LastOf,
              Reversed, Captured
<1>6. IgnoredRows' = IgnoredRows /\ (AllAccounted => AllAccounted')
  BY <1>1 DEF IgnoredRows, AllAccounted
<1>7. RowsRead'
  BY <1>1 DEF ToolInv, RowsRead
<1> QED
  BY <1>1, <1>2, <1>3, <1>4, <1>5, <1>6, <1>7 DEF ToolInv

-----------------------------------------------------------------------------
(* The whole request.                                                      *)

\* Writing times into the blank time cells leaves an export an export.
LEMMA StampedMade ==
  ASSUME NEW cells \in {GatewayCells, MerchantCells}, NEW n \in Nat, NEW first \in Nat,
         NEW e \in Seq(cells \cup {Null}), first + Len(e) <= n,
         NEW t \in [1..n -> Times \cup {Null}],
         \A u \in Units : \A i \in DOMAIN e :
           e[i] # Null => Paise(e[i].amount, u) \in Amounts \cup {Null, Garbled}
  PROVE  MadeOf(Stamped(e, t, first), cells) /\ Len(Stamped(e, t, first)) = Len(e)
<1> DEFINE s == Stamped(e, t, first)
<1>1. Len(e) \in Nat /\ DOMAIN e = 1..Len(e)
  BY LenProperties
<1>2. s = [i \in 1..Len(e) |-> IF e[i] = Null THEN Null
                               ELSE [e[i] EXCEPT !.time = OrElse(@, t[first + i])]]
  BY <1>1, Zenon DEF Stamped
<1>3. ASSUME NEW i \in 1..Len(e)
      PROVE  /\ s[i] \in cells \cup {Null}
             /\ s[i] # Null => e[i] # Null /\ s[i].amount = e[i].amount
  <2>1. e[i] \in cells \cup {Null}
    BY <1>1, <1>3, ElementOfSeq
  <2>2. CASE e[i] = Null
    BY <1>2, <1>3, <2>2
  <2>3. CASE e[i] # Null
    <3> DEFINE c == e[i]
               x == OrElse(c.time, t[first + i])
    <3>1. c \in cells /\ s[i] = [c EXCEPT !.time = x]
      BY <1>2, <1>3, <2>1, <2>3
    <3>2. first + i \in 1..n
      BY <1>1, <1>3
    <3>3. t[first + i] \in Nat \cup {Null}
      BY <3>2, RequestAssumption
    <3> HIDE DEF c
    <3>4. CASE cells = GatewayCells
      <4>1. x \in Nat \cup {Null, Garbled}
        BY <3>1, <3>3, <3>4 DEF OrElse, GatewayCells
      <4> HIDE DEF x
      <4>2. [c EXCEPT !.time = x] \in GatewayCells /\ [c EXCEPT !.time = x].amount = c.amount
        BY <3>1, <3>4, <4>1 DEF GatewayCells
      <4> QED
        BY <3>1, <3>4, <4>2, <2>3 DEF c
    <3>5. CASE cells = MerchantCells
      <4>1. x \in Nat \cup {Null, Garbled}
        BY <3>1, <3>3, <3>5 DEF OrElse, MerchantCells
      <4> HIDE DEF x
      <4>2. [c EXCEPT !.time = x] \in MerchantCells /\ [c EXCEPT !.time = x].amount = c.amount
        BY <3>1, <3>5, <4>1 DEF MerchantCells
      <4> QED
        BY <3>1, <3>5, <4>2, <2>3 DEF c
    <3> QED
      BY <3>4, <3>5
  <2> QED
    BY <2>2, <2>3
<1>4. s \in Seq(cells \cup {Null}) /\ Len(s) = Len(e) /\ DOMAIN s = 1..Len(e)
  <2>1. s \in [1..Len(e) -> cells \cup {Null}]
    BY <1>2, <1>3, Zenon
  <2> HIDE DEF s
  <2>2. s \in Seq(cells \cup {Null})
    BY <1>1, <2>1
  <2>3. Len(s) \in Nat /\ DOMAIN s = 1..Len(s) /\ DOMAIN s = 1..Len(e)
    BY <2>1, <2>2, LenProperties
  <2>4. \A i \in Nat : i \in 1..Len(s) <=> i \in 1..Len(e)
    BY <2>3
  <2>5. Len(s) = Len(e)
    <3>1. \A a, b \in Nat : (\A i \in Nat : i \in 1..a <=> i \in 1..b) => a = b
      <4> SUFFICES ASSUME NEW a \in Nat, NEW b \in Nat,
                          \A i \in Nat : i \in 1..a <=> i \in 1..b
                   PROVE  a = b
        OBVIOUS
      <4>1. a <= b /\ b <= a
        OBVIOUS
      <4> QED
        BY <4>1
    <3>2. Len(s) \in Nat /\ Len(e) \in Nat
      BY <1>1, <2>3
    <3> QED
      BY <2>4, <3>1, <3>2, Zenon
  <2> QED
    BY <2>2, <2>3, <2>5
<1> HIDE DEF s
<1>5. \A i \in DOMAIN s, u \in Units :
        s[i] # Null => Paise(s[i].amount, u) \in Amounts \cup {Null, Garbled}
  BY <1>1, <1>3, <1>4
<1>6. MadeOf(s, cells) /\ Len(s) = Len(e)
  BY <1>4, <1>5 DEF MadeOf
<1> QED
  BY <1>6 DEF s

\* What is posted is a request.
LEMMA RequestPosted ==
  ASSUME Init
  PROVE  Request
<1>1. PICK u \in Units, g \in GatewayExports, m \in MerchantExports :
        LET n == Len(g) + Len(m) IN
        \/ /\ n <= MaxRows
           /\ \E t \in [1..n -> Times \cup {Null}] :
                posted = [unit |-> u, gateway  |-> Stamped(g, t, 0),
                                      merchant |-> Stamped(m, t, Len(g))]
        \/ /\ n = 0
           /\ posted \in {[unit |-> u, gateway |-> Null, merchant |-> m],
                          [unit |-> u, gateway |-> g, merchant |-> Null]}
        \/ /\ Len(g) > FileLimit \/ Len(m) > FileLimit
           /\ posted = [unit |-> u, gateway |-> g, merchant |-> m]
  BY DEF Init
<1>2. /\ g \in Seq(GatewayCells \cup {Null}) /\ m \in Seq(MerchantCells \cup {Null})
      /\ \A v \in Units : \A i \in DOMAIN g :
           g[i] # Null => Paise(g[i].amount, v) \in Amounts \cup {Null, Garbled}
      /\ \A v \in Units : \A i \in DOMAIN m :
           m[i] # Null => Paise(m[i].amount, v) \in Amounts \cup {Null, Garbled}
  BY <1>1, PostedAssumption
<1>3. Len(g) \in Nat /\ Len(m) \in Nat
  BY <1>2, LenProperties
<1> DEFINE n == Len(g) + Len(m)
<1>4. CASE /\ n <= MaxRows
           /\ \E t \in [1..n -> Times \cup {Null}] :
                posted = [unit |-> u, gateway  |-> Stamped(g, t, 0),
                                      merchant |-> Stamped(m, t, Len(g))]
  <2>1. PICK t \in [1..n -> Times \cup {Null}] :
          posted = [unit |-> u, gateway  |-> Stamped(g, t, 0),
                                merchant |-> Stamped(m, t, Len(g))]
    BY <1>4
  <2>2. n \in Nat /\ 0 + Len(g) <= n /\ Len(g) + Len(m) <= n
    BY <1>3
  <2> DEFINE sg == Stamped(g, t, 0)
             sm == Stamped(m, t, Len(g))
  <2> HIDE DEF n
  <2>3. MadeOf(sg, GatewayCells) /\ Len(sg) = Len(g)
    <3>1. 0 \in Nat /\ GatewayCells \in {GatewayCells, MerchantCells}
      OBVIOUS
    <3> QED
      BY <1>2, <2>2, <3>1, StampedMade
  <2>4. MadeOf(sm, MerchantCells) /\ Len(sm) = Len(m)
    <3>1. MerchantCells \in {GatewayCells, MerchantCells}
      OBVIOUS
    <3> QED
      BY <1>2, <1>3, <2>2, <3>1, StampedMade
  <2>5. posted.unit = u /\ posted.gateway = sg /\ posted.merchant = sm
    BY <2>1
  <2> HIDE DEF sg, sm
  <2>6. Len(sg) + Len(sm) <= MaxRows
    <3>1. n <= MaxRows
      BY <1>4
    <3> QED
      BY <2>3, <2>4, <3>1 DEF n
  <2>7. u \in Units
    BY <1>1
  <2> QED
    BY <2>3, <2>4, <2>5, <2>6, <2>7, Zenon DEF Request
<1>5. CASE /\ n = 0
           /\ posted \in {[unit |-> u, gateway |-> Null, merchant |-> m],
                          [unit |-> u, gateway |-> g, merchant |-> Null]}
  <2>1. MadeOf(g, GatewayCells) /\ MadeOf(m, MerchantCells)
    BY <1>2 DEF MadeOf
  <2>2. /\ posted.unit = u
        /\ \/ posted.gateway = Null /\ posted.merchant = m
           \/ posted.gateway = g /\ posted.merchant = Null
    BY <1>5
  <2> QED
    BY <1>1, <2>1, <2>2 DEF Request, Accepted
<1>6. CASE /\ Len(g) > FileLimit \/ Len(m) > FileLimit
           /\ posted = [unit |-> u, gateway |-> g, merchant |-> m]
  <2>1. MadeOf(g, GatewayCells) /\ MadeOf(m, MerchantCells)
    BY <1>2 DEF MadeOf
  <2>2. posted.unit = u /\ posted.gateway = g /\ posted.merchant = m
    BY <1>6
  <2>3. ~(Accepted(g) /\ Accepted(m))
    BY <1>3, <1>6, ExportsAssumption DEF Accepted
  <2> QED
    BY <1>1, <2>1, <2>2, <2>3 DEF Request
<1> QED
  BY <1>1, <1>4, <1>5, <1>6

LEMMA InitKeeps ==
  ASSUME Init
  PROVE  ToolInv
<1>1. /\ stage = "posted" /\ rows = <<>> /\ invalid = {} /\ next = 1 /\ view = EmptyView
      /\ status = Null /\ check = Null /\ risky = FALSE /\ result = Null
  BY DEF Init
<1>2. Len(rows) = 0 /\ DOMAIN rows = {} /\ rows \in [1..Len(rows) -> ToolRow]
  BY <1>1
<1>3. EmptyView \in View
  BY DEF EmptyView, View
<1>4. TypeOK
  <2>1. /\ stage \in {"posted", "folding", "answered", "refused"} /\ risky \in BOOLEAN
        /\ status \in {Null, "PENDING_RECHECK"} \cup TerminalStatuses
        /\ check \in CorrelationFailures \cup {Null} /\ result = Null /\ view \in View
    BY <1>1, <1>3
  <2>2. Len(rows) <= MaxRows /\ next \in 1..(MaxRows + 1)
    BY <1>1, <1>2, RequestAssumption
  <2>3. \A i \in DOMAIN rows :
          rows[i].status \in IF rows[i].file = "gateway" THEN PaymentStatus \cup {"disputed"}
                            ELSE MerchantStatus
    BY <1>2
  <2> QED
    BY <2>1, <2>2, <2>3 DEF TypeOK
<1>5. Folded = {} /\ ReversalRows = {} /\ PaymentRows = {} /\ \A f : OwnRows(f) = {}
  BY <1>1, NothingFolded
<1>6. Fold
  <2>1. /\ view.rp = Null /\ view.mc = Null /\ view.reversals = {} /\ view.settled = FALSE
        /\ view.currency = Null /\ view.amount = Null
    BY <1>1 DEF EmptyView
  <2>2. Null \notin {"captured", "refunded"} /\ Null \notin {"PENDING_RECHECK", "RESOLVED_NATURALLY"}
    BY NullAssumption DEF PaymentStatus, ReconStatus, TerminalStatuses
  <2> QED
    BY <1>1, <1>5, <2>1, <2>2 DEF Fold, EveryRowTold, LastWord
<1>7. FirstPaymentRules
  BY <1>5 DEF FirstPaymentRules, Folded
<1>8. RowsRead
  BY <1>2 DEF RowsRead
<1> QED
  BY <1>1, <1>2, <1>4, <1>6, <1>7, <1>8, RequestPosted, NoVerdictYet DEF ToolInv

\* Of a request to the reconcile tool, whatever its two exports hold and however
\* many rows they have: the rows are those of the exports, the fold tells every
\* row as long as nothing was rejected, and every verdict keeps its promises
\* (reconcile_tool/run.py: reconcile; parse.py: parse_gateway, parse_merchant).
THEOREM ToolInvariance == Spec => []ToolInv
<1>1. Init => ToolInv
  BY InitKeeps
<1>2. ToolInv /\ [Next]_vars => ToolInv'
  <2> SUFFICES ASSUME ToolInv, [Next]_vars
               PROVE  ToolInv'
    OBVIOUS
  <2>1. CASE Refuse
    BY <2>1, RefuseKeeps
  <2>2. CASE Parse
    BY <2>2, ParseKeeps
  <2>3. CASE FoldRow
    BY <2>3, FoldRowKeeps
  <2>4. CASE Report
    BY <2>4, ReportKeeps
  <2>5. CASE UNCHANGED vars
    <3>1. UNCHANGED <<posted, stage, rows, invalid, next, view, status, check, risky, result>>
      BY <2>5 DEF vars
    <3> QED
      BY <3>1, NothingKeeps
  <2> QED
    BY <2>1, <2>2, <2>3, <2>4, <2>5 DEF Next
<1> QED
  BY <1>1, <1>2, PTL DEF Spec

\* The stages, the words of each side's rows, the view and the verdict have
\* their types.
THEOREM ToolTypeCorrect == Spec => []TypeOK
<1>1. ToolInv => TypeOK
  BY DEF ToolInv
<1> QED
  BY <1>1, ToolInvariance, PTL

\* An order is recommended to be marked paid only when the gateway's last word
\* is captured, the merchant's is pending or failed, no refund or dispute row
\* exists and no row was rejected: the direction rules of compare.py and the
\* precedence of run.py's verdicts, over exports of every length and order.
THEOREM RecommendedSafely == Spec => []AutoCorrectIsSafe
<1>1. ToolInv => AutoCorrectIsSafe
  BY DEF ToolInv
<1> QED
  BY <1>1, ToolInvariance, PTL

\* A refund or dispute row of an order with a captured row makes it disputed, or
\* a row of it was rejected: the view that correlate.py projects never forgets a
\* reversal or a settlement, wherever in the exports the two rows are.
THEOREM ReversalNeverAbsorbed == Spec => []ReversalSurfaces
<1>1. ToolInv => ReversalSurfaces
  BY DEF ToolInv
<1> QED
  BY <1>1, ToolInvariance, PTL

\* The order's currency is its first gateway row's and its amount the first
\* payment row's in that currency: what a row rejected by correlate.py said is
\* not kept by engine.py.
THEOREM FirstPaymentDecides == Spec => []FirstPaymentRules
<1>1. ToolInv => FirstPaymentRules
  BY DEF ToolInv
<1> QED
  BY <1>1, ToolInvariance, PTL

\* No row folded since the first payment states another amount than the one an
\* order is recommended to be marked paid with (correlate.py's amount check).
THEOREM OneAmountRecommended == Spec => []OneAmountToMarkPaid
<1>1. ToolInv => OneAmountToMarkPaid
  BY DEF ToolInv
<1> QED
  BY <1>1, ToolInvariance, PTL

\* When an order is answered each row of the exports that names it was folded or
\* is counted in its note: parse.py rejects rows with a reason, and run.py tells.
THEOREM NoRowUnaccounted == Spec => []IgnoredRowsAreNoted
<1>1. ToolInv => IgnoredRowsAreNoted
  <2> SUFFICES ASSUME ToolInv, result # Null
               PROVE  IgnoredRowsAreNoted
    BY DEF IgnoredRowsAreNoted
  <2>1. stage = "answered" /\ result.ignored = IgnoredRows /\ AllAccounted
    BY DEF ToolInv
  <2>2. rows \in [1..Len(rows) -> ToolRow] /\ next = Len(rows) + 1
    BY <2>1 DEF ToolInv
  <2>3. Len(rows) \in Nat
    BY <2>2, LenProperties
  <2>4. next - 1 = Len(rows)
    BY <2>2, <2>3
  <2> QED
    BY <2>1, <2>4 DEF IgnoredRowsAreNoted, AllAccounted
<1> QED
  BY <1>1, ToolInvariance, PTL

\* What a row is folded with is the amount its cell states, to the paisa, as long
\* as decimal arithmetic holds the amount exactly (parse.py: to_paise, "Exact
\* conversion"): what is no whole number of paise was rejected, and the product
\* with 100 adds only zeros.
THEOREM AmountsNeverRounded == Spec => []AmountsExact
<1>1. ToolInv => AmountsExact
  <2> SUFFICES ASSUME ToolInv, NEW i \in DOMAIN rows, Cells(rows[i]).amount # Null,
                      Cells(rows[i]).amount.n < Exact
               PROVE  rows[i].amount * Tens[Cells(rows[i]).amount.places]
                        = Cells(rows[i]).amount.n * (IF posted.unit = "rupees" THEN 100 ELSE 1)
    BY DEF AmountsExact
  <2> DEFINE r == rows[i]
             cells == Cells(r)
             a == cells.amount
             u == posted.unit
             export == IF r.file = "gateway" THEN posted.gateway ELSE posted.merchant
  <2>1. /\ export # Null /\ r.row \in DOMAIN export /\ cells = export[r.row] /\ cells # Null
        /\ Usable(r) /\ r = RowOf(r.file, cells, r.row, u)
    BY DEF ToolInv, RowsRead, Cells
  <2>2. u \in Units /\ r.file \in {"gateway", "merchant"}
    <3>1. r \in ToolRow
      BY DEF ToolInv
    <3> QED
      BY <3>1, RowKinds DEF ToolInv, Request
  <2>3. a \in MoneyCell
    <3>1. CASE r.file = "gateway"
      <4>1. cells \in GatewayCells
        BY <2>1, <3>1 DEF ToolInv, Request, MadeOf
      <4> QED
        BY <4>1 DEF GatewayCells
    <3>2. CASE r.file = "merchant"
      <4>1. cells \in MerchantCells
        BY <2>1, <3>2 DEF ToolInv, Request, MadeOf
      <4> QED
        BY <4>1 DEF MerchantCells
    <3> QED
      BY <2>2, <3>1, <3>2
  <2>4. r.amount # Garbled
    BY <2>1 DEF Usable
  <2>5. a # Null /\ a.n < Exact
    OBVIOUS
  <2> HIDE DEF r, cells, a, u, export
  <2>6. r.amount = OrElse(Paise(a, u), Garbled) \/ r.amount = Paise(a, u)
    BY <2>1, <2>2 DEF RowOf, GatewayRowOf, MerchantRowOf, a
  <2>7. r.amount = Paise(a, u)
    BY <2>4, <2>6 DEF OrElse
  <2>8. a # Garbled /\ r.amount = ToPaise(a, u)
    BY <2>4, <2>5, <2>7 DEF Paise
  <2>9. a \in [n : Int, places : Nat]
    BY <2>3, <2>5, <2>8 DEF MoneyCell
  <2>10. r.amount * Tens[a.places] = a.n * (IF u = "rupees" THEN 100 ELSE 1)
    BY <2>2, <2>4, <2>5, <2>8, <2>9, PaiseExact
  <2> QED
    BY <2>10 DEF r, cells, a, u
<1> QED
  BY <1>1, ToolInvariance, PTL
=============================================================================
