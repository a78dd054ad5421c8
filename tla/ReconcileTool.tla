--------------------------- MODULE ReconcileTool ---------------------------
(***************************************************************************)
(* One request to the stateless reconcile tool (reconcile_tool/api.py and  *)
(* run.py), seen from one order: the two exports are parsed, the usable    *)
(* rows of the order become events, are folded with the worker's own       *)
(* evaluation, an armed order gets its recheck at once, and the pointer    *)
(* and the review reasons are mapped to a verdict.                         *)
(*                                                                         *)
(* When every row of the order carries a time the rows are folded in time  *)
(* order, otherwise the gateway's file comes first.                        *)
(***************************************************************************)
EXTENDS Exports, Envelopes

CONSTANTS
  Order,       \* the order under reconciliation
  MaxRows,     \* bound: rows of the two exports together
  GatewayExports,  \* the gateway exports posted, times left blank
  MerchantExports, \* the merchant exports posted, times left blank
  Times            \* the times rows may carry

VARIABLES
  posted,      \* the request: [unit, gateway, merchant]
  stage,       \* "posted", "folding", "answered" or "refused"
  rows,        \* the usable rows of the order, in the order they are folded
  invalid,     \* the rejected rows
  next,        \* index of the next row
  view,        \* the folded view
  status,      \* the simulated pointer status, Null before any
  check,       \* the first correlation failure, Null if none
  risky,       \* an unsafe_drift review was raised
  result       \* the order's verdict, amount and ignored rows, Null until reported

vars == <<posted, stage, rows, invalid, next, view, status, check, risky, result>>

Verdicts == {"AUTO_CORRECT", "CONSISTENT", "FLAGGED_RISKY", "DISPUTED",
             "CORRELATION_FAILED", "UNRESOLVED"}

ASSUME RequestAssumption ==
  /\ Order \in Orders /\ MaxRows \in Nat /\ Times \subseteq Nat
  /\ SubIds = 1..MaxRows
  /\ EventIds = {<<f, i>> : f \in {"gateway", "merchant"}, i \in 1..MaxRows}
                  \cup {<<"recheck", "stateless">>}
  /\ "INR" \in Currencies

\* The exports posted are made of cells, and their amounts among those modelled.
ASSUME PostedAssumption ==
  /\ GatewayExports \subseteq Seq(GatewayCells \cup {Null})
  /\ MerchantExports \subseteq Seq(MerchantCells \cup {Null})
  /\ \A export \in GatewayExports \cup MerchantExports, u \in Units :
       \A i \in DOMAIN export :
         export[i] # Null => Paise(export[i].amount, u) \in Amounts \cup {Null, Garbled}

\* None is no event id, no verdict and no entity.
ASSUME NoneAssumption ==
  /\ Null \notin EventIds \cup Verdicts
  /\ Null \notin [id : 1..MaxRows, status : PaymentStatus \cup {Null},
                 amount : Amounts, currency : Currencies]

-----------------------------------------------------------------------------
\* A refund or dispute row becomes an envelope with no payment entity, hence no
\* payment status; the row's number stands for the entity's id.
GatewayEnvelope(r) ==
  LET key  == OrElse(r.sub, "payment")
      type == IF r.sub # Null THEN "reversal"
              ELSE IF r.status = "captured" THEN "capture" ELSE "other"
  IN RazorpayEnvelope(<<"gateway", r.row>>, type, r.order, key,
       [id |-> r.row, status |-> IF r.sub = Null THEN r.status ELSE Null,
        amount |-> r.amount, currency |-> r.currency])

\* The merchant's own envelope under the row's id.
MerchantRowEnvelope(r) ==
  [MerchantEnvelope(r.order, r.status, r.amount, r.currency) EXCEPT
     !.id = <<"merchant", r.row>>]

RowEvent(r) ==
  EnvelopeToEvent(IF r.file = "gateway" THEN GatewayEnvelope(r) ELSE MerchantRowEnvelope(r))

\* a is folded before b: by time if the rows are timed, then the gateway's file
\* before the merchant's, then by row.
Before(a, b, timed) ==
  LET key(r) == <<IF timed THEN r.time ELSE 0, IF r.file = "gateway" THEN 0 ELSE 1, r.row>>
      x == key(a)
      y == key(b)
  IN \E i \in 1..3 : x[i] < y[i] /\ \A j \in 1..(i - 1) : x[j] = y[j]

\* The rows of S in fold order: in time order when all of them have a time.
FoldOrders(S) ==
  LET timed == \A r \in S : r.time # Null
  IN {s \in [1..Cardinality(S) -> S] :
        \A i, j \in DOMAIN s : i < j => Before(s[i], s[j], timed)}

\* The rows of an export with the times t, from the first of them on.
Stamped(export, t, first) ==
  [i \in DOMAIN export |-> IF export[i] = Null THEN Null
                           ELSE [export[i] EXCEPT !.time = OrElse(@, t[first + i])]]

\* The request, with times on all rows or on none, on any if there are two, or
\* with an export that is not one, or one that is too long.
Init ==
  /\ \E u \in Units, g \in GatewayExports, m \in MerchantExports :
       LET n == Len(g) + Len(m) IN
       \/ /\ n <= MaxRows
          /\ \E t \in [1..n -> Times \cup {Null}] :
               /\ n <= 2 \/ Cardinality({i \in 1..n : t[i] = Null}) \in {0, n}
               /\ posted = [unit |-> u, gateway  |-> Stamped(g, t, 0),
                                        merchant |-> Stamped(m, t, Len(g))]
       \/ /\ n = 0
          /\ posted \in {[unit |-> u, gateway |-> Null, merchant |-> m],
                         [unit |-> u, gateway |-> g, merchant |-> Null]}
       \/ /\ Len(g) > FileLimit \/ Len(m) > FileLimit
          /\ posted = [unit |-> u, gateway |-> g, merchant |-> m]
  /\ stage = "posted"
  /\ rows = <<>> /\ invalid = {}
  /\ next = 1 /\ view = EmptyView /\ status = Null
  /\ check = Null /\ risky = FALSE /\ result = Null

\* An export that cannot be used: 422, and nothing is reconciled.
Refuse ==
  /\ stage = "posted"
  /\ ~Accepted(posted.gateway) \/ ~Accepted(posted.merchant)
  /\ stage' = "refused"
  /\ UNCHANGED <<posted, rows, invalid, next, view, status, check, risky, result>>

\* Both files parsed, and the rows of the order put into fold order.
Parse ==
  /\ stage = "posted"
  /\ Accepted(posted.gateway) /\ Accepted(posted.merchant)
  /\ LET read == RowsOf("gateway", posted.gateway, posted.unit)
                   \cup RowsOf("merchant", posted.merchant, posted.unit)
     IN rows' \in FoldOrders({r \in read : r.order = Order})
  /\ invalid' = Invalid("gateway", posted.gateway, posted.unit)
                  \cup Invalid("merchant", posted.merchant, posted.unit)
  /\ stage' = "folding"
  /\ UNCHANGED <<posted, next, view, status, check, risky, result>>

\* One iteration of the loop over an order's entries.
FoldRow ==
  /\ stage = "folding" /\ next <= Len(rows)
  /\ LET res == Evaluate(RowEvent(rows[next]), view, status, FALSE)
         d   == res.decision
     IN /\ view'   = res.view
        /\ status' = OrElse(d.new, status)
        /\ check'  = IF d.review \in CorrelationFailures THEN OrElse(check, d.review) ELSE check
        /\ risky'  = (risky \/ d.review = "unsafe_drift")
  /\ next' = next + 1
  /\ UNCHANGED <<posted, stage, rows, invalid, result>>

HasFile(f) == \E i \in DOMAIN rows : rows[i].file = f

\* A mapping that looks at the recommendation before the failures.
VerdictAutoCorrectFirst(v, s) ==
  IF s = "RESOLVED_AUTOCORRECTED" THEN "AUTO_CORRECT"
  ELSE IF s = "DISPUTED" THEN "DISPUTED"
  ELSE IF check # Null THEN "CORRELATION_FAILED"
  ELSE IF risky THEN "FLAGGED_RISKY"
  ELSE IF s = "RESOLVED_NATURALLY" THEN "CONSISTENT"
  ELSE "UNRESOLVED"

\* The presentation mapping, in its order of precedence.
VerdictOf(v, s) ==
  IF s = "DISPUTED" THEN "DISPUTED"
  ELSE IF check # Null THEN "CORRELATION_FAILED"
  ELSE IF risky THEN "FLAGGED_RISKY"
  ELSE IF s = "RESOLVED_AUTOCORRECTED" THEN "AUTO_CORRECT"
  ELSE IF \/ s = "RESOLVED_NATURALLY"
          \/ s = Null /\ HasFile("gateway") /\ HasFile("merchant") /\ Assess(v) = "NONE"
       THEN "CONSISTENT"
  ELSE "UNRESOLVED"

\* The first amount a file states for the order, in the file's order.
FirstAmount(f) ==
  LET stated == {i \in DOMAIN rows : rows[i].file = f /\ rows[i].amount # Null}
  IN IF stated = {} THEN Null
     ELSE rows[CHOOSE i \in stated : \A j \in stated : rows[i].row <= rows[j].row].amount

\* The rejected rows that name the order.
IgnoredRows == Cardinality({b \in invalid : b.order = Order})

\* After the last row: the recheck of an armed order, then the verdict.  An
\* order no usable row names is not in the answer.
Report ==
  /\ stage = "folding" /\ next > Len(rows)
  /\ LET res == EvaluateRecheck(<<"recheck", "stateless">>, Order, view)
         armed == status = "PENDING_RECHECK"
     IN /\ status'  = IF armed THEN OrElse(res.decision.new, status) ELSE status
        /\ view'    = IF armed THEN res.view ELSE view
        /\ result'  = IF rows = <<>> THEN Null
                      ELSE [verdict |-> VerdictOf(view', status'),
                            amount  |-> OrElse(view'.amount, OrElse(FirstAmount("gateway"),
                                                                    FirstAmount("merchant"))),
                            ignored |-> IgnoredRows]
  /\ stage' = "answered"
  /\ UNCHANGED <<posted, rows, invalid, next, check, risky>>

Next == Refuse \/ Parse \/ FoldRow \/ Report
Spec == Init /\ [][Next]_vars

-----------------------------------------------------------------------------
\* A row's status is one of its own side's, whatever word the file used.
TypeOK ==
  /\ stage \in {"posted", "folding", "answered", "refused"}
  /\ \A i \in DOMAIN rows :
       rows[i].status \in IF rows[i].file = "gateway" THEN PaymentStatus \cup {"disputed"}
                         ELSE MerchantStatus
  /\ Len(rows) <= MaxRows /\ next \in 1..(MaxRows + 1) /\ view \in View
  /\ status \in {Null, "PENDING_RECHECK"} \cup TerminalStatuses
  /\ check \in CorrelationFailures \cup {Null}
  /\ risky \in BOOLEAN
  /\ result = Null \/ result.verdict \in Verdicts

Verdict == IF result = Null THEN Null ELSE result.verdict

\* The last row of a file that reports a status of its own: refund and dispute
\* rows do not carry a payment status.
LastOf(f) ==
  LET own == {i \in DOMAIN rows : rows[i].file = f /\ (f = "merchant" \/ rows[i].sub = Null)}
  IN IF own = {} THEN Null ELSE rows[CHOOSE i \in own : \A j \in own : j <= i].status

Reversed == \E i \in DOMAIN rows : rows[i].file = "gateway" /\ rows[i].sub # Null
Captured == \E i \in DOMAIN rows :
              rows[i].file = "gateway" /\ rows[i].sub = Null /\ rows[i].status = "captured"

\* "Mark the merchant order as paid" is recommended only when the gateway's
\* last word is captured, the merchant is on record and neither paid nor
\* deliberately closed the order, no refund or dispute row exists and no row
\* was rejected: the direction rules of compare.py end to end, over every
\* order of the rows.
AutoCorrectIsSafe ==
  Verdict = "AUTO_CORRECT" =>
    /\ LastOf("gateway") = "captured" /\ LastOf("merchant") \in {"pending", "failed"}
    /\ ~Reversed /\ check = Null

\* A refund or dispute row against a captured payment is never absorbed: the
\* order comes out disputed, or its rows contradict each other.
ReversalSurfaces ==
  (Verdict # Null /\ Reversed /\ Captured) => Verdict \in {"DISPUTED", "CORRELATION_FAILED"}

\* What a rejected row said never reaches the view: the order's currency is that
\* of its first gateway row and its amount that of the first payment row in that
\* currency, whatever rows in other currencies, refunds and merchant rows come
\* before it.  (correlate.py rejects, engine.py keeps the prior view.)
FirstPaymentRules ==
  LET gateway  == {i \in 1..(next - 1) : rows[i].file = "gateway"}
      first(S) == CHOOSE i \in S : \A j \in S : i <= j
      currency == rows[first(gateway)].currency
      payments == {i \in gateway : rows[i].sub = Null /\ rows[i].currency = currency}
  IN gateway # {} =>
       /\ view.currency = currency
       /\ view.amount = IF payments = {} THEN Null ELSE rows[first(payments)].amount

\* The row of the export a usable row was read from.
Cells(r) == (IF r.file = "gateway" THEN posted.gateway ELSE posted.merchant)[r.row]

\* The amount folded is the amount written, to the paisa, or the row is not
\* folded at all (to_paise: "Exact conversion"), for every amount that decimal
\* arithmetic holds exactly.
AmountsExact ==
  \A i \in DOMAIN rows :
    LET a == Cells(rows[i]).amount IN
    (a # Null /\ a.n < Exact) =>
      rows[i].amount * Tens[a.places] = a.n * (IF posted.unit = "rupees" THEN 100 ELSE 1)

\* Every row that names the order is either folded into its verdict or counted
\* in the note on ignored rows, so a recommendation made in spite of an
\* unreadable refund row says so.  (parse.py: "never dropped silently".)
IgnoredRowsAreNoted ==
  LET named(export) ==
        {i \in DOMAIN export : export[i] # Null /\ export[i].order = Order}
  IN result # Null =>
       Cardinality(named(posted.gateway)) + Cardinality(named(posted.merchant))
         = (next - 1) + result.ignored

\* What an order recommended to be marked paid is reported with is the amount of
\* all its payment rows and of every merchant row folded after the first of them:
\* no later row changes it or contradicts it.
OneAmountToMarkPaid ==
  Verdict = "AUTO_CORRECT" =>
    \A i, j \in DOMAIN rows :
      (rows[i].file = "gateway" /\ i <= j /\ rows[j].amount # Null) =>
        rows[j].amount = result.amount

\* An amount mismatch is a correlation failure, whichever side spoke first: no
\* merchant row of an order to be marked paid states another amount.
MerchantAmountAgrees ==
  Verdict = "AUTO_CORRECT" =>
    \A i \in DOMAIN rows : rows[i].amount \in {Null, result.amount}

-----------------------------------------------------------------------------
(* What the verdicts rest on.                                              *)

\* The usable rows of the order.
GatewayRow ==
  [file : {"gateway"}, row : 1..MaxRows, order : {Order}, sub : {Null, "refund", "dispute"},
   status : PaymentStatus \cup {"disputed"}, amount : Amounts, currency : Currencies,
   time : Nat \cup {Null}]
MerchantRow ==
  [file : {"merchant"}, row : 1..MaxRows, order : {Order}, status : MerchantStatus,
   amount : Amounts \cup {Null}, currency : Currencies \cup {Null}, time : Nat \cup {Null}]
ToolRow == {r \in GatewayRow : r.sub = Null => r.status \in PaymentStatus} \cup MerchantRow

\* A request whose exports are made of cells.
MadeOf(export, cells) ==
  /\ export \in Seq(cells \cup {Null})
  /\ \A i \in DOMAIN export, u \in Units :
       export[i] # Null => Paise(export[i].amount, u) \in Amounts \cup {Null, Garbled}
Request ==
  /\ posted.unit \in Units
  /\ posted.gateway # Null => MadeOf(posted.gateway, GatewayCells)
  /\ posted.merchant # Null => MadeOf(posted.merchant, MerchantCells)
  /\ (Accepted(posted.gateway) /\ Accepted(posted.merchant)) =>
       Len(posted.gateway) + Len(posted.merchant) <= MaxRows

\* The rows folded so far: those that report a status of their own, by file, and
\* the refunds and disputes.
Folded       == 1..(next - 1)
OwnRows(f)   == {i \in Folded : rows[i].file = f /\ (f = "merchant" \/ rows[i].sub = Null)}
PaymentRows  == OwnRows("gateway")
ReversalRows == {i \in Folded : rows[i].file = "gateway" /\ rows[i].sub # Null}
LastWord(f, word) ==
  \/ OwnRows(f) = {} /\ word = Null
  \/ \E i \in OwnRows(f) : word = rows[i].status /\ \A j \in OwnRows(f) : j <= i

\* As long as no row was rejected and the order is open, the view is that of all
\* the rows folded: it holds each side's last word, every reversal, and the one
\* amount stated since the first payment, and it is not reversed.
EveryRowTold ==
  /\ LastWord("gateway", view.rp) /\ LastWord("merchant", view.mc)
  /\ ReversalRows # {} => view.reversals # {}
  /\ (\E i \in PaymentRows : rows[i].status = "captured") => view.settled
  /\ view.reversals = {} \/ ~view.settled
  /\ \A i \in PaymentRows, j \in Folded \ ReversalRows :
       i <= j => view.amount # Null /\ rows[j].amount \in {Null, view.amount}

Fold ==
  /\ status \in {Null, "PENDING_RECHECK", "RESOLVED_NATURALLY", "DISPUTED"}
  /\ view.rp \in {"captured", "refunded"} => view.settled
  /\ status = "PENDING_RECHECK" => view.settled
  /\ (status \in {Null, "PENDING_RECHECK"} /\ check = Null) => EveryRowTold
  /\ (status = "RESOLVED_NATURALLY" /\ check = Null) => ReversalRows = {}
  /\ (\A i \in Folded : rows[i].file # "gateway") => view.currency = Null /\ view.amount = Null

\* Every row that names the order is one of the fold's or among the rejected.
AllAccounted ==
  LET named(export) == {i \in DOMAIN export : export[i] # Null /\ export[i].order = Order}
  IN Cardinality(named(posted.gateway)) + Cardinality(named(posted.merchant))
       = Len(rows) + IgnoredRows

\* Each row is one of the request's that can be used, as it was read.
RowsRead ==
  \A i \in DOMAIN rows :
    LET r == rows[i]
        export == IF r.file = "gateway" THEN posted.gateway ELSE posted.merchant
    IN /\ export # Null /\ r.row \in DOMAIN export /\ export[r.row] # Null
       /\ Usable(r) /\ r = RowOf(r.file, export[r.row], r.row, posted.unit)

ToolInv ==
  /\ TypeOK /\ Request /\ RowsRead
  /\ rows \in [1..Len(rows) -> ToolRow] /\ next <= Len(rows) + 1
  /\ stage \in {"posted", "refused"} => rows = <<>>
  /\ stage \in {"folding", "answered"} => AllAccounted
  /\ stage = "answered" => next = Len(rows) + 1
  /\ stage # "answered" => result = Null /\ Fold
  /\ result # Null => result.ignored = IgnoredRows
  /\ FirstPaymentRules
  /\ AutoCorrectIsSafe /\ ReversalSurfaces /\ OneAmountToMarkPaid
=============================================================================
