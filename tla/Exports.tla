------------------------------ MODULE Exports ------------------------------
(***************************************************************************)
(* The exports a user posts to the reconcile tool (reconcile_tool/parse.py)*)
(* and the rows read out of them.                                          *)
(*                                                                         *)
(* An export is a sequence of rows, or Null when no rows can be made of    *)
(* the text at all (empty, invalid JSON, no header, a required column      *)
(* missing).  A row is a record of cells, or Null for a JSON item that is  *)
(* not an object.  A cell is Null when blank or when its column is absent, *)
(* and Garbled when its text is not a value of the column.  A status cell  *)
(* is the word after _norm_key; an amount is n / 10^places; how a header   *)
(* or a number is spelled is left out.                                     *)
(***************************************************************************)
EXTENDS Decision, Integers, Sequences

CONSTANTS
  Garbled,    \* a cell that cannot be read
  FileLimit,  \* MAX_ROWS
  Precision   \* significant digits decimal arithmetic keeps (28)

ASSUME ExportsAssumption ==
  /\ Garbled # Null /\ Garbled \notin Orders
  /\ Garbled \notin Currencies /\ Garbled \notin Amounts
  /\ FileLimit \in Nat /\ Precision \in Nat \ {0}

Units == {"rupees", "paise"}

-----------------------------------------------------------------------------
\* The words each side uses for a status.
GatewaySynonyms ==
  [captured   |-> {"captured", "capture", "success", "succeeded", "successful", "paid",
                   "complete", "completed", "settled"},
   authorized |-> {"authorized", "authorised", "authorization", "auth"},
   created    |-> {"created", "pending", "initiated", "new", "open", "attempted"},
   failed     |-> {"failed", "fail", "failure", "declined", "error", "rejected"},
   refunded   |-> {"refunded", "refund", "reversed", "partially_refunded"}]

MerchantSynonyms ==
  [paid      |-> {"paid", "success", "succeeded", "successful", "captured", "complete",
                  "completed", "processing", "fulfilled"},
   pending   |-> {"pending", "pending_payment", "on_hold", "hold", "created",
                  "awaiting_payment", "unpaid", "new", "open"},
   failed    |-> {"failed", "fail", "failure", "declined", "error"},
   cancelled |-> {"cancelled", "canceled", "cancel", "void", "voided"},
   refunded  |-> {"refunded", "refund", "reversed"}]

\* One table for both files: "created" and "new" would be gateway statuses of a
\* merchant row, and "processing" unknown.
StatusSharedTable(word, table) ==
  LET meanings == {s \in DOMAIN GatewaySynonyms : word \in GatewaySynonyms[s]}
  IN IF meanings = {} THEN Garbled ELSE CHOOSE s \in meanings : TRUE

\* The status a word stands for; no word means two things in one table.
Status(word, table) ==
  LET meanings == {s \in DOMAIN table : word \in table[s]}
  IN IF meanings = {} THEN Garbled ELSE CHOOSE s \in meanings : TRUE

-----------------------------------------------------------------------------
\* The powers of ten.
Tens[k \in Nat] == IF k = 0 THEN 1 ELSE 10 * Tens[k - 1]

\* What decimal arithmetic holds exactly is below this.
Exact == Tens[Precision]

\* The number of digits of n.
Digits(n) == CHOOSE d \in 1..(n + 1) : n < Tens[d] /\ (d = 1 \/ Tens[d - 1] <= n)

\* n as decimal arithmetic returns it: Precision digits, half to even.
Rounded(n) ==
  LET unit == Tens[Digits(n) - Precision]
      q    == n \div unit
      r    == n % unit
      up   == 2 * r > unit \/ (2 * r = unit /\ q % 2 = 1)
  IN IF n < Exact THEN n ELSE unit * (q + IF up THEN 1 ELSE 0)

\* A conversion that cuts what is below a paisa off.
ToPaiseTruncating(a, unit) ==
  LET scaled == IF unit = "rupees" THEN Rounded(100 * a.n) ELSE a.n
  IN IF a.n < 0 THEN Garbled ELSE scaled \div Tens[a.places]

\* Whole paise, or an amount that is refused.  The product is rounded before
\* the test for whole paise.
ToPaise(a, unit) ==
  LET scaled == IF unit = "rupees" THEN Rounded(100 * a.n) ELSE a.n
  IN IF a.n < 0 \/ scaled % Tens[a.places] # 0 THEN Garbled ELSE scaled \div Tens[a.places]

Paise(cell, unit) == IF cell \in {Null, Garbled} THEN cell ELSE ToPaise(cell, unit)

-----------------------------------------------------------------------------
\* What the cells of a row may hold.
MoneyCell == [n : Int, places : Nat] \cup {Null, Garbled}
MerchantCells ==
  [order : Orders \cup {Null}, status : STRING \cup {Null}, amount : MoneyCell,
   currency : Currencies \cup {Null, Garbled}, time : Nat \cup {Null, Garbled}]
GatewayCells ==
  [order : Orders \cup {Null}, status : STRING \cup {Null}, amount : MoneyCell,
   currency : Currencies \cup {Null, Garbled}, ids : SUBSET {"refund", "dispute"},
   time : Nat \cup {Null, Garbled}]

\* A row that carries a refund or a dispute id is a reversal whatever its status
\* cell says.
Sub(ids) == CASE "refund" \in ids -> "refund"
              [] ids = {"dispute"} -> "dispute"
              [] OTHER -> Null

\* Gateway row number i; a blank currency is rupees.
GatewayRowOf(cells, i, unit) ==
  LET sub == Sub(cells.ids) IN
  [file |-> "gateway", row |-> i, order |-> cells.order, sub |-> sub,
   status   |-> CASE sub = "refund" -> "refunded"
                  [] sub = "dispute" -> "disputed"
                  [] OTHER -> Status(cells.status, GatewaySynonyms),
   amount   |-> OrElse(Paise(cells.amount, unit), Garbled),
   currency |-> OrElse(cells.currency, "INR"),
   time     |-> cells.time]

\* Merchant row number i; amount and currency are optional.
MerchantRowOf(cells, i, unit) ==
  [file |-> "merchant", row |-> i, order |-> cells.order,
   status   |-> Status(cells.status, MerchantSynonyms),
   amount   |-> Paise(cells.amount, unit),
   currency |-> cells.currency,
   time     |-> cells.time]

RowOf(file, cells, i, unit) ==
  IF file = "gateway" THEN GatewayRowOf(cells, i, unit) ELSE MerchantRowOf(cells, i, unit)

\* A row is kept whatever becomes of its amount.
UsableUnpriced(r) ==
  r.order # Null /\ r.status # Garbled /\ r.currency # Garbled /\ r.time # Garbled

\* No reason to reject the row.
Usable(r) ==
  /\ r.order # Null
  /\ r.status # Garbled /\ r.amount # Garbled /\ r.currency # Garbled /\ r.time # Garbled

\* The numbers of the rows that can be used.
UsableRows(file, export, unit) ==
  {i \in DOMAIN export : export[i] # Null /\ Usable(RowOf(file, export[i], i, unit))}

\* The rows read from an export.
RowsOf(file, export, unit) ==
  {RowOf(file, export[i], i, unit) : i \in UsableRows(file, export, unit)}

\* Rejected rows that forget which order they named.
InvalidAnonymous(file, export, unit) ==
  {[file |-> file, row |-> i, order |-> Null] :
     i \in DOMAIN export \ UsableRows(file, export, unit)}

\* The rows that were rejected, with the order they name if they name one.
Invalid(file, export, unit) ==
  {[file |-> file, row |-> i, order |-> IF export[i] = Null THEN Null ELSE export[i].order] :
     i \in DOMAIN export \ UsableRows(file, export, unit)}

\* The whole export is refused when it cannot be read, is too long, or has no
\* column at all because none of its items is an object.
Accepted(export) ==
  /\ export # Null /\ Len(export) <= FileLimit
  /\ export # <<>> => \E i \in DOMAIN export : export[i] # Null
=============================================================================
