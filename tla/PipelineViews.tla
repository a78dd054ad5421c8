--------------------------- MODULE PipelineViews ---------------------------
(***************************************************************************)
(* The stored views of the reconciliation pipeline are the folds of the    *)
(* audited events, for any orders, consumers and partition, any redelivery *)
(* and any number of faults.                                               *)
(*                                                                         *)
(* FoldOf is a recursive function, so what it yields is shown by induction *)
(* on the place in the partition (LeastNatural).                           *)
(***************************************************************************)
EXTENDS PipelineProofs

-----------------------------------------------------------------------------
(* Folding a partition.                                                    *)

\* f[n] is the view after the first n messages of l, for n up to m.
Folds(f, l, T, m) ==
  f = [n \in 0..m |->
         IF n = 0 THEN Null
         ELSE IF n \in T THEN FoldedIn(l[n], f[n - 1]) ELSE f[n - 1]]

LEMMA FoldsMean ==
  ASSUME NEW f, NEW l, NEW T, NEW m \in Nat, Folds(f, l, T, m)
  PROVE  /\ f[0] = Null
         /\ \A n \in 1..m : n - 1 \in 0..m
              /\ f[n] = IF n \in T THEN FoldedIn(l[n], f[n - 1]) ELSE f[n - 1]
<1>1. \A n \in 0..m : f[n] = IF n = 0 THEN Null
                             ELSE IF n \in T THEN FoldedIn(l[n], f[n - 1]) ELSE f[n - 1]
  BY Zenon DEF Folds
<1>2. 0 \in 0..m /\ \A n \in 1..m : n \in 0..m /\ n # 0 /\ n - 1 \in 0..m
  OBVIOUS
<1> QED
  BY <1>1, <1>2

\* One message more.
LEMMA FoldsOn ==
  ASSUME NEW f, NEW l, NEW T, NEW m \in Nat, Folds(f, l, T, m)
  PROVE  \E g : Folds(g, l, T, m + 1)
<1> DEFINE last == IF m + 1 \in T THEN FoldedIn(l[m + 1], f[m]) ELSE f[m]
           g == [n \in 0..(m + 1) |-> IF n = m + 1 THEN last ELSE f[n]]
<1>1. ASSUME NEW n \in 0..(m + 1)
      PROVE  g[n] = IF n = 0 THEN Null
                    ELSE IF n \in T THEN FoldedIn(l[n], g[n - 1]) ELSE g[n - 1]
  <2>1. CASE n = m + 1
    <3>1. n # 0 /\ n - 1 = m /\ m \in 0..(m + 1) /\ m # m + 1
      BY <2>1
    <3>2. g[n] = last /\ g[n - 1] = f[m]
      BY <2>1, <3>1
    <3> HIDE DEF g
    <3> QED
      BY <2>1, <3>1, <3>2
  <2>2. CASE n # m + 1
    <3>1. n \in 0..m /\ (n # 0 => n - 1 \in 0..(m + 1) /\ n - 1 # m + 1 /\ n \in 1..m)
      BY <2>2
    <3>2. g[n] = f[n] /\ (n # 0 => g[n - 1] = f[n - 1])
      BY <2>2, <3>1
    <3> HIDE DEF g
    <3> QED
      BY <3>1, <3>2, FoldsMean
  <2> QED
    BY <2>1, <2>2
<1>2. g = [n \in 0..(m + 1) |-> g[n]]
  OBVIOUS
<1> HIDE DEF g
<1>3. Folds(g, l, T, m + 1)
  BY <1>1, <1>2 DEF Folds
<1> QED
  BY <1>3

LEMMA FoldsExist ==
  ASSUME NEW l, NEW T, NEW m \in Nat
  PROVE  \E f : Folds(f, l, T, m)
<1> DEFINE S == {n \in Nat : ~\E f : Folds(f, l, T, n)}
<1>1. SUFFICES ASSUME S # {} PROVE FALSE
  OBVIOUS
<1>2. PICK n \in S : \A k \in S : n <= k
  BY <1>1, LeastNatural
<1>3. CASE n = 0
  <2> DEFINE f == [k \in 0..0 |-> Null]
  <2>1. Folds(f, l, T, 0)
    BY DEF Folds
  <2> QED
    BY <1>2, <1>3, <2>1
<1>4. CASE n # 0
  <2>1. n \in Nat /\ n - 1 \in Nat /\ ~(n <= n - 1)
    BY <1>2, <1>4
  <2>2. n - 1 \notin S
    BY <1>2, <2>1
  <2>3. PICK f : Folds(f, l, T, n - 1)
    BY <2>1, <2>2
  <2>4. \E g : Folds(g, l, T, (n - 1) + 1)
    BY <2>1, <2>3, FoldsOn
  <2>5. (n - 1) + 1 = n
    BY <2>1
  <2> QED
    BY <1>2, <2>4, <2>5
<1> QED
  BY <1>3, <1>4

LEMMA FoldOfFolds ==
  ASSUME NEW l, NEW T, Len(l) \in Nat
  PROVE  Folds(FoldOf(l, T), l, T, Len(l))
<1>1. FoldOf(l, T) = CHOOSE f : Folds(f, l, T, Len(l))
  BY Zenon DEF FoldOf, Folds
<1>2. \E f : Folds(f, l, T, Len(l))
  BY FoldsExist
<1> QED
  BY <1>1, <1>2, Zenon

\* Folds of the same messages agree.
LEMMA FoldsAgree ==
  ASSUME NEW f, NEW g, NEW l, NEW T, NEW U, NEW m \in Nat, NEW k \in 0..m,
         Folds(f, l, T, m), Folds(g, l, U, m), \A n \in 1..k : n \in T <=> n \in U
  PROVE  f[k] = g[k]
<1> DEFINE S == {n \in 0..k : f[n] # g[n]}
<1>1. SUFFICES ASSUME S # {} PROVE FALSE
  OBVIOUS
<1>2. PICK n \in S : \A j \in S : n <= j
  <2>1. S \in SUBSET Nat
    OBVIOUS
  <2> HIDE DEF S
  <2> QED
    BY <1>1, <2>1, LeastNatural
<1>3. f[0] = g[0]
  BY FoldsMean
<1>4. n # 0
  BY <1>2, <1>3
<1>5. n \in 1..k /\ n \in 1..m /\ n - 1 \in 0..k /\ ~(n <= n - 1)
  BY <1>2, <1>4
<1>6. f[n - 1] = g[n - 1]
  BY <1>2, <1>5
<1>7. f[n] = g[n]
  BY <1>5, <1>6, FoldsMean
<1> QED
  BY <1>2, <1>7

\* Messages that are left out change nothing.
LEMMA FoldStays ==
  ASSUME NEW f, NEW l, NEW T, NEW m \in Nat, NEW i \in 0..m, Folds(f, l, T, m),
         \A n \in T : n <= i
  PROVE  f[m] = f[i]
<1> DEFINE S == {n \in i..m : f[n] # f[i]}
<1>1. SUFFICES ASSUME S # {} PROVE FALSE
  OBVIOUS
<1>2. PICK n \in S : \A j \in S : n <= j
  <2>1. S \in SUBSET Nat
    OBVIOUS
  <2> HIDE DEF S
  <2> QED
    BY <1>1, <2>1, LeastNatural
<1>3. n \in 1..m /\ n - 1 \in i..m /\ ~(n <= n - 1) /\ ~(n <= i)
  BY <1>2
<1>4. f[n - 1] = f[i]
  BY <1>2, <1>3
<1>5. f[n] = f[n - 1]
  BY <1>3, FoldsMean
<1> QED
  BY <1>2, <1>4, <1>5

\* Folding a message behind all others.
LEMMA FoldOneMore ==
  ASSUME NEW l, Len(l) \in Nat, NEW i \in 1..Len(l), NEW T, \A n \in T : n < i /\ n \in Int
  PROVE  FoldOf(l, T \cup {i})[Len(l)] = FoldedIn(l[i], FoldOf(l, T)[Len(l)])
<1> DEFINE m == Len(l)
           U == T \cup {i}
           f == FoldOf(l, T)
           g == FoldOf(l, U)
<1>1. m \in Nat /\ i \in 1..m /\ i \in 0..m /\ i - 1 \in 0..m
  OBVIOUS
<1>2. Folds(f, l, T, m) /\ Folds(g, l, U, m)
  BY FoldOfFolds
<1>3. /\ \A n \in T : n <= i - 1
      /\ \A n \in U : n <= i
      /\ \A n \in 1..(i - 1) : n \in T <=> n \in U
  OBVIOUS
<1> HIDE DEF m, U, f, g
<1>4. f[m] = f[i - 1] /\ g[m] = g[i]
  BY <1>1, <1>2, <1>3, FoldStays
<1>5. g[i - 1] = f[i - 1]
  BY <1>1, <1>2, <1>3, FoldsAgree
<1>6. i \in U
  BY DEF U
<1>7. g[i] = FoldedIn(l[i], g[i - 1])
  BY <1>1, <1>2, <1>6, FoldsMean
<1>8. g[m] = FoldedIn(l[i], f[m])
  BY <1>4, <1>5, <1>7
<1> QED
  BY <1>8 DEF m, U, f, g
-----------------------------------------------------------------------------
(* Steps that fold nothing.                                                *)

\* No view and no event's audit row is written, and a consumer that is now about
\* to apply an event was so before, or has just read the view.
NoFold ==
  /\ UNCHANGED <<log, views>> /\ committed' \in Nat /\ committed' >= committed
  /\ audit \subseteq audit' /\ \A a \in audit' \ audit : BySystem(a)
  /\ \A c \in Consumers : cons'[c].pc = "apply" =>
       /\ cons'[c].at = cons[c].at
       /\ \/ cons[c].pc = "apply" /\ cons'[c].view = cons[c].view
          \/ cons'[c].view = OrElse(views[OrderAt(c)], EmptyView)

LEMMA NoFoldKeeps ==
  ASSUME TypeOK, ViewInv, NoFold
  PROVE  ViewInv'
<1> USE DEF ViewInv
<1>1. log' = log /\ views' = views /\ committed \in Nat /\ committed' \in Nat
      /\ committed' >= committed
  BY LogType DEF NoFold, TypeOK
<1>2. AuditedWasRead'
  <2> SUFFICES ASSUME NEW a \in audit', ~BySystem(a)
               PROVE  \E i \in DOMAIN log : i <= committed' + 1 /\ log[i] # Null /\ log[i].id = a.id
    BY <1>1 DEF AuditedWasRead, BySystem
  <2>1. a \in audit
    BY DEF NoFold
  <2>2. PICK i \in DOMAIN log : i <= committed + 1 /\ log[i] # Null /\ log[i].id = a.id
    BY <2>1 DEF AuditedWasRead
  <2>3. i \in Int
    BY LogType, LogsAssumption DEF TypeOK
  <2>4. i <= committed' + 1
    BY <1>1, <2>2, <2>3
  <2> QED
    BY <2>2, <2>4
<1>3. ViewsAreCurrent'
  <2> SUFFICES ASSUME NEW c \in Consumers, cons'[c].pc = "apply", ~Audited(IdAt(c))'
               PROVE  cons'[c].view = OrElse(views[OrderAt(c)], EmptyView)'
    BY DEF ViewsAreCurrent
  <2>1. cons'[c].at = cons[c].at
    BY DEF NoFold
  <2>2. OrElse(views[OrderAt(c)], EmptyView)' = OrElse(views[OrderAt(c)], EmptyView)
    BY <1>1, <2>1 DEF OrderAt
  <2>3. ~Audited(IdAt(c))
    BY <1>1, <2>1 DEF Audited, IdAt, NoFold
  <2> QED
    BY <2>2, <2>3 DEF NoFold, ViewsAreCurrent
<1>4. ViewIsFold'
  <2> SUFFICES ASSUME NEW o \in Orders
               PROVE  views'[o] = FoldOf(log', Taken(o)')[Len(log')]
    BY DEF ViewIsFold
  <2>1. ASSUME NEW i \in DOMAIN log, log[i] # Null
        PROVE  Audited(log[i].id)' = Audited(log[i].id)
    <3>1. log[i].id \in EventIds
      BY <2>1, LogType, LogsAssumption DEF TypeOK
    <3> QED
      BY <1>1, <3>1, IdAssumption DEF Audited, NoFold, BySystem
  <2>2. Taken(o)' = Taken(o)
    BY <1>1, <2>1 DEF Taken
  <2>3. FoldOf(log', Taken(o)') = FoldOf(log, Taken(o))
    BY <1>1, <2>2, Zenon
  <2>4. views[o] = FoldOf(log, Taken(o))[Len(log)]
    BY DEF ViewIsFold
  <2> QED
    BY <1>1, <2>3, <2>4, Zenon
<1> QED
  BY <1>2, <1>3, <1>4
-----------------------------------------------------------------------------
(* The step that folds an event.                                           *)

\* What is folded does not depend on what the row said.
LEMMA FoldIgnoresStatus ==
  ASSUME NEW e, NEW v, NEW status
  PROVE  Evaluate(e, OrElse(v, EmptyView), status, FALSE).view = FoldedIn(e, v)
BY Zenon DEF FoldedIn, Evaluate

\* An event in hand that is not audited: no earlier message has its id, so it
\* joins the audited ones of its order, behind all of them.
LEMMA OneMoreTaken ==
  ASSUME PipelineInv, AuditedWasRead, NEW c \in Consumers, cons[c].pc = "apply",
         ~Audited(IdAt(c)), log' = log, NEW a, a.id = IdAt(c), audit' = audit \cup {a},
         NEW o, o = OrderAt(c)
  PROVE  /\ Taken(o)' = Taken(o) \cup {cons[c].at}
         /\ \A n \in Taken(o) : n < cons[c].at /\ n \in Int
         /\ \A x \in Orders : x # o => Taken(x)' = Taken(x)
<1> DEFINE i == cons[c].at
<1>1. /\ i \in 1..Len(log) /\ log[i] # Null /\ log[i].order = o /\ log[i].id = IdAt(c)
      /\ i = committed + 1 /\ committed \in Nat /\ Len(log) \in Nat /\ DOMAIN log = 1..Len(log)
  <2>1. HandlerOnLog(c) /\ TypeOK /\ CommittedIsAudited
    BY DEF PipelineInv, StoreInv, HandlersOnLog
  <2>2. i = committed + 1 /\ i \in 1..Len(log) /\ log[i] # Null
    BY <2>1, UnauditedIsNext DEF HandlerOnLog, HandlerHasEvent
  <2>3. DOMAIN log = 1..Len(log)
    BY <2>1, LogsAssumption DEF TypeOK
  <2> QED
    BY <2>1, <2>2, <2>3, LogType DEF TypeOK, OrderAt, IdAt
<1>2. ASSUME NEW j \in 1..Len(log), log[j] # Null, log[j].id = IdAt(c)
      PROVE  ~(j < i)
  BY <1>1, <1>2 DEF PipelineInv, StoreInv, CommittedIsAudited
<1> DEFINE First(x, j) == /\ j \in DOMAIN log /\ log[j] # Null /\ log[j].order = x
                         /\ \A k \in 1..(j - 1) : log[k] = Null \/ log[k].id # log[j].id
<1>3. ASSUME NEW x, NEW j
      PROVE  /\ j \in Taken(x) <=> First(x, j) /\ \E b \in audit : b.id = log[j].id
             /\ j \in Taken(x)' <=> First(x, j) /\ \E b \in audit' : b.id = log[j].id
  BY DEF Taken, Audited
<1>4. ASSUME NEW x, NEW j, First(x, j), log[j].id = IdAt(c)
      PROVE  j = i
  <2>1. ~(j < i) /\ ~(i \in 1..(j - 1)) /\ j \in 1..Len(log)
    BY <1>1, <1>2, <1>4
  <2> QED
    BY <1>1, <2>1
<1>5. First(o, i)
  BY <1>1, <1>2
<1> HIDE DEF First
<1>6. Taken(o)' = Taken(o) \cup {i}
  <2>1. ASSUME NEW j PROVE j \in Taken(o)' <=> (j \in Taken(o) \/ j = i)
    <3>1. CASE j = i
      BY <1>1, <1>3, <1>5, <3>1
    <3>2. CASE j # i
      BY <1>3, <1>4, <3>2
    <3> QED
      BY <3>1, <3>2
  <2> QED
    BY <2>1
<1>7. ASSUME NEW n \in Taken(o) PROVE n < i /\ n \in Int
  <2>1. n \in 1..Len(log) /\ log[n] # Null /\ Audited(log[n].id)
        /\ \A k \in 1..(n - 1) : log[k] = Null \/ log[k].id # log[n].id
    BY <1>1 DEF Taken
  <2>2. log[n].id \notin SystemId
    BY <2>1, LogType, IdAssumption DEF PipelineInv, StoreInv
  <2>3. PICK m \in DOMAIN log : m <= committed + 1 /\ log[m] # Null /\ log[m].id = log[n].id
    BY <2>1, <2>2 DEF Audited, AuditedWasRead, BySystem
  <2>4. n # i /\ m \notin 1..(n - 1)
    BY <1>1, <2>1, <2>3
  <2> QED
    BY <1>1, <2>1, <2>3, <2>4
<1>8. ASSUME NEW x \in Orders, x # o PROVE Taken(x)' = Taken(x)
  <2>1. ~First(x, i)
    BY <1>1, <1>8 DEF First
  <2>2. ASSUME NEW j PROVE j \in Taken(x)' <=> j \in Taken(x)
    BY <1>3, <1>4, <2>1
  <2> QED
    BY <2>2
<1> QED
  BY <1>6, <1>7, <1>8

LEMMA ApplyFolds ==
  ASSUME PipelineInv, ViewInv, NEW c \in Consumers, Apply(c), ~Replay(IdAt(c))
  PROVE  ViewInv'
<1>1. TypeOK /\ HandlersOnLog /\ CommittedIsAudited /\ cons[c].pc = "apply" /\ ~Audited(IdAt(c))
  BY DEF PipelineInv, StoreInv, Apply, ApplyAs, Overtaken, Replay, Audited
<1>2. PICK o \in Orders : o = OrderAt(c)
  BY <1>1, EventAt, HaveEvents
<1> DEFINE h      == cons[c]
           i      == cons[c].at
           result == Evaluate(log[h.at], h.view, h.status, FALSE)
           d      == result.decision
           moves  == PointerMoves(d, rows[OrderAt(c)], h)
           marked == [IdleHandler EXCEPT !.pc = "mark", !.at = h.at]
           done   == IF d.action = "ARM_RECHECK" /\ moves
                     THEN [marked EXCEPT !.push = TRUE, !.left = h.left] ELSE marked
           a      == Entry(IdAt(c), OrderAt(c), d.action, h.status, OrElse(d.new, h.status))
           folded == FoldedIn(log[i], views[o])
<1>3. /\ i = committed + 1 /\ i \in 1..Len(log) /\ Len(log) \in Nat
      /\ log[i] # Null /\ log[i].id = IdAt(c)
  BY <1>1, UnauditedIsNext, LogType DEF HandlersOnLog, HandlerOnLog, HandlerHasEvent, IdAt
<1>4. result.view = folded
  <2>1. h.view = OrElse(views[o], EmptyView)
    BY <1>1, <1>2 DEF ViewInv, ViewsAreCurrent
  <2>2. \A s : Evaluate(log[i], OrElse(views[o], EmptyView), s, FALSE).view = folded
    BY FoldIgnoresStatus, Zenon
  <2> QED
    BY <2>1, <2>2, Zenon
<1>5. /\ audit' = audit \cup {a} /\ views' = [views EXCEPT ![OrderAt(c)] = result.view]
      /\ cons' = [(IF moves THEN Overtaken(c, OrderAt(c)) ELSE cons) EXCEPT ![c] = done]
      /\ UNCHANGED <<log, committed>>
  <2>1. UNCHANGED kafkaVars
    BY Zenon DEF Apply, ApplyAs, Overtaken
  <2>2. UNCHANGED <<log, committed>>
    BY <2>1 DEF kafkaVars
  <2> QED
    BY <2>2, Zenon DEF Apply, ApplyAs, Overtaken, IdAt, OrderAt
<1>6. a.id = IdAt(c)
  BY DEF Entry
<1>7. done.pc = "mark"
  BY DEF IdleHandler
<1>8. views' = [views EXCEPT ![o] = folded]
  <2>1. views' = [views EXCEPT ![OrderAt(c)] = folded]
    BY <1>4, <1>5, Zenon
  <2> HIDE DEF folded
  <2> QED
    BY <1>2, <2>1
<1> HIDE DEF done, marked, moves, d, result, a, folded
<1>9. AuditedWasRead'
  <2> SUFFICES ASSUME NEW b \in audit', ~BySystem(b)
               PROVE  \E n \in DOMAIN log : n <= committed + 1 /\ log[n] # Null /\ log[n].id = b.id
    BY <1>5 DEF AuditedWasRead, BySystem
  <2>1. CASE b \in audit
    BY <2>1 DEF ViewInv, AuditedWasRead
  <2>2. CASE b = a
    <3>1. i \in DOMAIN log /\ i <= committed + 1
      BY <1>1, <1>2, <1>3, LogsAssumption DEF TypeOK
    <3> QED
      BY <1>2, <1>3, <1>6, <2>2, <3>1
  <2> QED
    BY <1>5, <2>1, <2>2
<1>10. ViewsAreCurrent'
  <2> SUFFICES ASSUME NEW x \in Consumers, cons'[x].pc = "apply", ~Audited(IdAt(x))'
               PROVE  FALSE
    BY DEF ViewsAreCurrent
  <2>1. cons'[c] = done
    BY <1>1, <1>5, OvertakenType DEF TypeOK
  <2>2. x # c
    BY <1>7, <2>1
  <2>3. cons'[x] = cons[x] \/ cons'[x] = [cons[x] EXCEPT !.moved = TRUE]
    BY <1>1, <1>5, <2>2, OvertakenType DEF Overtaken, Told, TypeOK
  <2>4. cons'[x].pc = cons[x].pc /\ cons'[x].at = cons[x].at
    BY <1>1, <2>3, HandlerType DEF Handler
  <2>5. IdAt(x)' = IdAt(x)
    BY <1>5, <2>4 DEF IdAt
  <2>6. ~Audited(IdAt(x)) /\ IdAt(x) # IdAt(c)
    BY <1>5, <1>6, <2>5 DEF Audited
  <2>7. cons[x].at = committed + 1
    BY <1>1, <2>4, <2>6, UnauditedIsNext DEF HandlersOnLog
  <2> QED
    BY <1>2, <1>3, <2>6, <2>7 DEF IdAt
<1>11. ViewIsFold'
  <2>1. /\ Taken(o)' = Taken(o) \cup {i}
        /\ \A n \in Taken(o) : n < i /\ n \in Int
        /\ \A x \in Orders : x # o => Taken(x)' = Taken(x)
    BY <1>1, <1>2, <1>5, <1>6, OneMoreTaken DEF ViewInv
  <2>2. ViewIsFold
    BY DEF ViewInv
  <2> SUFFICES ASSUME NEW x \in Orders
               PROVE  views'[x] = FoldOf(log', Taken(x)')[Len(log')]
    BY DEF ViewIsFold
  <2>3. CASE x = o
    <3>1. FoldOf(log, Taken(o) \cup {i})[Len(log)] = FoldedIn(log[i], FoldOf(log, Taken(o))[Len(log)])
      BY <1>2, <1>3, <2>1, FoldOneMore
    <3>2. FoldOf(log', Taken(o)')[Len(log')] = FoldOf(log, Taken(o) \cup {i})[Len(log)]
      BY <1>5, <2>1, Zenon
    <3>3. folded = FoldedIn(log[i], FoldOf(log, Taken(o))[Len(log)])
      BY <1>2, <1>3, <2>2, Zenon DEF ViewIsFold, folded
    <3>4. views'[o] = folded
      BY <1>1, <1>2, <1>3, <1>8 DEF TypeOK
    <3>5. Taken(x)' = Taken(o)'
      BY <2>3
    <3> QED
      BY <2>3, <3>1, <3>2, <3>3, <3>4, <3>5, Zenon
  <2>4. CASE x # o
    <3>1. views'[x] = views[x]
      BY <1>1, <1>8, <2>4 DEF TypeOK
    <3>2. FoldOf(log', Taken(x)') = FoldOf(log, Taken(x))
      BY <1>5, <2>1, <2>4, Zenon
    <3>3. views[x] = FoldOf(log, Taken(x))[Len(log)]
      BY <2>2 DEF ViewIsFold
    <3> QED
      BY <1>5, <3>1, <3>2, <3>3, Zenon
  <2> QED
    BY <2>3, <2>4
<1> QED
  BY <1>9, <1>10, <1>11 DEF ViewInv

-----------------------------------------------------------------------------
(* Every step of the pipeline.                                             *)

\* A consumer's steps other than the application of a new event.
LEMMA ConsumerFolds ==
  ASSUME PipelineInv, ViewInv, NEW c \in Consumers,
         ConsumerStep(c) \/ Assign(c) \/ CrashConsumer(c) \/ Rebalance(c)
  PROVE  ViewInv'
<1> USE DEF dbVars, redisVars, kafkaVars
<1>1. TypeOK /\ HandlersOnLog /\ committed \in Nat /\ Len(log) \in Nat
  BY LogType DEF PipelineInv, StoreInv, TypeOK
<1>2. ASSUME NEW s, cons' = [cons EXCEPT ![c] = s], UNCHANGED <<log, views, audit>>,
             committed' \in Nat /\ committed' >= committed,
             s.pc = "apply" => /\ s.at = cons[c].at
                               /\ s.view = OrElse(views[OrderAt(c)], EmptyView)
      PROVE  ViewInv'
  <2>1. \A x \in Consumers : cons'[x] = IF x = c THEN s ELSE cons[x]
    BY <1>1, <1>2 DEF TypeOK
  <2>2. NoFold
    BY <1>2, <2>1 DEF NoFold
  <2> QED
    BY <1>1, <2>2, NoFoldKeeps
<1>3. CASE \/ FileMalformed(c) \/ SkipSeen(c) \/ StartEvent(c) \/ ReadRow(c) \/ MarkSeen(c)
           \/ Push(c) \/ CrashConsumer(c)
  <2>1. PICK s : cons' = [cons EXCEPT ![c] = s] /\ s.pc # "apply" /\ UNCHANGED <<log, views, audit, committed>>
    <3>1. CASE FileMalformed(c) \/ SkipSeen(c)
      <4> DEFINE s == [IdleHandler EXCEPT !.pc = "commit", !.at = committed + 1]
      <4>1. s.pc # "apply"
        BY DEF IdleHandler
      <4> QED
        BY <3>1, <4>1 DEF FileMalformed, SkipSeen
    <3>2. CASE StartEvent(c)
      <4> DEFINE s == [IdleHandler EXCEPT !.pc = "row", !.at = committed + 1]
      <4>1. s.pc # "apply"
        BY DEF IdleHandler
      <4> QED
        BY <3>2, <4>1 DEF StartEvent
    <3>3. CASE ReadRow(c)
      <4> DEFINE r == rows[log[cons[c].at].order]
                 s == [cons[c] EXCEPT !.pc = "view", !.status = IF r = Null THEN Null ELSE r.status]
      <4>1. s.pc # "apply"
        BY <1>1, HandlerType DEF Handler
      <4> QED
        BY <3>3, <4>1 DEF ReadRow
    <3>4. CASE MarkSeen(c)
      <4> DEFINE s == [cons[c] EXCEPT !.pc = IF cons[c].push THEN "push" ELSE "commit"]
      <4>1. s.pc # "apply"
        BY <1>1, HandlerType DEF Handler
      <4> QED
        BY <3>4, <4>1 DEF MarkSeen
    <3>5. CASE Push(c)
      <4> DEFINE s == [IdleHandler EXCEPT !.pc = "commit", !.at = cons[c].at]
      <4>1. s.pc # "apply"
        BY DEF IdleHandler
      <4> QED
        BY <3>5, <4>1 DEF Push
    <3>6. CASE CrashConsumer(c)
      <4>1. IdleHandler.pc # "apply"
        BY DEF IdleHandler
      <4> QED
        BY <3>6, <4>1 DEF CrashConsumer
    <3> QED
      BY <1>3, <3>1, <3>2, <3>3, <3>4, <3>5, <3>6
  <2>2. UNCHANGED <<log, views, audit>> /\ committed' \in Nat /\ committed' >= committed
    BY <1>1, <2>1
  <2> QED
    BY <1>2, <2>1, <2>2, Zenon
<1>4. CASE ReadView(c)
  <2> DEFINE v == OrElse(views[OrderAt(c)], EmptyView)
             s == [cons[c] EXCEPT !.pc = "apply", !.view = v]
  <2>1. cons' = [cons EXCEPT ![c] = s] /\ UNCHANGED <<log, views, audit, committed>>
    BY <1>4 DEF ReadView, OrderAt
  <2>2. s.at = cons[c].at /\ s.view = v
    BY <1>1, HandlerType DEF Handler
  <2> HIDE DEF s
  <2>3. UNCHANGED <<log, views, audit>> /\ committed' \in Nat /\ committed' >= committed
    BY <1>1, <2>1
  <2> QED
    BY <1>2, <2>1, <2>2, <2>3, Zenon
<1>5. CASE Apply(c)
  <2>1. CASE ~Replay(IdAt(c))
    BY <1>5, <2>1, ApplyFolds
  <2>2. CASE Replay(IdAt(c))
    <3> DEFINE marked == [IdleHandler EXCEPT !.pc = "mark", !.at = cons[c].at]
    <3>1. cons' = [cons EXCEPT ![c] = marked] /\ UNCHANGED <<dbVars, kafkaVars>>
      <4> HIDE DEF dbVars, kafkaVars
      <4> QED
        BY <1>5, <2>2, Zenon DEF Apply, ApplyAs, Overtaken, IdAt
    <3>2. marked.pc # "apply"
      BY DEF IdleHandler
    <3> HIDE DEF marked
    <3>3. UNCHANGED <<log, views, audit>> /\ committed' \in Nat /\ committed' >= committed
      BY <1>1, <3>1
    <3> QED
      BY <1>2, <3>1, <3>2, <3>3, Zenon
  <2> QED
    BY <2>1, <2>2
<1>6. CASE Commit(c)
  <2>1. /\ cons' = [cons EXCEPT ![c] = IdleHandler] /\ UNCHANGED <<log, views, audit>>
        /\ committed' = IF owner = c THEN cons[c].at ELSE committed
        /\ cons[c].pc = "commit"
    BY <1>6 DEF Commit
  <2>2. IdleHandler.pc # "apply"
    BY DEF IdleHandler
  <2>3. cons[c].at \in Nat /\ (owner = c => cons[c].at = committed + 1)
    BY <1>1, <2>1 DEF HandlersOnLog, HandlerOnLog, HandlerHasEvent
  <2>4. committed' \in Nat /\ committed' >= committed
    BY <1>1, <2>1, <2>3
  <2> QED
    BY <1>2, <2>1, <2>2, <2>4, Zenon
<1>7. CASE StopOnMessage(c) \/ Assign(c) \/ Rebalance(c)
  <2>1. UNCHANGED <<cons, log, views, audit, committed>>
    BY <1>7 DEF StopOnMessage, Assign, Rebalance
  <2>2. NoFold
    BY <1>1, <2>1 DEF NoFold
  <2> QED
    BY <1>1, <2>2, NoFoldKeeps
<1> QED
  BY <1>3, <1>4, <1>5, <1>6, <1>7 DEF ConsumerStep

\* The worker's own audit rows carry ids of its own.
LEMMA ResolverWritesOwn ==
  ASSUME PipelineInv, NEW r \in Resolvers, ResolveStep(r)
  PROVE  audit \subseteq audit' /\ \A a \in audit' \ audit : BySystem(a)
<1>1. TypeOK /\ ResolversOnOrders
  BY DEF PipelineInv, StoreInv
<1> DEFINE o  == res[r].order
           id == RecheckId(o, res[r].token)
           d  == EvaluateRecheck(id, o, res[r].view).decision
<1>2. ASSUME res[r].pc = "finish" PROVE id \in SystemId
  BY <1>1, <1>2 DEF ResolversOnOrders, ResolverOnOrder, TypeOK, RecheckId, SystemId
<1>3. ASSUME NEW a, a.id = id, res[r].pc = "finish", audit' = IF Replay(id) THEN audit ELSE audit \cup {a}
      PROVE  audit \subseteq audit' /\ \A b \in audit' \ audit : BySystem(b)
  BY <1>2, <1>3 DEF BySystem
<1>4. CASE FinishResolved(r)
  <2> DEFINE a == Entry(id, o, d.action, "PROCESSING", d.new)
  <2>1. audit' = (IF Replay(id) THEN audit ELSE audit \cup {a}) /\ res[r].pc = "finish"
    BY <1>4, Zenon DEF FinishResolved
  <2>2. a.id = id
    BY DEF Entry
  <2> HIDE DEF a, id
  <2> QED
    BY <1>3, <2>1, <2>2
<1>5. CASE FinishUnresolved(r)
  <2> DEFINE a == UnresolvedEntry(id, o, d, Spent(rows[o]))
  <2>1. audit' = (IF Replay(id) THEN audit ELSE audit \cup {a}) /\ res[r].pc = "finish"
    BY <1>5, Zenon DEF FinishUnresolved
  <2>2. a.id = id
    BY DEF UnresolvedEntry, Entry
  <2> HIDE DEF a, id
  <2> QED
    BY <1>3, <2>1, <2>2
<1>6. CASE UNCHANGED audit
  BY <1>6
<1> QED
  BY <1>4, <1>5, <1>6 DEF ResolveStep, Claim, ReadOrder, FinishStolen, Requeue, Drop, dbVars

LEMMA SweepWritesOwn ==
  ASSUME PipelineInv, SweepStuck
  PROVE  audit \subseteq audit' /\ \A a \in audit' \ audit : BySystem(a)
<1> DEFINE stuck    == {o \in Orders : Stuck(rows[o])}
           dead     == {o \in stuck : Spent(rows[o])}
           entry(o) ==
             Entry(SweepId(o, rows[o].retry + 1), o,
                   IF o \in dead THEN "DEAD_LETTER" ELSE "RECLAIM", "PROCESSING",
                   IF o \in dead THEN "DEAD_LETTER" ELSE "PENDING_RECHECK")
           fresh    == {x \in stuck : ~Replay(SweepId(x, rows[x].retry + 1))}
<1>1. audit' = audit \cup {entry(o) : o \in fresh}
  BY Zenon DEF SweepStuck, ReclaimStuck
<1>2. ASSUME NEW o \in stuck PROVE BySystem(entry(o))
  <2>1. rows[o] \in Row /\ o \in Orders
    BY DEF PipelineInv, StoreInv, TypeOK, Stuck
  <2>2. rows[o].retry + 1 \in Nat
    BY <2>1 DEF Row
  <2>3. SweepId(o, rows[o].retry + 1) \in SystemId
    BY <2>1, <2>2 DEF SweepId, SystemId
  <2> QED
    BY <2>3 DEF BySystem, Entry
<1>3. fresh \subseteq stuck
  OBVIOUS
<1> HIDE DEF entry, fresh, dead, stuck
<1> QED
  BY <1>1, <1>2, <1>3

LEMMA EnvironmentFolds ==
  ASSUME PipelineInv, ViewInv, \A o \in Orders : OrderStep(o),
         \/ UNCHANGED vars \/ PollDue \/ SweepStuck \/ ListOrphans \/ Tick
         \/ \E r \in Resolvers : ResolveStep(r) \/ CrashResolver(r) \/ FailResolution(r)
         \/ (\E o \in Orders : LoseQueued(o)) \/ (\E id \in EventIds : ForgetSeen(id))
  PROVE  ViewInv'
<1> USE DEF dbVars, redisVars, kafkaVars
<1>1. TypeOK /\ HandlersHaveEvents /\ ResolversOnOrders /\ committed \in Nat
  BY LogType, HaveEvents DEF PipelineInv, StoreInv, TypeOK
<1>2. UNCHANGED <<log, committed, views>>
  BY DEF vars, PollDue, SweepStuck, ReclaimStuck, ListOrphans, Tick,
         TimePasses, ResolveStep, Claim, ReadOrder, FinishStolen,
         FinishResolved, FinishUnresolved, Requeue, Drop, CrashResolver, FailResolution,
         LoseQueued, ForgetSeen
<1>3. audit \subseteq audit' /\ \A a \in audit' \ audit : BySystem(a)
  <2>1. CASE \/ UNCHANGED vars \/ PollDue \/ ListOrphans \/ Tick
             \/ \E r \in Resolvers : CrashResolver(r) \/ FailResolution(r)
             \/ (\E o \in Orders : LoseQueued(o)) \/ (\E id \in EventIds : ForgetSeen(id))
    BY <2>1 DEF vars, PollDue, ListOrphans, Tick, TimePasses, CrashResolver, FailResolution,
         LoseQueued, ForgetSeen
  <2> QED
    BY <2>1, ResolverWritesOwn, SweepWritesOwn
<1>4. \A c \in Consumers : HandlerTold(c)
  <2>1. CASE SweepStuck
    BY <1>1, <2>1, SweepKeepsHandlers DEF SweepStuck
  <2>2. CASE \E r \in Resolvers : ResolveStep(r)
    BY <1>1, <2>2, ResolverKeepsHandlers
  <2>3. CASE Tick
    BY <1>1, <2>3, TimeKeepsHandlers DEF Tick
  <2>4. CASE \/ UNCHANGED vars \/ PollDue \/ ListOrphans
             \/ \E r \in Resolvers : CrashResolver(r) \/ FailResolution(r)
             \/ (\E o \in Orders : LoseQueued(o)) \/ (\E id \in EventIds : ForgetSeen(id))
    BY <1>1, <2>4, NoneWritten
       DEF vars, PollDue, ListOrphans, CrashResolver, FailResolution, LoseQueued, ForgetSeen
  <2> QED
    BY <2>1, <2>2, <2>3, <2>4
<1>5. NoFold
  BY <1>1, <1>2, <1>3, <1>4 DEF NoFold, HandlerTold
<1> QED
  BY <1>1, <1>5, NoFoldKeeps

LEMMA InitViews ==
  ASSUME Init
  PROVE  ViewInv
<1>1. AuditedWasRead /\ ViewsAreCurrent
  BY DEF Init, AuditedWasRead, ViewsAreCurrent, IdleHandler
<1>2. ASSUME NEW o \in Orders PROVE views[o] = FoldOf(log, Taken(o))[Len(log)]
  <2>1. Len(log) \in Nat
    BY InitType, LogType
  <2>2. \A n \in Taken(o) : n <= 0
    BY DEF Init, Taken, Audited
  <2>3. Folds(FoldOf(log, Taken(o)), log, Taken(o), Len(log))
    BY <2>1, FoldOfFolds
  <2>4. 0 \in 0..Len(log)
    BY <2>1
  <2> DEFINE f == FoldOf(log, Taken(o))
             T == Taken(o)
             m == Len(log)
  <2> HIDE DEF f, T, m
  <2>5. m \in Nat /\ 0 \in 0..m /\ Folds(f, log, T, m) /\ \A n \in T : n <= 0
    BY <2>1, <2>2, <2>3, <2>4 DEF f, T, m
  <2>6. f[m] = f[0] /\ f[0] = Null
    BY <2>5, FoldStays, FoldsMean
  <2>7. views[o] = Null
    BY DEF Init
  <2> QED
    BY <2>6, <2>7 DEF f, m
<1> QED
  BY <1>1, <1>2 DEF ViewInv, ViewIsFold

-----------------------------------------------------------------------------
(* The theorems.                                                           *)

\* The invariant behind the next theorem: an event that is audited has been read
\* from the partition, and a consumer about to write a view for an event that is
\* not audited read the one that is stored.
THEOREM ViewInvariance == Spec => []ViewInv
<1>1. Init => ViewInv
  BY InitViews
<1>2. PipelineInv /\ ViewInv /\ [Next]_vars => ViewInv'
  BY NextInv, ConsumerFolds, EnvironmentFolds DEF Next
<1> QED
  BY <1>1, <1>2, Invariance, PTL DEF Spec

\* The view store.apply wrote last for an order (state.py, order_views) is the
\* fold, in partition order, of exactly the events of the order that are audited,
\* each once: no consumer that was overtaken, redelivered an event or came back
\* from a crash overwrites a newer fold with one from a view it read earlier.
THEOREM ViewsAreFolds == Spec => []ViewIsFold
<1>1. ViewInv => ViewIsFold
  BY DEF ViewInv
<1> QED
  BY <1>1, ViewInvariance, PTL
=============================================================================
