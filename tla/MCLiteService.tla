--------------------------- MODULE MCLiteService ---------------------------
(* Lite mode with one order of every scenario, and with two orders of those *)
(* whose merchant pays later.                                              *)
EXTENDS LiteService, TLC

CONSTANTS o1, o2, Alone, Together

Symmetry == Permutations(Tickers) \cup Permutations(Submitters)

MCConsumers == Submitters \cup Tickers
MCEventIds ==
  Orders \X {"captured", "pending", "paid", "failed", "authorized", "refund"}

AllDemands ==
  {[o \in Orders |-> IF o = o1 THEN s ELSE Null] : s \in Alone}
    \cup [Orders -> Together]
AllLogs == {EventLog(d) : d \in AllDemands}

\* What a cfg puts in the place of a constant is evaluated at every use; the value
\* of a definition beside it is kept.
MCLogs == AllLogs
MCDemands == AllDemands
=============================================================================
