--------------------------- MODULE OrderLifecycle ---------------------------
(***************************************************************************)
(* What reconciliation promises about an order's pointer, with no          *)
(* consumers, resolvers, queues or clocks: it is armed, claimed, resolved  *)
(* once or retried within a budget, and once terminal it only ever moves   *)
(* to DISPUTED, where it stays.  One step may move several orders (one     *)
(* sweep statement reclaims every stuck row).                              *)
(***************************************************************************)
EXTENDS Naturals

CONSTANTS Null, Orders, MaxRetries

VARIABLES
  status,  \* orders_state.status, Null while there is no row
  retry    \* orders_state.retry_count

lifecycleVars == <<status, retry>>

Resolved == {"RESOLVED_AUTOCORRECTED", "RESOLVED_NATURALLY", "DISPUTED"}

Init == status = [o \in Orders |-> Null] /\ retry = [o \in Orders |-> 0]

Moves(o, from, to) == status[o] = from /\ status'[o] = to

Arm(o)   == Moves(o, Null, "PENDING_RECHECK") /\ retry'[o] = retry[o]
Claim(o) == Moves(o, "PENDING_RECHECK", "PROCESSING") /\ retry'[o] = retry[o]

\* The holder of the claim resolves the order.
Resolve(o) == \E s \in Resolved : Moves(o, "PROCESSING", s) /\ retry'[o] = retry[o]

\* The merchant caught up before the recheck fired.
CatchUp(o) == Moves(o, "PENDING_RECHECK", "RESOLVED_NATURALLY") /\ retry'[o] = retry[o]

\* A claim that could not be resolved, or whose holder died, costs one retry.
Retry(o) ==
  /\ Moves(o, "PROCESSING", "PENDING_RECHECK")
  /\ retry[o] + 1 < MaxRetries /\ retry'[o] = retry[o] + 1

GiveUp(o) ==
  /\ Moves(o, "PROCESSING", "DEAD_LETTER")
  /\ retry[o] + 1 >= MaxRetries /\ retry'[o] = retry[o] + 1

\* A reversal reaches any order that no claim holds.
Dispute(o) == status[o] # "PROCESSING" /\ status'[o] = "DISPUTED" /\ retry'[o] = retry[o]

Step(o) ==
  Arm(o) \/ Claim(o) \/ Resolve(o) \/ CatchUp(o) \/ Retry(o) \/ GiveUp(o) \/ Dispute(o)

Stays(o) == status'[o] = status[o] /\ retry'[o] = retry[o]

Next == \A o \in Orders : Step(o) \/ Stays(o)

Spec == Init /\ [][Next]_lifecycleVars
=============================================================================
