SPECIFICATION LiteSpec
CONSTANTS
  Null = Null
  o1 = o1
  o2 = o2
  Orders = {o1, o2}
  EventIds <- MCEventIds
  Logs <- MCLogs
  Amounts = {1, 2}
  Currencies = {"INR"}
  SubIds = {o1, o2}
  Submitters = {s1, s2}
  Tickers = {t1, t2}
  Consumers <- MCConsumers
  Resolvers = {t1, t2}
  Demands <- MCDemands
  Alone = {"normal", "lagging", "stuck", "silent", "risky_drift", "reversal", "correlation_failure"}
  Together = {"silent"}
  MaxRetries = 2
  RecheckDelay = 3
  SweepGrace = 0
  StuckTimeout = 1
  ImmediateDelay = 2
  LagDelay = 4
  TickLimit = 1
  MaxLiveOrders = 1
  MaxBusy = 1
  MaxLate = 2
  MaxFaults = 1
SYMMETRY Symmetry
INVARIANTS
  LiteTypeOK
  CapNeverExceeded
  LiteInv
  ScenarioOutcome
PROPERTIES
  ChronologicalPerOrder
  ImplementsLifecycle
