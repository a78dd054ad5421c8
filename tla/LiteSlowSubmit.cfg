SPECIFICATION LiteSpec
CONSTANTS
  Null = Null
  o1 = o1
  o2 = o2
  Orders = {o1}
  EventIds <- MCEventIds
  Logs <- MCLogs
  Amounts = {1, 2}
  Currencies = {"INR"}
  SubIds = {o1}
  Submitters = {s1}
  Tickers = {t1}
  Consumers <- MCConsumers
  Resolvers = {t1}
  Demands <- MCDemands
  Alone = {"normal"}
  Together = {"normal"}
  MaxRetries = 2
  RecheckDelay = 3
  SweepGrace = 0
  StuckTimeout = 1
  ImmediateDelay = 2
  LagDelay = 4
  TickLimit = 1
  MaxLiveOrders = 1
  MaxBusy = 2
  MaxLate = 2
  MaxFaults = 0
INVARIANTS
  ScenarioOutcome
