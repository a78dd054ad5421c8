SPECIFICATION Spec
CONSTANTS
  Null = Null
  o1 = o1
  Orders = {o1}
  EventIds <- MCEventIds
  Logs <- MCLogs
  Amounts = {1, 2}
  Currencies = {"INR"}
  SubIds = {1, 2, 3}
  Consumers = {c1}
  Resolvers = {"runner"}
  MaxRetries = 2
  RecheckDelay = 0
  SweepGrace = 0
  StuckTimeout = 0
  MaxLate = 1
  MaxFaults = 0
  MaxLog = 3
  Kinds = {"captured", "pending", "refund"}
INVARIANTS
  ReversalNeverDropped
