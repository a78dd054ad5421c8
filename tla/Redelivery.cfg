SPECIFICATION ConsumerSpec
CONSTANTS
  Null = Null
  o1 = o1
  Orders = {o1}
  EventIds <- MCEventIds
  Logs <- MCDuplicateLogs
  Amounts = {1, 2}
  Currencies = {"INR"}
  SubIds = {1, 2, 3}
  Consumers = {c1, c2}
  Resolvers = {}
  MaxRetries = 2
  RecheckDelay = 0
  SweepGrace = 0
  StuckTimeout = 0
  MaxLate = 1
  MaxFaults = 2
  MaxLog = 3
  Kinds = {"captured", "failed", "malformed"}
INVARIANTS
  ViewIsFold
  CommittedIsAudited
PROPERTIES
  EverythingConsumed
