SPECIFICATION FairSpec
CONSTANTS
  Null = Null
  o1 = o1
  Orders = {o1}
  Kinds = {"captured"}
  Webhooks <- MCWebhooks
  Forged <- MCForged
  Simulators = {m1}
  Profiles = {"immediate"}
  QueueLimit = 1
  MaxFaults = 1
CHECK_DEADLOCK FALSE
PROPERTIES
  PaymentsReported
