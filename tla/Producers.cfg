SPECIFICATION FairSpec
CONSTANTS
  Null = Null
  o1 = o1
  Orders = {o1}
  Kinds = {"captured", "orderless", "forged"}
  Webhooks <- MCWebhooks
  Forged <- MCForged
  Simulators = {m1, m2}
  Profiles = {"immediate", "silent"}
  QueueLimit = 1
  MaxFaults = 1
INVARIANTS
  TypeOK
  AcceptedIsDurable
  OutOfScopeCountedOnce
  ReportedOnce
  ProducersInv
PROPERTIES
  WebhooksAnswered
  CapturesTracked
