SPECIFICATION Spec
CONSTANTS
  Null = Null
  Orders = {o1}
  Order = o1
  Amounts = {0, 1, 2, 200}
  Currencies = {"INR", "USD"}
  MaxRows <- MCMaxRows
  SubIds <- MCSubIds
  EventIds <- MCEventIds
  Garbled = Garbled
  FileLimit = 3
  Precision = 3
  GatewayExports <- MCGatewayExports
  MerchantExports <- MCMerchantExports
  Times = {1, 2}
INVARIANTS
  TypeOK
  AutoCorrectIsSafe
  ReversalSurfaces
  FirstPaymentRules
  AmountsExact
  IgnoredRowsAreNoted
  OneAmountToMarkPaid
  ToolInv
CHECK_DEADLOCK FALSE
