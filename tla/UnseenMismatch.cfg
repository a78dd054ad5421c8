SPECIFICATION Spec
CONSTANTS
  Null = Null
  Orders = {o1}
  Order = o1
  Amounts = {1, 2, 200}
  Currencies = {"INR", "USD"}
  MaxRows <- MCMaxRows
  SubIds <- MCSubIds
  EventIds <- MCEventIds
  Garbled = Garbled
  FileLimit = 3
  Precision = 3
  GatewayExports <- MCGatewayExports
  MerchantExports <- MCMerchantExports
  Times = {1, 2}
INVARIANT
  MerchantAmountAgrees
CHECK_DEADLOCK FALSE
