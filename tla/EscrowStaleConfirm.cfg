CONSTANTS
  NumUsers = 2
  MaxOrders = 1
  MaxTrans = 1
  MaxInFlight = 2
  Amounts = {8}
  TradeAmounts = {8}
  TradeBounds <- AnyPart
  FeeSettings <- FixedFees
  FeeBase = 4
  Attempts = 1
  ScheduleOutcomes = {TRUE}
  UnlockBatch = 1
  InitBalance = 12
SPECIFICATION Spec
PROPERTIES OnlyPendingConfirmed
CHECK_DEADLOCK FALSE
