CONSTANTS
  NumUsers = 2
  MaxOrders = 1
  MaxTrans = 2
  MaxInFlight = 1
  Amounts = {8}
  TradeAmounts = {8}
  TradeBounds <- AnyPart
  FeeSettings <- FeesRise
  FeeBase = 4
  Attempts = 1
  ScheduleOutcomes = {TRUE}
  UnlockBatch = 1
  InitBalance = 12
SPECIFICATION Spec
INVARIANTS TypeOK
PROPERTIES NoCoinCreated
CHECK_DEADLOCK FALSE
