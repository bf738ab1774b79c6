CONSTANTS
  NumUsers = 2
  MaxOrders = 1
  MaxTrans = 1
  MaxInFlight = 1
  Amounts = {8}
  TradeAmounts = {4}
  TradeBounds <- AnyPart
  FeeSettings <- FixedFees
  FeeBase = 4
  Attempts = 1
  ScheduleOutcomes = {TRUE}
  UnlockBatch = 1
  InitBalance = 12
SPECIFICATION SerialSpec
INVARIANTS NothingStranded
CHECK_DEADLOCK FALSE
