CONSTANTS
  NumUsers = 2
  MaxOrders = 2
  MaxTrans = 2
  MaxInFlight = 1
  Amounts = {8}
  TradeAmounts = {4}
  TradeBounds <- AnyPart
  FeeSettings <- FixedFees
  FeeBase = 4
  Attempts = 1
  ScheduleOutcomes = {TRUE}
  UnlockBatch = 1
  InitBalance = 12
SPECIFICATION SerialSpec
INVARIANTS Backed ListingBalanced OneOpenDispute
PROPERTIES KeepsPromise DeletedStaysDeleted
CHECK_DEADLOCK FALSE
