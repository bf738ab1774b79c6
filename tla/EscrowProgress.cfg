CONSTANTS
  NumUsers = 2
  MaxOrders = 1
  MaxTrans = 2
  MaxInFlight = 1
  Amounts = {8}
  TradeAmounts = {4, 8}
  TradeBounds <- TwoBounds
  FeeSettings <- FixedFees
  FeeBase = 4
  Attempts = 2
  ScheduleOutcomes = {TRUE}
  UnlockBatch = 1
  InitBalance = 12
SPECIFICATION FairSerialSpec
PROPERTIES EveryDealEnds
CHECK_DEADLOCK FALSE
