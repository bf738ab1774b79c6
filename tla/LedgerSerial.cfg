CONSTANTS
  NumUsers = 2
  NumWithdrawals = 2
  Amounts = {1}
  MaxCredits <- TwoAndOne
  Fund <- KeepOne
  Rpcs = 2
  Refreshes = {r1}
  r1 = r1
SPECIFICATION FairSerialSpec
INVARIANTS TypeOK Solvent PaidAsRecorded
PROPERTIES EveryWithdrawalEnds HoldingsMatchLedger
CHECK_DEADLOCK FALSE
