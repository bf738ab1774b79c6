CONSTANTS
  NumUsers = 2
  NumWithdrawals = 2
  Amounts = {1}
  MaxCredits <- TwoAndOne
  Fund = 0
  Rpcs = 2
  Refreshes = {r1}
  r1 = r1
SPECIFICATION SerialTradeSpec
INVARIANTS Solvent
CHECK_DEADLOCK FALSE
