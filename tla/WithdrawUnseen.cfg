CONSTANTS
  NumUsers = 2
  NumWithdrawals = 2
  Amounts = {1}
  MaxCredits <- TwoAndOne
  Fund = 0
  Rpcs = 1
  Refreshes = {r1}
  r1 = r1
SPECIFICATION Spec
INVARIANTS PaidAsRecorded
CHECK_DEADLOCK FALSE
