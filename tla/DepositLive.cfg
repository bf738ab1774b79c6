CONSTANTS
  NumDeposits = 2
  Amount <- UnequalAmounts
  Hash <- OwnHashes
  Syncs = {s1}
  MinSweep = 2
  MinLeg = 1
  CeoPercent = 50
  Failures = FALSE
  s1 = s1
SPECIFICATION FairSerialSpec
INVARIANTS CreditedIsSwept
PROPERTIES EveryDepositCredited SweepCompletes
CHECK_DEADLOCK FALSE
