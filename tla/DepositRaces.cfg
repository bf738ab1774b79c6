CONSTANTS
  NumDeposits = 3
  Amount <- SharedAmounts
  Hash <- SharedHash
  Syncs = {s1}
  MinSweep = 0
  MinLeg = 1
  CeoPercent = 50
  Failures = TRUE
  s1 = s1
SPECIFICATION Spec
INVARIANTS TypeOK CreditedOnce
PROPERTIES KnownNotForgotten
CHECK_DEADLOCK FALSE
