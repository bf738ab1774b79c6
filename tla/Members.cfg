\* One component per behaviour; a handler may never be called again.
SPECIFICATION Spec
CONSTANTS
  Requests = {"r1", "r2"}
  Admins = {"a1"}
  NumRecords = 1
  Documents = {"d1", "d2"}
  Passwords = {"p"}
  Secrets = {"s"}
  Statuses = {"active"}
  WindowLen = 2
  MaxTime = 6
  MaxTrades = 3
  Reviewers = {"a1", "a2"}
  NumListings = 1
  NumDeals = 3
  Amounts = {1, 2}
  Limit = 2
  NumBanks = 2
  MaxBanks = 2
  MaxRegisters = 3
INVARIANTS
  TypeOK TwoFactorHasSecret ApprovedAsProven LevelIsEarned
  BoughtWithinLimit BlockedIsOut AttachedIsActive
PROPERTIES ApprovedIsVerified TradeCounts RevokedIsNotHealed
CHECK_DEADLOCK FALSE
