\* One component per behaviour; a call that has returned makes no other step.
SPECIFICATION Spec
CONSTANTS
  NumUrls = 1
  Funds = {2, 4}
  Users = {1, 2, 3}
  MaxLevel = 2
  MaxRewards = 2
  MaxHistory = 2
  Callers = {"a", "b", "c"}
  Second = 3
  Limits = {1, 2}
  CacheFor = 2
  NumConvs = 3
  MaxUnread = 2
  Instances = {"i1", "i2"}
  Tabs = {"t1", "t2"}
  MaxNotes = 2
  MaxOpened = 2
  NumBlocks = 5
  Recent = 3
  PageSize = 2
  Chunk = 2
  MaxTxs = 5
  BlocksBack = 4
  LogsBack = 5
  MaxCodes = 2
  CodeLife = 2
  TokenLife = 2
  MaxCuts = 1
  Savers = {"a", "b"}
  Transfers = {"t1", "t2"}
  Threshold = 1
  MaxDeaths = 2
  Owners = {1, 6}
  MaxRows = 2
  IdBase = 2
  MidBase = 2
INVARIANTS
  TypeOK ReferrersInOrder RewardPaidOnce BadgeIsRight HeardOnce ScanIsExact CodesKept SavedIsKept
PROPERTIES KeepsPromise RateKept TrackedIsSwept
CHECK_DEADLOCK FALSE
