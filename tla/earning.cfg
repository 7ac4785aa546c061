CONSTANTS
  Programs = {"flop_compute", "blockrewards", "kibble", "trader", "close1"}
  Invocations = {i1, i2}
  Amounts = {0, 1, 2}
  MaxLoop = 2
  Principal = 4
  CapNum = 3
  CapDen = 4
  Offers = {o1, p1}
  Payouts = {p1}
  PER_HOUR = 1
  WorkingKeep = 1
  SaveEvery = 2
  MaxLocks = 1
  MaxRounds = 3
  BrMaxCrashes = 1
  BrMaxFailures = 1
  Jobs = {j1, f1}
  FranchiseJobs = {f1}
  Window = 4
  KB_PER_HOUR = 2
  ATTEST_PER_HOUR = 1
  CLAIM_BURST = 1
  MaxLines = 6
  KbMaxFailures = 1
  KbMaxCrashes = 1
  MARKETS <- MCMarkets
  Nested <- MCNested
  VIEWS = {"m02"}
  Prices = {300, 600}
  DAILY_BUDGET = 40000
  ORDER_SHARES = 300
  COHERENCE_MIN = 10
  Surfaces = {"site"}
  MaxVersion = 1
  TrMaxCycles = 2
  TrMaxCrashes = 1
  Calls = {c1, c2, c3}
  RoomOffers <- MCRoomOffers
  Lo = 1
  Hi = 9
  TARGET = 3
  Quantities = {2}
SPECIFICATION EarningSpec
CHECK_DEADLOCK FALSE
INVARIANTS CapHolds   FailedCycleIsBounded DealsAreCounted
PROPERTIES SavedDealIsNotRepeated
