SPECIFICATION ServicesSpec
CONSTANTS
  None = None
  G1 = G1
  G2 = G2
  G3 = G3
  CA = CA
  CB = CB
  CM = CM
  P = P
  Q = Q
  Accounts = {G1}
  Tokens = {CA, CB}
  PoolTokens <- PoolPair
  Manager = CM
  Scale = 4
  MaxPpm = 40
  MaxAmount = 200
  Wallets = {G1, G2}
  MaxChallenges = 3
  ChallengeSecs = 3
  TokenSecs = 1
  Cooldown = 2
  Window = 3
  WindowLimit = 2
  Grace = 3
  MaxDelay = 1
  MaxClock = 4
  Clients = {G1, G2}
  MaxVersion = 1
  MaxDrops = 1
  FeePools = {P, Q}
  Reads <- MCReads
  MaxPositions = 2
  MaxRefreshes = 3
  MaxPartial = 1
  Chain <- MCChain
  PageLimit = 2
  EventCap = 5
  MaxAttempts = 2
  MaxHead = 5
  RollupPools = {P, Q}
  PoolOrder <- MCOrder
  Bucket = 2
  Windows = {2}
  Tvls = {1, 2}
  MaxInstant = 3
  MaxSnapshots = 3
  MaxSwaps = 1
  MaxCuts = 1
  Leaders = {G1, G2, G3}
  EventLimit = 3
  AddressOrder <- MCAddresses
  BoardSize = 2
  Readers = {r1, r2}
  Refreshers = {t1, t2}
  ListTtl = 1
  MaxLag = 1
  MaxBuilds = 1
  MaxTime = 3
  MaxRestarts = 1
  SwapInputs <- MCSwapInputs
  LiquidityInputs <- MCLiquidityInputs
  AdmissionInputs <- MCAdmissionInputs
  ViewInputs <- MCViewInputs
  BoardInputs <- MCBoardInputs
  BoardOrders <- MCOrders
INVARIANTS
  ServicesTypeOK
  OneGrantPerChallenge
  SignatureExpires
  RateLimited
  WorkedOnOnce
  EventsRecovered
  DraftsExecute
  RecordsAreTrue
  DeltaIsGrowth
  PagesComplete
  IncrementalIsFull
  AllViewsAgree
  BoardStays
  CatalogueNeverGoesBack
SYMMETRY Symmetry
CHECK_DEADLOCK FALSE
