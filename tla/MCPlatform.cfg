SPECIFICATION MCSpec
CONSTANTS
  Parts = {"ls feed", "ls rest", "ls notices", "ls account", "hl feed", "hl orders", "merge", "state file", "day log", "cycle"}
  Apis = {"ws", "xing"}
  FeedKeys = {"a", "b"}
  MaxLfDrops = 2
  MaxPlans = 2
  Margin = 1
  HookWait = 1
  MaxTids = 3
  HfHorizon = 3
  MaxHlFills = 2
  MaxHlConnects = 3
  MaxFrames = 2
  HlOrderSet = {"a", "b"}
  PostOnly = {"a"}
  NonceRetries = 1
  NonceWindow = 2
  WallHorizon = 1
  MaxNonce = 4
  Bands = {0, 1}
  Ticks = {2, 10}
  MaxChoices = 2
  MaxMoves = 1
  MaxHlDrops = 1
  Trs = {"o", "q"}
  OrderTrs = {"o"}
  TrCode <- TrCodes
  MaxRetries = 2
  FetchRetries = 2
  AttemptTime = 1
  OrderTime = 2
  TokenLife = 5
  RefreshMargin = 3
  PerSecond = 1
  SecondLength = 1
  LrHorizon = 6
  Requested = {"c1", "m1"}
  Amends = {"m1"}
  Originals = {"x", "y"}
  OrgOf <- OrderOf
  CancelMapCap = 3
  PendingCap = 3
  Codes <- TwoCodes
  StockOrders = 1
  FutureOrders = 2
  PageSize = 1
  MaxPages = 2
  CanContinue = TRUE
  LimitTries = 1
  MaxBoots = 1
  Gens = 3
  MaxTexts = 4
  MaxFaults = 2
  Accounts = {"s"}
  OrderNos = {1}
  PageRows = 1
  MaxRows = 3
  MaxLogDays = 2
  MaxPresses = 3
  Holdings = {"stock", "deriv"}
  Names = {"u"}
  MaxHeld = 2
  Funds = 3
  Buffer = 1
  Costs = {1, 2}
  MaxCycles = 2
INVARIANTS
  NothingCountsTwice
  NothingIsMissed
  SaidOfTheOrder
  TokenIsGood
  StoredIsKept
CHECK_DEADLOCK FALSE
