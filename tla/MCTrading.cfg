SPECIFICATION MCSpec
CONSTANTS
  Parts = {"closing", "amend", "opening", "fx hedge", "peg", "session", "rehearsal", "telegram",
           "set screens"}
  SideOf <- Sides
  QtyOf <- Contracts
  Prices = {1, 2}
  Moments = {0, 1}
  Grace = 1
  Horizon = 1
  MaxOrd = 2
  MaxTimes = 1
  MaxArms = 3
  AuRepeats = 0
  FxPer = 3
  FxUnit = 2
  HlPer = 3
  HlNames <- TwoNames
  AmQty = 2
  MaxAmends = 3
  Tiers = {"e1", "x1"}
  EntryTiers = {"e1"}
  AutoTiers = {"e1"}
  ReadyTiers = {"e1"}
  NxLots <- LotsOfTier
  WindowStart = 0
  WindowEnd = 0
  OpenGrace = 0
  BaseAt = 0
  BaseGrace = 1
  Levels = {"low", "mid"}
  OpenTimes = {0}
  EarlyKeep = 1
  NxHorizon = 1
  MaxNxOrders = 2
  MaxDays = 2
  MaxTierEdits = 1
  MaxSwitches = 1
  NxRepeats = 1
  FaOrders = {"p", "q"}
  FaTargets = {"p", "q"}
  FaLots <- LotsOfFuture
  FaSide <- AllBuy
  FaPer = 1
  FaUnit = 2
  FaWindows <- Windows
  FaHorizon = 1
  FaRepeats = 1
  MaxFaCommands = 3
  PegPrices = {1, 2}
  PegQty = 2
  MaxPegRuns = 1
  MaxPegOrders = 3
  JifCodes = {"21", "61", "62", "63", "99"}
  MaxJif = 4
  ScSets <- ScreenSets
  ScQtys = {1, 2}
  MaxScCommands = 6
  TgUpdates = 4
  TgStarts = 3
  Screens = {w1, w2}
  w1 = w1
  w2 = w2
  SsNames = {"a", "b"}
  SsStart = "a"
  Legs = {"entry"}
  SetCount = 2
  MaxDoings = 4
SYMMETRY ScreensAlike
INVARIANTS
  NothingActsTwice
  NothingToldIsLost
PROPERTIES
  StepsInTurn
CHECK_DEADLOCK FALSE
