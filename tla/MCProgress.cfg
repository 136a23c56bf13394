SPECIFICATION MCSpec
CONSTANTS
  Parts = {"opening", "fx report", "loans", "xing", "channel", "lifecycle", "startup",
           "set screens"}
  Tiers = {"e1", "x1"}
  EntryTiers = {"e1"}
  AutoTiers = {"e1"}
  ReadyTiers = {"e1"}
  NxLots <- LotsOfTier
  WindowStart = 0
  WindowEnd = 0
  OpenGrace = 0
  BaseAt = 0
  BaseGrace = 1
  Levels = {"low", "mid"}
  OpenTimes = {0}
  EarlyKeep = 1
  NxHorizon = 1
  MaxNxOrders = 2
  MaxDays = 2
  MaxTierEdits = 0
  MaxSwitches = 1
  NxRepeats = 0
  Peers = {"p", "q"}
  FrIntervals = {1, 2}
  PeerTimeout = 2
  MaxFrCommands = 2
  MaxTurns = 2
  Loans = {1, 2}
  FirstLoans <- LoansAtStart
  MaxLoanOrders = 2
  RepayQty = 2
  EntryQty = 1
  MaxBalance = 1
  MaxNoAnswer = 1
  Reqs = {"o1", "o2"}
  Lanes = {"order"}
  LaneOf <- OrderLane
  LaneTime <- OneTick
  ComGrace = 1
  XcHorizon = 4
  MaxData = 2
  MaxDrops = 1
  MaxHttp = 1
  WireLen = 1
  ReadTries = 2
  RestartAfter = 2
  RestartCooldown = 1
  MaxRestarts = 1
  MaxLaunches = 3
  Hl = TRUE
  MaxLots = 2
  MaxEnds = 1
  MaxFailures = 1
  Screens = {1, 2}
  SsNames = {"a"}
  SsStart = "a"
  Legs = {"entry"}
  SetCount = 1
  MaxDoings = 4
INVARIANTS
  HandedRight
  AnswerIsExpected
PROPERTIES
  WhatBeginsEnds
  BreaksArePutRight
CHECK_DEADLOCK FALSE
