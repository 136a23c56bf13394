SPECIFICATION OneSpec
CONSTANTS
  a = a
  b = b
  NoKey = NoKey
  LsKeys <- LsOne
  HlKeys <- HlOne
  Qty <- QtyThree
  PendingCap = 2
  MaxRepeats = 0
  MaxRefreshes = 1
  MaxLosses = 0
INVARIANTS
  NoPhantomFill
CHECK_DEADLOCK FALSE
