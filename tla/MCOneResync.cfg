SPECIFICATION OneSpec
CONSTANTS
  a = a
  b = b
  NoKey = NoKey
  LsKeys <- LsOne
  HlKeys <- HlOne
  Qty <- QtyThree
  PendingCap = 2
  MaxRepeats = 0
  MaxRefreshes = 2
  MaxLosses = 1
PROPERTIES
  LiveSurvivesResync
  StaleRowsUndoNothing
  WaitingSurvivesResync
CHECK_DEADLOCK FALSE
