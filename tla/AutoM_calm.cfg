SPECIFICATION Spec
CONSTANTS
  Target = 2
  Per = 2
  Ratio = 1
  RejectLimit = 2
  MaxPres = 2
  MaxPosts = 2
  MaxShort = 2
  Hasty = FALSE
  Revivals = FALSE
  Crossing = FALSE
  Vanishing = FALSE
INVARIANTS
  OnePreOrder
  OrdersFit
  WaitIsAnswered
  PendingIsHedged
CHECK_DEADLOCK FALSE
