SPECIFICATION Spec
CONSTANTS
  Target = 1
  Per = 1
  Ratio = 1
  RejectLimit = 1
  MaxPres = 1
  MaxPosts = 2
  MaxShort = 1
  Hasty = TRUE
  Revivals = TRUE
  Crossing = TRUE
  Vanishing = TRUE
INVARIANTS
  TypeOK
  HaltedAsOne
  WithinLimit
PROPERTIES
  HaltSticks
CHECK_DEADLOCK FALSE
