SPECIFICATION HlFirstSpec
CONSTANTS
  Target = 1
  Per = 1
  Ratio = 2
  RejectLimit = 2
  MaxHlPres = 1
  MaxLsPosts = 1
  MaxLoose = 2
INVARIANTS
  HlWaitIsAnswered
CHECK_DEADLOCK FALSE
