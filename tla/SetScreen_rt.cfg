SPECIFICATION SsSpec
CONSTANTS
  Screens = {1, 2}
  SsNames = {"a"}
  SsStart = "a"
  Legs = {"entry", "exit"}
  SetCount = 1
  MaxDoings = 5
PROPERTY ClosingKeepsRt
CHECK_DEADLOCK FALSE
