SPECIFICATION StartupSpec
CONSTANTS
  Hl = TRUE
  MaxLots = 1
  MaxEnds = 1
  MaxFailures = 1
PROPERTIES
  FailedKeepsPositions
CHECK_DEADLOCK FALSE
