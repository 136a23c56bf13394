SPECIFICATION MCSpec
CONSTANTS
  a = a
  b = b
  NoKey = NoKey
  LsKeys <- LsOne
  HlKeys <- HlOne
  Qty <- QtyThree
  PendingCap = 1
  MaxRepeats = 1
  MaxShared = 1
INVARIANTS
  TypeOK
  NoPhantomFill
  QuietIsExact
  ClosedIsSettled
  CancelCoversLive
  WaitsForExecuted
  IInv
PROPERTIES
  BookOnlyGrows
  EndedIsClosed
  LedgerSpec
CHECK_DEADLOCK FALSE
