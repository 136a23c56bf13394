SPECIFICATION MCSpec
CONSTANTS
  Parts = {"hl first", "loop", "price", "rate", "stock", "loans", "orders", "limit"}
  Target = 1
  Per = 1
  Ratio = 2
  RejectLimit = 1
  MaxHlPres = 1
  MaxLsPosts = 1
  MaxLoose = 2
  Loans = {1, 2}
  FirstLoans <- LoansAtStart
  MaxLoanOrders = 3
  RepayQty = 2
  EntryQty = 1
  MaxBalance = 1
  MaxNoAnswer = 1
  MaxNumbers = 2
  OrderSize = 2
  Clients = {c1, c2}
  DayLimit = 3
  SizeLimit = 3
  Sizes = {1, 2, 3}
  FillAmounts = {1, 3}
  MaxHlSent = 3
  MaxMidnights = 1
  Months = {"near", "next"}
  Rates = {1, 2}
  Carries = {1, 2}
  NoRate = 0
  MaxQuotes = 3
  MaxPauses = 2
  MaxWire = 2
  Watch = 2
  AlarmAfter = 3
  Delays = {0, 1}
  WindowHours = {2, 3}
  JlHorizon = 5
  MaxEvents = 2
  Touches = {16, 18, 20, 24}
  Raws = {15, 16, 17, 18, 19, 20, 21, 22, 23, 24, 25}
  Units = {2, 4}
  Offsets = {0, 2}
  Nths = {1, 2}
  RangePct = 20
  Edge = 20
  TickBelow = 2
  TickAbove = 4
  Step = 1
INVARIANTS
  LooseIsOwed
  UnknownHalts
  BookIsReal
  DayWithinLimit
  JudgedInTime
  RatesAreCurrent
PROPERTIES
  StepsAreFit
CHECK_DEADLOCK FALSE
