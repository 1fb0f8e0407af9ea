CONSTANTS
  o1 = o1 p1 = p1 l1 = l1
  None = None
  Operators = {o1}
  Periods = {p1}
  Lines = {l1}
  ClassOf <- ClassA
  GraceEnd <- GraceOnFirst
  RemedyDays = 1
  LastDay = 2
  LineRows <- OnlyPerDay
  Revenues = {}
  Sweepers = {sweep}
  Accruers = {accrual}
  Staff = {clerk}
SPECIFICATION FairSpec
INVARIANTS NothingDueInRemedy NoChargeAfterFiling
PROPERTIES EveryDefaultCaught FiledIsClosed PenaltyFallsDue
CHECK_DEADLOCK FALSE
