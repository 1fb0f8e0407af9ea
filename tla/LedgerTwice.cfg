CONSTANTS
  o1 = o1 p1 = p1 l1 = l1
  None = None
  Operators = {o1}
  Periods = {p1}
  Lines = {l1}
  ClassOf <- ClassA
  GraceEnd <- GraceOnFirst
  RemedyDays = 1
  LastDay = 1
  LineRows <- OnlyShare
  Revenues = {6}
  Sweepers = {}
  Accruers = {a1}
  Staff = {clerk}
  DueDate <- DueOnFirst
  RateIds = {r1}
  RateRows <- Percents
  Turnovers = {4}
  Amounts = {2}
  References = {t1}
  Officers = {u1, u2}
  Desks = {d1, d2}
  MaxPayments = 3
  Scenes <- AtTheDesks
SPECIFICATION LedgerSpec
CONSTRAINT Bounded
SYMMETRY Symmetry
INVARIANT NoDoubleEntry
CHECK_DEADLOCK FALSE
