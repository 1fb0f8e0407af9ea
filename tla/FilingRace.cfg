CONSTANTS
  e1 = e1 p1 = p1 p2 = p2
  Entities = {e1}
  Periods = {p1}
  MaxVersion = 2
  Slots = {s1, s2}
  Reviewers = {u1, u2}
  Answers = {a1}
  NoAnswers = NoAnswers
  Valid = {a1, NoAnswers}
  Unsigned = Unsigned
  FastTrackStreak = 1
  PriorStreak <- Trusted
  Scenes <- Races
CONSTRAINT Bounded
SPECIFICATION Spec
SYMMETRY Symmetry
CHECK_DEADLOCK FALSE
INVARIANTS ReviewTrail VersionChain RequestsBacked
PROPERTIES FiledOnce FiledStaysFiled LockedStaysLocked DeletedStaysEmpty
