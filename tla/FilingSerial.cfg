CONSTANTS
  e1 = e1 p1 = p1 p2 = p2
  Entities = {e1}
  Periods = {p1, p2}
  MaxVersion = 2
  Slots = {s1}
  Reviewers = {u1, u2, u3}
  Answers = {a1}
  NoAnswers = NoAnswers
  Valid = {a1}
  Unsigned = Unsigned
  FastTrackStreak = 1
  PriorStreak <- Newcomer
  Scenes <- Serial
CONSTRAINT Bounded
SPECIFICATION Spec
SYMMETRY Symmetry
CHECK_DEADLOCK FALSE
INVARIANTS TypeOK OneCurrentReturn SeparationOfDuties NoStrandedReturn OfferedCanStart FastTrackEarned
PROPERTY ImplementsLifecycle
