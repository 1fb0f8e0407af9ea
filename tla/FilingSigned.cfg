CONSTANTS
  e1 = e1 p1 = p1 p2 = p2
  Entities = {e1}
  Periods = {p1}
  MaxVersion = 1
  Slots = {s1, s2}
  Reviewers = {u1, u2, u3, u4}
  Answers = {a1}
  NoAnswers = NoAnswers
  Valid = {a1}
  Unsigned = Unsigned
  FastTrackStreak = 1
  PriorStreak <- Newcomer
  Scenes <- OneReturn
CONSTRAINT Bounded
SPECIFICATION Spec
SYMMETRY Symmetry
CHECK_DEADLOCK FALSE
INVARIANT FiledIsSigned
