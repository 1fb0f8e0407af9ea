CONSTANTS
  Contents = {c0, c1, c2}
  Empty = c0
SPECIFICATION AutosaveSpec
INVARIANT SavedMeansSafe
