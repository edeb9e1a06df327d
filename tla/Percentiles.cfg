SPECIFICATION Spec
CONSTANTS
  Values <- TwoValues
  MaxSamples = 102
  Word = 65536
INVARIANTS
  NearestRank
CHECK_DEADLOCK FALSE
