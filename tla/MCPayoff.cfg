SPECIFICATION Spec
CONSTANTS
  MaxStake = 12
  SampleBps = {2000, 3333, 5000, 8000}
INVARIANTS
  MatchesMatrix
  PotDividedExactly
  SplitFair
PROPERTIES
  RightGuessDominates
