SPECIFICATION HSpec
CONSTANTS
  Graces = {0, 1, 2}
  Sizes = {1, 3}
  MaxTime = 4
  MaxCalls = 4
INVARIANT MatchesReference
