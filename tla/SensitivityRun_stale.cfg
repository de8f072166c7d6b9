CONSTANTS
  DeltaSup = 12
  Epsilon = 2
  MaxMisses = 3
  MaxCalls = 40
  Sustainable = TRUE
  MaxFailures = 2
  Leftovers <- MCLeftovers
SPECIFICATION RunSpec
INVARIANTS
  FreshAnswers
