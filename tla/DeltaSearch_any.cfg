CONSTANTS
  DeltaSup = 12
  Epsilon = 2
  MaxMisses = 3
  MaxCalls = 6
  Sustainable = FALSE
SPECIFICATION Spec
INVARIANTS
  Witnessed
CHECK_DEADLOCK FALSE
