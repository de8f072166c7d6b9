CONSTANTS
  DeltaSup = 12
  Epsilon = 2
  MaxMisses = 4
  MaxCalls = 40
  Sustainable = TRUE
SPECIFICATION Spec
INVARIANTS
  TypeOK
  Witnessed
  Bracketed
  Separated
  InBounds
  Tight
  TablesAgree
PROPERTIES
  EveryProbeHalves
  ImplementsMarginTable
  Terminates
