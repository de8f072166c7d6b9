CONSTANTS
  MaxVersion = 3
  MaxScaled = 3
SPECIFICATION Spec
INVARIANTS
  TypeOK
  OriginalsCurrent
  SameProgram
  InputUnscaled
