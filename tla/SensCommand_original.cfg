CONSTANTS
  MaxVersion = 2
  MaxScaled = 3
SPECIFICATION Spec
INVARIANTS
  ScalesTheOriginal
