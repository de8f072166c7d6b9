CONSTANTS
  NumTask = 2
  Point = {1, 2}
  MaxVersion = 2
  Programs <- MCPrograms
SPECIFICATION Spec
INVARIANTS
  TypeOK
  StaticTimesUsed
  OnlyHardTouched
  Recoverable
  RewrittenOnce
