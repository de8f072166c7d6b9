CONSTANTS
  NumTask = 2
  Klist <- MCKlist
  MaxJobs = 4
  Costs = {1, 2}
  Deadlines = {4}
  MaxWcct = 5
  Caps <- MCCaps
  JobKinds <- MCJobKinds
SPECIFICATION Spec
INVARIANTS
  WorstWindow
  HardKept
  Saturated
  Least
PROPERTIES
  CountSustainable
CHECK_DEADLOCK FALSE
