CONSTANTS
  Task = 1
  Frame = 3
  Offset = 2
  Sfdelay = 2
  Mbench = 1
  PeriodTable <- MCPeriodTable
  NsPerUs = 2
  UsPerMs = 1
  UsPerSec = 3
  MaxRows = 5
  MaxWork = 1
  MaxLate = 1
SPECIFICATION Spec
INVARIANTS
  TypeOK
  FramesFillPeriod
  ZeroDelays
  RowsOfOneFragment
  FragmentsApart
  ArrivalsPeriodic
CHECK_DEADLOCK FALSE
