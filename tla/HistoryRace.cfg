SPECIFICATION Spec
CONSTANTS
  HourTicks = 2
  DayHours = 2
  Assumed = 3
  Retention = 3
  MaxTime = 5
  Procs = {p1, p2}
  Nodes = {n1}
  Fleets = {{n1}}
  Traffics = {{2, 3}}
  Interval = 2
  FileMax = 8
  MaxNodes = 1
  Spare = 0
  TotalMax = 8
  MaxRefreshes = 2
  MaxFaults = 0
  None = None
INVARIANTS BothLeaveAll
CHECK_DEADLOCK FALSE
