SPECIFICATION Spec
CONSTANTS
  HourTicks = 2
  DayHours = 2
  Assumed = 3
  Retention = 2
  MaxTime = 5
  Procs = {p1, p2}
  Regions = {r1}
  Traffics = {{2, 3}}
  Interval = 2
  DayMax = 2
  RegionMax = 4
  TotalMax = 4
  MaxRefreshes = 2
  MaxFaults = 0
  None = None
INVARIANTS BothLeaveAll
CHECK_DEADLOCK FALSE
