SPECIFICATION PartSpec
CONSTANTS
  HourTicks = 2
  DayHours = 1
  Assumed = 2
  Retention = 3
  MaxTime = 4
  Procs = {p1, p2}
  n1 = n1
  n2 = n2
  n3 = n3
  Nodes <- AllNodes
  Fleets <- SomeFleets
  Traffics <- SomeTraffics
  Interval = 1
  FileMax = 3
  MaxNodes = 1
  Spare = 0
  TotalMax = 4
  MaxRefreshes = 2
  MaxFaults = 1
  None = None
  loranet = loranet
  lorastats = lorastats
  tak = tak
  hidden = hidden
  nm = nm
  om = om
  g1 = g1
  g2 = g2
  Unknown = Unknown
  Priority <- SomePriority
  HourUnits = 240
  LearnWindow = 10
  MinHeard = 3
  Tak = {tak}
  Silent = {hidden}
  DefaultInterval = 480
  TakInterval = 720
  MinInterval = 240
  MaxInterval = 960
  StaleFloor = 480
  OfflineFloor = 1440
  LookBacks <- SomeLookBacks
  BaselineWindow = 2
  Epsilon = 2
  Sights <- SomeSights
  m1 = m1
  m2 = m2
  m3 = m3
  gx = gx
  router = router
  mute = mute
  slow = slow
  fast = fast
  FleetNodes = {m1, m2, m3}
  Gateways = {m1, m2, m3, gx}
  Bytes = {1, 2}
  RelayByte <- SomeRelayByte
  WindowHours = 10
  BatteryFresh = 4
  TrendPoints = 3
  TrendSpan = 3
  MinReceptions = 2
  RebootsWarn = 2
  SilenceWarn = 3
  RouterRoles = {router}
  Mute = mute
  HopSamples = 2
  DefaultHops = 3
  MinRouterGateways = 2
  LongPresets = {slow}
  CrowdedFrom = 6
  Airtime <- SomeAirtime
  ReferenceAirtime = 5
  FleetViews <- SomeFleetViews
SYMMETRY Alike
INVARIANTS HoursAreRight SweepsAreRight StatusIsRight HealthIsRight
CHECK_DEADLOCK FALSE
