SPECIFICATION PartSpec
CONSTANTS
  HourTicks = 2
  DayHours = 2
  Assumed = 3
  Retention = 2
  MaxTime = 5
  Procs = {p1, p2}
  Regions = {r1, r2}
  Interval = 2
  DayMax = 1
  RegionMax = 2
  TotalMax = 2
  MaxRefreshes = 2
  MaxFaults = 1
  None = None
  Traffics <- SomeTraffics
  l1 = l1
  l2 = l2
  gw = gw
  junk = junk
  client = client
  known = known
  rare = rare
  long = long
  Listed = {l1, l2}
  AskedIds = {l1}
  MapEnd = MapEnd
  RoleNames <- SomeRoles
  LongTexts = {long}
  MaxEpoch = 5
  Above = 9
  Millis = 10
  LatitudeLimit = 4
  LongitudeLimit = 8
  MaxNeighbors = 2
  Ttl = 0
  MinTtl = 1
  Servings <- SomeServings
  LastTime = 4
  MaxReads = 3
  Missing = Missing
  Garbled = Garbled
  MaxBlankRows = 2
  MaxRowRepeat = 3
  MaxColumns = 14
  EditedColumns = {1, 2, 5, 13}
  MaxChanges = 2
  Chipset <- SomeChipset
  RankOf <- Ranks
  FirstRows <- SomeFirst
  Typed <- SomeTyped
  Packs <- SomePacks
  n1 = n1
  n2 = n2
  N1 = N1
  ad = ad
  ob = ob
  ka = ka
  kb = kb
  kw = kw
  FleetIds = {n1, n2}
  CanonicalOf <- SomeCanonical
  AdminLabels = {ad}
  ObservedOwners = {ob}
  Materials = {ka, kb, kw}
  Rating <- SomeRating
  Databases <- SomeDatabases
  NoTemplate = NoTemplate
  BrokenTemplate = BrokenTemplate
  NotVerified = NotVerified
SYMMETRY Alike
INVARIANTS HoursAreRight QuietMeansBounded LoranetIsTold SheetsAreWhole VerifyIsRight
CHECK_DEADLOCK FALSE
