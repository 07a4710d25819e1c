SPECIFICATION Spec
CONSTANTS
  a = a
  b = b
  c = c
  d = d
  e = e
  x = x
  y = y
  g1 = g1
  g2 = g2
  p1 = p1
  p2 = p2
  i1 = i1
  i2 = i2
  i3 = i3
  k1 = k1
  k2 = k2
  n1 = n1
  n2 = n2
  n3 = n3
  bx = bx
  by = by
  r1 = r1
  r2 = r2
  r3 = r3
  Nodes = {a, b, c, d, e}
  MQTT = MQTT
  MaxPaths = 3
  None = None
  Inputs <- SomeInputs
  Runs = {p1, p2}
  Relays = {x, y}
  Gates = {g1, g2}
  Windows <- SomeWindows
  MaxAge = 1
  CloseDb = 4
  Margin = 4
  Measured = 2
  MaxWeight = 5
  LastTick = 3
  Nobody = Nobody
  Scanners = {p1, p2}
  Ids = {i1, i2, i3}
  Digests = {k1, k2}
  IdsOf <- SomeIdsOf
  Ours <- SomeOurs
  Histories <- SomeHistories
  HourLength = 2
  LastMoment = 5
  MaxFetches = 2
  Never = Never
  Stations = {n1, n2, n3}
  ByteOf <- SomeBytes
  Resolved <- SomeResolved
  NoByte = NoByte
  OurStations = {n1}
  Broadcasts <- SomeBroadcasts
  Span = 2
  LastTime = 5
  MaxRefreshes = 2
  MinRelayed = 2
  MinEvents = 2
  MinPackets = 2
  HighCarried = 60
  MediumCarried = 30
  Encrypted = Encrypted
  Unfetched = Unfetched
  RegionOrder <- SomeOrder
  Nowhere = Nowhere
  Readers = {p1, p2}
  Week = 3
  Day = 1
  LastDay = 5
  Unset = Unset
SYMMETRY Alike
INVARIANTS
  GraphIsRight
  CountsAreRight
  RegionsAreAsked
PROPERTY RelaysAreRight
CHECK_DEADLOCK FALSE
