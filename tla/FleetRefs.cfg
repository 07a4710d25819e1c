SPECIFICATION PartSpec
CONSTANTS
  d1 = d1
  d2 = d2
  i1 = i1
  i2 = i2
  j1 = j1
  j3 = j3
  k1 = k1
  k2 = k2
  k3 = k3
  k4 = k4
  ad = ad
  o1 = o1
  o2 = o2
  o3 = o3
  NoOne = NoOne
  Devices = {d1, d2}
  Managed = {d2}
  Ids = {i1, i2, j1, j3}
  Keys = {k1, k2, k3, k4}
  FreshKeys = {k3}
  OtherKeys = {k4}
  AdminRefs = {ad}
  FirstId <- SomeFirstId
  FirstKey <- SomeFirstKey
  DerivedId <- SomeDerivedId
  Short <- SomeShort
  Wide <- SomeWide
  Templates <- SomeTemplates
  AdminSets <- SomeAdminSets
  Legacy <- SomeLegacy
  MaxEvents = 2
  fa = fa
  nm = nm
  padded = padded
  longest = longest
  cut = cut
  r1 = r1
  r2 = r2
  r3 = r3
  r4 = r4
  q1 = q1
  q2 = q2
  q3 = q3
  mine = mine
  odd = odd
  flt = flt
  new = new
  m1 = m1
  m2 = m2
  m3 = m3
  Modules = {m1, m2}
  AdminNodes = {r1, r2, r3, r4}
  AdminKeys = {q1, q2, q3}
  KeyOf <- SomeKeyOf
  WithPrivate = {r1}
  Mismatched = {r3}
  WeakKeys = {q2, q3, odd}
  UnusableKeys = {q3}
  FleetKeys = {flt}
  NewKey = new
  MaxAdminKeys = 3
  FactoryNames = {fa}
  Stripped <- SomeStripped
  Truncated <- SomeTruncated
  Setups <- SomeSetups
  Nothing = Nothing
  ours = ours
  theirs = theirs
  a1 = a1
  a2 = a2
  NameLimit <- SomeLimits
  MaxCut = 3
  RelTol = 8
  FloatStep = 2
  Plans <- SomePlans
  NoValue = NoValue
  Garbled = Garbled
  e1 = e1
  e2 = e2
  e3 = e3
  Slot = "n"
  NamedNodes = {e1, e2, e3}
  Folded <- SomeFolded
  Schemes <- SomeSchemes
  OtherNames <- SomeOthers
  MaxNamings = 4
  pk1 = pk1
  pk2 = pk2
  pk3 = pk3
  Peers = {0, 1, 2}
  Own = 0
  PeerKeys = {pk1, pk2, pk3}
  WeakPeerKeys = {pk3}
  FleetRows <- SomeRows
  MaxHeard = 1
  NoKey = NoKey
  Ports = {1, 2, 3}
  Probes = {1}
  Likely = {3}
  Radios = {1, 2}
  Signal <- SomeSignal
  Advertise = {1, 2}
  Words = {"name", "f", "1", "2", "9", "[", "]", ":"}
  Texts <- SomeTexts
  HostNames = {"name"}
  Addresses <- SomeAddresses
  PortNumber <- SomeNumbers
  DefaultPort = 2
  MaxPort = 3
  Options <- SomeOptions
  CloseTimeout = 2
  MaxChanges = 2
  Nobody = Nobody
  KeySize = 4
  ByteBits = 2
  LowWeight = 2
  HighWeight = 6
  MinDistinct = 3
  SmallOrder <- SomePoints
  PublicOf <- SomePublicOf
  VulnerableMin = 2
  FixedMin = 4
  Places <- SomePlaces
  Entries <- SomeEntries
  Nodes <- SomeAudited
  MaxListEdits = 2
  Absent = Absent
  Unparsed = Unparsed
  Procs = {p1, p2}
  MaxEdits = 2
  MaxOutsideSaves = 1
  MaxRestores = 1
  MaxFaults = 1
  None = None
CHECK_DEADLOCK FALSE
INVARIANT NoRefIsLost
