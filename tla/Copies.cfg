SPECIFICATION PartSpec
CONSTANTS
  Procs = {p1, p2}
  Retention = 2
  Clock = {1, 4}
  MaxSaves = 3
  MaxBackups = 4
  MaxFaults = 1
  None = None
  Commands = {p1, p2}
  Broken = {2}
  MaxVersions = 3
  MaxMishaps = 1
  Absent = Absent
INVARIANTS
  ReplacedIsBackedUp
  KeepsTheLatest
  QuietMeansPruned
  VerifiedIsOurs
PROPERTIES
  CopyHeals
