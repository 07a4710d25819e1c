SPECIFICATION Spec
CONSTANTS
  Procs = {p1, p2}
  Hosts = {h1, h2}
  TTL = 1
  MaxRetries = 1
  Delays = {3}
  MaxCooldown = 2
  MaxTime = 2
  MaxFetches = 1
  None = None
SYMMETRY Alike
PROPERTIES
  CooldownHonoured
  ServedIsUsable
