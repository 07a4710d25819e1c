SPECIFICATION Spec
CONSTANTS
  d1 = d1
  d2 = d2
  b1 = b1
  b2 = b2
  b3 = b3
  Devices = {d1, d2}
  FreshKeys = {k1, k2, k3, k4, k5}
  DeviceKeys = {b1, b2, b3}
  BuiltInKey <- TwoDevices
  Weak = {d2}
  AdminIds = {d1}
  MayForce = FALSE
  NamesVanish = TRUE
  MaxFaults = 2
INVARIANT
  Custody
