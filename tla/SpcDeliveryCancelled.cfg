SPECIFICATION Spec
CONSTANTS
  d1 = d1
  d2 = d2
  t1 = t1
  t2 = t2
  t3 = t3
  NoDevice = NoDevice
  NoClaim = NoClaim
  MaxJobs = 2
  Devices = {d1}
  Tabs = {t1, t2}
  DeviceOf <- MCDeviceOf
  MaxAttempts = 1
  PermitsExpireFirst = TRUE
SYMMETRY Symmetry
INVARIANTS
  OnlyOneInFlight
