SPECIFICATION FairSpec
CONSTANTS
  d1 = d1
  d2 = d2
  t1 = t1
  t2 = t2
  t3 = t3
  NoDevice = NoDevice
  NoClaim = NoClaim
  MaxJobs = 1
  Devices = {d1, d2}
  Tabs = {t1, t3}
  DeviceOf <- MCDeviceOf
  MaxAttempts = 2
  PermitsExpireFirst = TRUE
INVARIANTS
  AtMostOnce
  NeverQueuedAgain
PROPERTIES
  ReviewIsFinal
  EveryJobCloses
