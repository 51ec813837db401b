SPECIFICATION FairSpec
CONSTANTS
  c = c
  g = g
  kc = kc
  kg = kg
  km = km
  a1 = a1
  r1 = r1
  r2 = r2
  NoRun = NoRun
  NoEntity = NoEntity
  Entities = {g}
  Keys = {km}
  Actors = {a1}
  Runs = {r1, r2}
  EntityOf <- MCEntityOf
  Peers <- MCPeers
  MaxVersion = 2
  MaxRows = 2
  MaxCrashes = 1
  MaxAttempts = 2
  RpcTries = 2
  ClaimLimit = 2
  Modes = {"incremental"}
  WorkerClockSkew = FALSE
  LeaseOutlivesStalls = TRUE
INVARIANTS
  Promise
  MutationLeaseExclusive
PROPERTIES
  LeaseComesFree
  BacklogDrains
