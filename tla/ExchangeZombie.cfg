SPECIFICATION Spec
CONSTANTS
  c = c
  g = g
  kc = kc
  kg = kg
  km = km
  a1 = a1
  a2 = a2
  r1 = r1
  r2 = r2
  NoRun = NoRun
  NoEntity = NoEntity
  Entities = {c, g}
  Keys = {km}
  Actors = {a1, a2}
  Runs = {r1, r2}
  EntityOf <- MCEntityOf
  Peers <- MCPeers
  MaxVersion = 2
  MaxRows = 2
  MaxCrashes = 0
  MaxAttempts = 2
  RpcTries = 2
  ClaimLimit = 2
  Modes = {"incremental"}
  WorkerClockSkew = FALSE
  LeaseOutlivesStalls = FALSE
SYMMETRY Symmetry
INVARIANTS
  TypeOK
  ExclusiveKey
  RetryBound
PROPERTIES
  Finality
