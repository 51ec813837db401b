SPECIFICATION Spec
CONSTANTS
  c = c
  g = g
  kc = kc
  kg = kg
  km = km
  a1 = a1
  r1 = r1
  r2 = r2
  NoRun = NoRun
  NoEntity = NoEntity
  Entities = {c, g}
  Keys = {kc, km}
  Actors = {a1}
  Runs = {r1, r2}
  EntityOf <- MCEntityOf
  Peers <- MCPeers
  MaxVersion = 1
  MaxRows = 2
  MaxCrashes = 0
  MaxAttempts = 2
  RpcTries = 2
  ClaimLimit = 2
  Modes = {"incremental", "full"}
  WorkerClockSkew = TRUE
  LeaseOutlivesStalls = TRUE
SYMMETRY Symmetry
INVARIANTS
  IInv
PROPERTIES
  CertifiedExact
  ImplementsMirror
