SPECIFICATION FairSpec
CONSTANTS
  e1 = e1
  e2 = e2
  m1 = m1
  m2 = m2
  w1 = w1
  w2 = w2
  Absent = Absent
  NoWorker = NoWorker
  Events = {e1}
  Contents = {m1, m2}
  Workers = {w1, w2}
  MaxRecords = 2
  MaxEdits = 1
  MaxKills = 1
  MaxTries = 1
  ClaimLimit = 2
  WorkersEndFirst = TRUE
INVARIANTS
  Converged
PROPERTIES
  ComesToShow
CHECK_DEADLOCK FALSE
