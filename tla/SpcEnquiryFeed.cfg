SPECIFICATION FeedSpec
CONSTANTS
  r1 = r1
  r2 = r2
  r3 = r3
  Nobody = Nobody
  NoPage = NoPage
  Rows = 2
  Requests = {r1, r2, r3}
  Attempts = 2
  MaxTries = 3
  MaxStamp = 3
SYMMETRY Symmetry
INVARIANTS
  FeedTypeOK
  StemWhole
  SavedOnce
  BoardMissesNothing
PROPERTIES
  NothingOverwritten
