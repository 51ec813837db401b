SPECIFICATION FairSpec
CONSTANTS
  c1 = c1
  s1 = s1
  s2 = s2
  Nobody = Nobody
  Gone = Gone
  Unread = Unread
  Unsure = Unsure
  Checks = {c1}
  Runs = {s1, s2}
  MaxFaults = 2
INVARIANTS
  TypeOK
  OneSender
  NotifiedTruly
  NoRepeat
  OpenAsReadLast
PROPERTIES
  ComesToBeKnown
