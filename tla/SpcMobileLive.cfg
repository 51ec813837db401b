SPECIFICATION FairSpec
CONSTANTS
  e1 = e1
  e2 = e2
  p1 = p1
  p2 = p2
  NoEnquiry = NoEnquiry
  Enquiries = {e1}
  Tasks = {p1}
  MaxFaults = 2
  MaxAttempts = 2
PROPERTIES
  ServedOrSpent
CHECK_DEADLOCK FALSE
