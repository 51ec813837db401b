SPECIFICATION Spec
CONSTANTS
  e1 = e1
  e2 = e2
  p1 = p1
  p2 = p2
  NoEnquiry = NoEnquiry
  Enquiries = {e1}
  Tasks = {p1, p2}
  MaxFaults = 1
  MaxAttempts = 2
SYMMETRY Symmetry
CONSTRAINT Followed
INVARIANTS
  TypeOK
  OneSender
  LabelFollowsContent
PROPERTIES
  ImplementsOneSubmission
CHECK_DEADLOCK FALSE
