SPECIFICATION FairSpec
CONSTANTS
  MaxRequests = 3
  MaxVersion = 1
INVARIANTS
  SubmittedMatches
  AcknowledgedIsCovered
  DisputeCovers
  PanicsForAReason
PROPERTIES
  RequestsAnswered
  Withdraws
CHECK_DEADLOCK FALSE
