SPECIFICATION FairSpec
CONSTANTS
  MaxRequests <- MCMaxRequests
  MaxSessions <- MCMaxSessions
  MaxModules <- MCMaxModules
INVARIANTS
  TypeOK
  CloseIsOrderly
  CurrentIsTheLiveOne
PROPERTIES
  RequestsEnd
CHECK_DEADLOCK FALSE
