SPECIFICATION FairSpec
CONSTANTS
  r1 = r1
  r2 = r2
  o1 = o1
  o2 = o2
  k1 = k1
  k2 = k2
  Nothing = Nothing
  Requests <- MCRequests
  Objects <- MCObjects
  Keys <- MCKeys
  MaxHeld <- MCMaxHeld
INVARIANTS
  TypeOK
  CountsMatchHolders
  PromisesMatchRequests
PROPERTIES
  ImplementsCompletion
  RequestsEnd
CHECK_DEADLOCK FALSE
