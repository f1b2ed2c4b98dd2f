SPECIFICATION FairSpec
CONSTANTS
  x1 = x1
  x2 = x2
  Objects <- MCObjects
  MaxSends <- MCMaxSends
  MaxLost <- MCMaxLost
  MaxInstalls <- MCMaxInstalls
  MaxCloses <- MCMaxCloses
INVARIANTS
  TypeOK
  RepliesReachTheirObject
  CallbacksMatchCalls
  ClosedSessionsStayClosed
PROPERTIES
  LoadingEnds
CHECK_DEADLOCK FALSE
