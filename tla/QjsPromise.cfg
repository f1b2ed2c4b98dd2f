SPECIFICATION FairSpec
CONSTANTS
  p1 = p1
  p2 = p2
  p3 = p3
  Promises <- MCPromises
  MaxPairs <- MCMaxPairs
  MaxReactions <- MCMaxReactions
INVARIANTS
  TypeOK
  OneAuthority
  ReactionsRunInOrder
  RejectionsTravel
PROPERTIES
  NobodyIsLeftBehind
CHECK_DEADLOCK FALSE
