SPECIFICATION FairSpec
CONSTANTS
  w1 = w1
  w2 = w2
  f1 = f1
  f2 = f2
  Nothing = Nothing
  Watchers <- MCWatchers
  Futures <- MCFutures
INVARIANTS
  TypeOK
  HoldsWhileWaiting
PROPERTIES
  ImplementsCompletion
  SettledIsAnswered
CHECK_DEADLOCK FALSE
