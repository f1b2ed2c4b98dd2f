SPECIFICATION FairSpec
CONSTANTS
  w1 = w1
  w2 = w2
  Nobody = Nobody
  Watchers <- MCWatchers
INVARIANTS
  TypeOK
  OwnAnswer
  HoldsWhileWaiting
PROPERTIES
  ImplementsCompletion
  SettledIsAnswered
CHECK_DEADLOCK FALSE
