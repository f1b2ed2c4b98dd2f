SPECIFICATION FairLimitSpec
CONSTANTS
  Timeout <- MCTimeout
  Polls <- MCPolls
  Depth <- MCDepth
  MaxJobs <- MCMaxJobs
  MaxSpent <- MCMaxSpent
  Endless = FALSE
INVARIANTS
  LimitTypeOK
  InterruptIsPrompt
PROPERTIES
  NobodyIsCutShort
  EveryEntryReturns
