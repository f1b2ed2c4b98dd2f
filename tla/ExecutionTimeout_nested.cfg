SPECIFICATION FairLimitSpec
CONSTANTS
  Timeout = 1
  Polls = 1
  Depth = 2
  MaxJobs = 0
  Endless = TRUE
  MaxSpent = 0
PROPERTIES
  ScriptsAreInterrupted
