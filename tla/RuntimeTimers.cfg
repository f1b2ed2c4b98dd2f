SPECIFICATION FairSpec
CONSTANTS
  MaxTimers <- MCTimers
  MaxSessions <- MCSessions
  MaxJobs <- MCJobs
INVARIANTS
  TypeOK
  TimersMatchLifecycle
  ScriptsSeeGlobals
PROPERTIES
  EveryTimeoutEnds
