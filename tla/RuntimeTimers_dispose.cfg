SPECIFICATION Spec
CONSTANTS
  MaxTimers = 2
  MaxSessions = 1
  MaxJobs = 1
INVARIANTS
  DisposeCancelsTimers
