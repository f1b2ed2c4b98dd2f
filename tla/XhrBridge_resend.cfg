SPECIFICATION Spec
CONSTANTS
  x1 = x1
  x2 = x2
  Objects = {x1}
  MaxSends = 2
  MaxLost = 0
  MaxInstalls = 1
  MaxCloses = 0
INVARIANTS
  AbortedRepliesAreIgnored
CHECK_DEADLOCK FALSE
