CONSTANTS
  Replicas = {p1, p2}
  MaxTasks = 2
  MaxConcurrency = 1
  MaxRequests = 1
  MaxOverlaps = 1
  MaxCrashes = 1
SPECIFICATION Spec
INVARIANTS TypeOK AckedIsSettled
CHECK_DEADLOCK FALSE
