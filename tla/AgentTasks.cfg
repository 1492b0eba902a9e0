SPECIFICATION Spec
CONSTANTS
  MaxTasks = 3
  MaxConcurrency = 2
  MaxFaults = 2
INVARIANTS
  TypeOK
  NoTaskLost
  ExecutionOwned
  ConcurrencyBounded
PROPERTIES
  AbortTakesHold
  NoDoubleStart
  QueueContract
