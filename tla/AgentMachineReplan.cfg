SPECIFICATION Spec
CONSTANTS
  MaxSteps = 2
  MaxRetries = 1
  c1 = c1
  c2 = c2
  Commands <- MCCommands
  NoCommand = NoCommand
  NoObservation = NoObservation
  Plans <- ReplanPlans
  Wirings <- ReplanWirings
  Statuses <- MCStatuses
  MaxAttempts = 1
  MaxReplans = 1
INVARIANTS
  FreshAttempt
  WorkAccepted
  AuditRetriesBounded
PROPERTIES
  RunSpec
CHECK_DEADLOCK FALSE
