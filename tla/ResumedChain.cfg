SPECIFICATION Spec
CONSTANTS
  MaxSteps = 2
  MaxRetries = 1
  c1 = c1
  c2 = c2
  Commands <- MCCommands
  NoCommand = NoCommand
  NoObservation = NoObservation
  Plans <- ServicePlans
  Wirings <- ServiceWirings
  Statuses <- MCStatuses
  MaxAttempts = 2
  MaxReplans = 1
PROPERTIES
  FailedStageRetriesOrFails
CHECK_DEADLOCK FALSE
