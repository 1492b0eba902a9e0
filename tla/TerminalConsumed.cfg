SPECIFICATION Spec
CONSTANTS
  MaxTasks = 1
  MaxConcurrency = 1
  MaxFaults = 1
PROPERTIES
  TerminalNotConsumed
