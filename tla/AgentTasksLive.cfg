SPECIFICATION FairSpec
CONSTANTS
  MaxTasks = 2
  MaxConcurrency = 1
  MaxFaults = 1
PROPERTIES
  EventuallySettled
