CONSTANTS
  Runs = {r1, r2, r3}
  NoRun = NoRun
  Kinds = {"chat", "pipeline", "resume", "background"}
  PlanSteps = {2}
  MaxEvents = 5
  MaxLive = 2
  MaxRefusals = 1
  MaxCuts = 1
SPECIFICATION Spec
INVARIANTS TypeOK RunningIsOwned ResumeSkipsNothing
CHECK_DEADLOCK FALSE
SYMMETRY Symmetry
