CONSTANTS
  Runs = {r1, r2, r3}
  NoRun = NoRun
  Kinds = {"pipeline", "resume"}
  PlanSteps = {2}
  MaxEvents = 6
  MaxLive = 1
  MaxRefusals = 0
  MaxCuts = 0
SPECIFICATION Spec
INVARIANT AnsweredPlanIsDone
CHECK_DEADLOCK FALSE
SYMMETRY Symmetry
