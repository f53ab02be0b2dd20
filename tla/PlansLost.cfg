SPECIFICATION PlansSpec
CONSTANTS
  Deciders = {d1, d2}
  MaxPlans = 2
  TaskCount = 1
  MaxRolls = 2
INVARIANTS
  PlanSurvivesCompaction
CHECK_DEADLOCK FALSE
