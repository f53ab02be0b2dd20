SPECIFICATION PlansSpec
CONSTANTS
  Deciders = {d1}
  MaxPlans = 2
  TaskCount = 1
  MaxRolls = 1
INVARIANTS
  WorkIsApproved
CHECK_DEADLOCK FALSE
