SPECIFICATION Spec
CONSTANTS
  l1 = l1
  l2 = l2
  q1 = q1
  q2 = q2
  None = None
  MaxRuns = 1
  MaxFaults = 0
  Loops <- TwoLoops
  Requests <- OneRequest
INVARIANTS
  StopReachesEveryLoop
