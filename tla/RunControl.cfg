SPECIFICATION Spec
CONSTANTS
  l1 = l1
  l2 = l2
  q1 = q1
  q2 = q2
  None = None
  MaxRuns = 2
  MaxFaults = 1
  Loops <- TwoLoops
  Requests <- TwoRequests
SYMMETRY Interchangeable
CONSTRAINT OneComplication
INVARIANTS
  SlotMatchesStatus
  CancelEntryIsLive
  RunningIsExecuted
PROPERTIES
  LateOutcomeHasACause
  SlotIsHandedOver
