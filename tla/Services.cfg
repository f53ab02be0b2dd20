SPECIFICATION Spec
CONSTANTS
  Machines = {m1, m2}
  Versions = 2
  Body = 2
  LockAttempts = 2
  MaxCrashes = 2
  Tokens <- Hiding
  MaxTokens = 4
  Keys = {k1, k2}
  Names = {n1}
  Servers = {p1, p2}
  Savers = {w1, w2}
  MaxSaves = 2
  MaxRotations = 2
  MaxRestarts = 1
  Visitors = {v1, v2}
  MaxFailures = 2
  Window = 2
  MaxChanges = 2
  MaxSessions = 2
  MaxLapses = 1
  Beats = {b1, b2, b3}
  Drivers = {d1, d2}
  Jobs = {j1}
  MaxBoxes = 2
  MaxMishaps = 2
INVARIANTS
  ServesItsOwnSchema SplitsAtStatements
  SectionIsWhole CacheFollowsTable OperatorsSecretStays
  ChangeRevokes FailuresAreBounded
  StoppableUnlessOverlapped RunKeepsSandboxAwake
PROPERTIES
  SchemaGrowsByFiles EveryMachineServes OperationEnds RowCatchesUp
CHECK_DEADLOCK FALSE
