SPECIFICATION Spec
CONSTANTS
  MaxEvents = 4
  Publishers = 1
  BufferSize = 1
  ReplayLimit = 4
  Keep = 2
  MaxFaults = 0
  Reloaders = {2}
INVARIANTS
  ResumePointIsHonest
