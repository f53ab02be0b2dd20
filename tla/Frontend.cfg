SPECIFICATION FrontendSpec
CONSTANTS
  MaxEvents = 4
  Publishers = 2
  BufferSize = 1
  ReplayLimit = 2
  Keep = 2
  MaxFaults = 1
  Reloaders = {2}
  Speakers = {s1}
  MaxRows = 1
  MaxLog = 2
  MaxEpoch = 2
  MaxHitches = 1
INVARIANTS
  InOrderOnce
  GapHasACause
  NothingFallsBetween
  OldEpochHasACause
  HalfAnswerIsUnderWay
PROPERTIES
  NothingLingers
