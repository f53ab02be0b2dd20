SPECIFICATION Spec
CONSTANTS
  Jobs = {j1, j2}
  MaxBoxes = 2
  MaxMishaps = 1
  Viewers = {v1}
  MaxRebuilds = 2
  MaxGlitches = 1
  MaxCommits = 3
  MaxPulls = 2
  MaxOutages = 2
  Senders = {s1}
  MaxEpochs = 3
  MaxMessages = 3
  MaxCalls = 2
  MaxSlips = 1
  Deciders = {d1}
  MaxPlans = 2
  TaskCount = 1
  MaxRolls = 2
  Callers = {c1, c2}
  MaxUpdates = 1
  MostSteps = 1
  Configured = {0, 2}
  Limit = 2
  MaxFrames = 4
INVARIANTS
  OneAtATime NoSandboxForgotten ProvisioningHasACause
  FrameConnects PushedWorkStays PullRequestIsKnown
  BatchIsKept NothingIsForgotten NobodyIsLeftWaiting
  UnderwayIsApproved NoCallIsFree NoFalsePass FramesAreServed
PROPERTIES
  OneSandboxAfterAnother ClientFollowsSettings
CHECK_DEADLOCK FALSE
