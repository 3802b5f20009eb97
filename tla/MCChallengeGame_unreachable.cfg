CONSTANTS
  t0 = t0
  t1 = t1
  t3 = t3
  t4 = t4
  t5 = t5
  b1 = b1
  b3 = b3
  b5 = b5
  Unreachable = Unreachable
  Claims <- States
  Gas <- StateGas
  Succ <- StepToWaiting
  Blocked <- WaitingStates
  Truth <- ReachedWaiting
  BeforeState = t0
  EndGas = 5
  BisectionDegree = 2
  SegmentTarget = 2
  AsserterTime = 1
  ChallengerTime = 2
  MaxBlock = 5
SPECIFICATION GameSpec
CHECK_DEADLOCK FALSE
PROPERTY RightLosesOnlyByDelay
