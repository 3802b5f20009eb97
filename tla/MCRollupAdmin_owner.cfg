CONSTANTS
  v1 = v1
  v2 = v2
  Validators = {v1, v2}
  Owner = owner
  NoChallenge = NoChallenge
  ConfirmPeriodBlocks = 1
  ExtraChallengeTimeBlocks = 0
  AvmGasSpeedLimitPerBlock = 1
  BaseStake = 1
  MinimumAssertionPeriod = 1
  MaxSendCount = 1
  WordBits = 24
  Amounts = {1}
  Assertions <- OneAssertion
  MaxBlock = 3
  MaxNodes = 2
  MaxSequenced = 1
  MaxDelayed = 4
  MaxBalance = 2
SYMMETRY ValidatorSymmetry
SPECIFICATION AdminSpec
INVARIANTS RepairedNotStuck RepairedConsistent ShutdownNotStuck
PROPERTY OwnerTakesNothing
