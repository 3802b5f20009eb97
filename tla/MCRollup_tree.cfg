CONSTANTS
  v1 = v1
  v2 = v2
  v3 = v3
  Validators = {v1, v2, v3}
  Owner = owner
  NoChallenge = NoChallenge
  ConfirmPeriodBlocks = 2
  ExtraChallengeTimeBlocks = 1
  AvmGasSpeedLimitPerBlock = 1
  BaseStake = 1
  MinimumAssertionPeriod = 1
  MaxSendCount = 1
  WordBits = 24
  Amounts = {1}
  Assertions <- OneAssertion
  MaxBlock = 7
  MaxNodes = 3
  MaxSequenced = 1
  MaxDelayed = 9
  MaxBalance = 3
SYMMETRY ValidatorSymmetry
SPECIFICATION Spec
INVARIANTS StakeChain OlderSiblingLive ChallengesMatched FundsConserved TimelyChallengerHasTime
PROPERTIES ConfirmUnanimous EverySiblingHadWindow RejectedUnstaked RejectionHasStakedSibling
