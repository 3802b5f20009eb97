CONSTANTS
  me = me
  o1 = o1
  o2 = o2
  Validators = {me, o1, o2}
  Me = me
  Owner = owner
  NoChallenge = NoChallenge
  ConfirmPeriodBlocks = 5
  ExtraChallengeTimeBlocks = 0
  AvmGasSpeedLimitPerBlock = 1
  BaseStake = 1
  MinimumAssertionPeriod = 1
  MaxSendCount = 1
  WordBits = 24
  Amounts = {1}
  Assertions <- OneAssertion
  MaxBlock = 8
  MaxNodes = 4
  MaxSequenced = 1
  MaxDelayed = 40
  MaxBalance = 40
  Strategies = {"Defensive", "StakeLatest", "MakeNodes", "Watchtower"}
  Patience = 1
  MaxOwnNodes = 2
  MaxOthersNodes <- TwoOfOthers
  MaxOthersStakes <- FewerOfOthers
SYMMETRY OthersSymmetry
SPECIFICATION StakerSpec
INVARIANTS OnlyCorrectConfirmed StakeIsSafe
