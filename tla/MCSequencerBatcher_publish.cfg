SPECIFICATION Spec
CONSTANTS
  Self = Self
  Other = Other
  ZeroAddress = ZeroAddress
  NoTime = NoTime
  MaxDelay <- MCMaxDelay
  BlockTime = 1
  DelayedMessagesTargetDelay = 1
  UpdateTimestampInterval = 2
  MaxL1Reorg = 1
  MaxL1BackwardsReorg = 12
  MaxBatchGasCost = 4
  ParallelPublishingBatches = 2
  ShouldReorgGaps = 1
  LastDelivery = 2
  MaxBlock = 6
  MaxDelayed = 2
  MaxSends = 1
  MaxHandovers = 1
CHECK_DEADLOCK FALSE
INVARIANTS PublishedMatchesSequenced BatchesUnpackToItems SequencedDelayedSettled
