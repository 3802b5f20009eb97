CONSTANTS
  Sequencers = {s1}
  ZeroAddress = ZeroAddress
  NoBatch = NoBatch
  Delays <- ShortDelays
  BlockTimes = {1}
  WordBits = 6
  MaxBlock = 3
  MaxDelayed = 2
  MaxMessages = 5
  MaxItems = 1
  MaxSections = 2
  LastDelivery = 1
SPECIFICATION FairSpec
CHECK_DEADLOCK FALSE
INVARIANTS MessagesNumbered DelayedReadOnceInOrder EveryCountProvable
PROPERTIES ForcedOnlyAfterWindow DelayedEventuallyRead
