CONSTANTS
  NoTx = NoTx
  DelayBlocks = 1
  TargetDelay = 1
  Windows = {2}
  BackStep = 1
  Recheck = 1
  MaxBlocks = 5
  MaxDelayed = 2
  MaxItems = 2
  MaxReorg = 1
  MaxFaults = 1
SPECIFICATION FairSpec
INVARIANTS CoreNeverFails LastAccIsEnd
PROPERTY FollowsChain
