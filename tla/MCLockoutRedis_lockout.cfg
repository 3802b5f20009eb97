CONSTANTS
  Sequencers = {s1, s2}
  NoOne = NoOne
  NoCommand = NoCommand
  Timeout = 3
  MaxLatency = 1
SPECIFICATION FairSpec
INVARIANT OwnLockoutOnly
PROPERTIES ImplementsLease OrphanedLockoutEnds
