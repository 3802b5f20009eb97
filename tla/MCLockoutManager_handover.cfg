CONSTANTS
  A = A
  B = B
  NoOne = NoOne
  Nil = Nil
  Sequencers = {A, B}
  Priorities <- PrioritiesAB
  MaxMessages = 1
  MaxFaults = 1
SPECIFICATION FairSpec
INVARIANTS HandoverKeepsOrder NoForwardingCircle
PROPERTY SequencingResumes
CHECK_DEADLOCK FALSE
