SPECIFICATION FairSpec
CONSTANTS
  c1 = c1  c2 = c2  c3 = c3 c4 = c4
  Calls <- MCCalls
  NoCall = NoCall
  TxHash <- MCTxHash
  TxSize <- MCTxSize
  MayFail = {"c"}
  MaxTxDataSize = 2
  QueueCap = 2
  MaxTroubles = 2
CHECK_DEADLOCK FALSE
INVARIANTS AnsweredOnce AnswersTruthful FeedFollowsDb
PROPERTY QueuedCallsReturn
