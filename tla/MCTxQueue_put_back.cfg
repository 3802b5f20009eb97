SPECIFICATION FairSpec
CONSTANTS
  c1 = c1  c2 = c2  c3 = c3 c4 = c4
  Calls <- ThreeCalls
  NoCall = NoCall
  TxHash <- ThreeTxHash
  TxSize <- ThreeTxSize
  MayFail = {"a", "b"}
  MaxTxDataSize = 2
  QueueCap = 2
  MaxTroubles = 0
CHECK_DEADLOCK FALSE
PROPERTY PutBackAnswered
