CONSTANTS
  o1 = o1
  o2 = o2
  t1 = t1
  t2 = t2
  NoTx = NoTx
  Last = 3
  BlockOf <- MCBlockOf
  OrderOf <- MCOrderOf
  TxOf <- MCTxOf
  Orders = {o1, o2}
  Txs = {t1, t2}
  Threshold = 1
  FirstHead = 2
  MaxReorg = 1
  MaxHead = 4
  MaxStops = 2
  MaxRewinds = 1
  MaxInclusions = 1
SPECIFICATION FairSpec
INVARIANTS TypeOK NothingSlips CreditsBounded OnlyFinalCredited
PROPERTIES EventuallyHandled
CHECK_DEADLOCK FALSE
