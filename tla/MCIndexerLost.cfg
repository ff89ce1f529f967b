CONSTANTS
  o1 = o1
  o2 = o2
  t1 = t1
  t2 = t2
  NoTx = NoTx
  Last = 1
  BlockOf <- OneBlock
  OrderOf <- OneOrder
  TxOf <- OneTx
  Orders = {o1}
  Txs = {t1}
  Threshold = 1
  FirstHead = 2
  MaxReorg = 0
  MaxHead = 4
  MaxStops = 0
  MaxRewinds = 0
  MaxInclusions = 0
SPECIFICATION FairSpec
PROPERTIES ConfirmedIsProcessed
CHECK_DEADLOCK FALSE
