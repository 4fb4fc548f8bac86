CONSTANTS
  Backends <- MCBackends
  Programs = {"api", "stream", "tx", "context"}
  Keys = {1, 2}
  Records = {0, 1}
  Txs = {t1, t2}
  NoTxID = NoTxID
  Garbage = Garbage
  MaxOps = 4
  MaxReopen = 1
  NumSlots = 2
  Clients = {c1, c2}
  MaxTxID = 4
  MaxScans = 2
SPECIFICATION FairSpec
INVARIANTS BackendsExact TxSerial ContextSound
PROPERTIES StreamDrains
CHECK_DEADLOCK FALSE
