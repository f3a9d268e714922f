SPECIFICATION LiveSpec
CONSTANTS
  p1 = p1
  t1 = t1
  t2 = t2
  ann = ann
  bob = bob
  Zero = Zero
  NoProc = NoProc
  Dead = Dead
  NoCursor = NoCursor
  Procs = {p1}
  Txs = {t1, t2}
  Holders = {ann, bob}
  From <- MCFrom
  To <- MCTo
  Chunk = 2
  Confirmations = 0
  ReorgDepth = 2
  Retention = 2
  Faults = {"lag", "fail", "crash"}
  MaxHeight = 3
  MaxReorgs = 2
  MaxFails = 2
INVARIANTS TypeOK BalancesAdd IndexIsStamped
PROPERTY CatchesUp
CHECK_DEADLOCK FALSE
