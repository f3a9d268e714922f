SPECIFICATION Spec
CONSTANTS
  Orders = {o1}
  Procs = {p1, p2}
  NoOrder = NoOrder
  Amount <- AmountEach
  Escrow = FALSE
  MinimumRaise = 0
  CryptoTxs = {t1}
  Checkout = Checkout
  Requests = {"pay", "webhook", "sweep", "crypto"}
  Faults = {"send", "revert", "drop", "wait", "lostReply", "rpcTx", "rpcReceipt", "db", "slow", "leaseLapse", "decline"}
  CrashPoints = {"mint", "persist", "wait", "writeSettled", "writePaid", "afterPaid", "recRequeue"}
  MaxClaims = 2
CHECK_DEADLOCK FALSE
SYMMETRY Symmetric
INVARIANTS TypeOK SettledIsMinted MintedIsPaidFor
