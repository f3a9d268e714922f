SPECIFICATION Spec
CONSTANTS
  Orders = {o1, o2}
  Procs = {p1, p2}
  NoOrder = NoOrder
  Amount <- AmountEach
  Escrow = TRUE
  MinimumRaise = 2
  CryptoTxs = {}
  Checkout = Checkout
  Requests = {"webhook", "sweep", "close"}
  Faults = {"send", "revert", "drop", "rpcReceipt", "refund"}
  CrashPoints = {"mint", "wait", "writeSettled", "writeUnsettled", "refund", "writeRefunded", "closeNext"}
  MaxClaims = 2
CHECK_DEADLOCK FALSE
SYMMETRY Symmetric
INVARIANTS OneOutcome EscrowHeld OneVerdict
PROPERTIES FundedIsMet
