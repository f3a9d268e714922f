SPECIFICATION Spec
CONSTANTS
  Orders = {o1}
  Procs = {p1, p2}
  NoOrder = NoOrder
  Amount <- AmountEach
  Escrow = TRUE
  MinimumRaise = 1
  CryptoTxs = {}
  Checkout = Checkout
  Requests = {"webhook", "close", "sweep", "setStatus"}
  Faults = {"send", "lostReply", "refund", "rpcTx", "decline", "chargeback", "slow"}
  CrashPoints = {"persist", "refund"}
  MaxClaims = 2
CHECK_DEADLOCK FALSE
SYMMETRY Symmetric
INVARIANTS OneOutcomePerGrant RefundedIsReturned
