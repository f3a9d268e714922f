SPECIFICATION LiveSpec
CONSTANTS
  Orders = {o1}
  Procs = {p1, p2}
  NoOrder = NoOrder
  Amount <- AmountEach
  Escrow = FALSE
  MinimumRaise = 0
  CryptoTxs = {}
  Checkout = Checkout
  Requests = {"pay", "webhook", "sweep"}
  Faults = {}
  CrashPoints = {"mint", "persist", "wait", "writeSettled"}
  MaxClaims = 3
CHECK_DEADLOCK FALSE
PROPERTIES SettlingResolves PaidResolves
