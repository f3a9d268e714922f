SPECIFICATION Spec
CONSTANTS
  Orders = {o1}
  Procs = {p1, p2}
  NoOrder = NoOrder
  Amount <- AmountEach
  Escrow = FALSE
  MinimumRaise = 0
  CryptoTxs = {}
  Checkout = Checkout
  Requests = {"pay", "webhook"}
  Faults = {}
  CrashPoints = {}
  MaxClaims = 2
CHECK_DEADLOCK FALSE
INVARIANT NoDoubleMint
