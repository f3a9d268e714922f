SPECIFICATION Spec
CONSTANTS
  o1 = o1
  o2 = o2
  o3 = o3
  o4 = o4
  w1 = w1
  w2 = w2
  w3 = w3
  NoOrder = NoOrder
  NoCap = NoCap
  Orders = {o1, o2, o3}
  Wallets = {w1, w2, w3}
  WalletOf <- MCWalletOf
  PersonOf <- MCPersonOf
  Want <- MCWant
  Cap <- MCCap
  TokensTotal = 4
  Role = "app_tenant"
  Faults = {}
INVARIANT NeverOversold
CHECK_DEADLOCK FALSE
