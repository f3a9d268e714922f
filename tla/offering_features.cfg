SPECIFICATION MCSpec
CONSTANTS
  ann = ann
  bob = bob
  w1 = w1
  w2 = w2
  w3 = w3
  m1 = m1
  x1 = x1
  x2 = x2
  s1 = s1
  s2 = s2
  o1 = o1
  o2 = o2
  o3 = o3
  NoOrder = NoOrder
  NoCap = NoCap
  NoTx = NoTx
  NoLimit = NoLimit
  NoPerson = NoPerson
  NoManager = NoManager
  Pots = {d1}
  Wallets = {w1, w2, w3}
  Persons = {ann, bob}
  Owner <- MCOwner
  Primary <- MCPrimary
  Issued <- MCIssued
  Amounts = {5}
  Procs = {p1, p2}
  Role = "owner"
  Roles = {"owner", "app_tenant"}
  Faults = {"db"}
  CrashPoints = {"tally"}
  Txs = {x1, x2}
  From <- MCFrom
  To <- MCTo
  Size <- MCSize
  BidWallets = {w1, w3}
  Sellers = {s1, s2}
  Terms <- MCTerms
  Proposals = {1}
  Managers = {m1}
  Names <- MCNames
  Shares <- MCShares
  Orders = {o1, o2, o3}
  WalletOf <- MCWalletOf
  PersonOf <- MCOwner
  Want <- MCWant
  TokensTotal = 4
  Cap <- MCCap
  OrderFaults = {"db", "checkout", "send", "decline", "refund"}
  MaxTerms = 2
  MaxTrades = 1
INVARIANTS AllTyped PotIsPaidOut ProRata VoteCounts ReservationsFit
PROPERTIES KeepsPromise SalesAreSound PassedIsApplied
CHECK_DEADLOCK FALSE
