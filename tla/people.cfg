SPECIFICATION MCSpec
CONSTANTS
  w1 = w1
  w2 = w2
  w3 = w3
  ann = ann
  bob = bob
  e1 = e1
  e2 = e2
  None = None
  Gone = Gone
  Nobody = Nobody
  NoWallet = NoWallet
  NoEvent = NoEvent
  Emails = {ann, bob}
  Wallets = {w1}
  Legacy = {}
  Procs = {p1, p2}
  CrashPoints = {"issued", "redeemed"}
  ChainFaults = {"rpc", "linkedFirst"}
  ChainCrashPoints = {"created"}
  MaxSigned = 2
  MaxGrants = 1
  MaxScreens = 2
  ReviewCrashPoints = {"claimed"}
  MaxSubmits = 1
  MaxDecisions = 2
  MaxCodes = 2
  MaxNonces = 2
  Docs = {d1, d2, d3}
  OldDocs = {d1, d2}
  Unowned = {d2}
  Files = {f1, f2}
  ChainWallets <- MCChainWallets
  Primary <- MCPrimary
  Persons = {ann, bob}
  ScreenWallets <- MCScreenWallets
  Home <- MCHome
  Issuers = {"i1"}
  Events = {e1, e2}
  Verdict <- MCVerdict
  FileFaults = {"disk", "db", "audit", "crash"}
  MaxReads = 1
INVARIANTS AllTyped IdentitiesAgree RevocationReaches FreshWasRead DecisionsCount DocumentsAreKept
PROPERTIES  CodesCountOnce WalletsStay
CHECK_DEADLOCK FALSE
