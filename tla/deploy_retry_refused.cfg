SPECIFICATION MCSpec
CONSTANTS
  a1 = a1
  a2 = a2
  a3 = a3
  a4 = a4
  o1 = o1
  o2 = o2
  o3 = o3
  i1 = i1
  i2 = i2
  w1 = w1
  w2 = w2
  w3 = w3
  ann = ann
  bob = bob
  NoAdmin = NoAdmin
  NoRequest = NoRequest
  NoEmail = NoEmail
  NoManager = NoManager
  NoSpv = NoSpv
  NoSymbol = NoSymbol
  NoIssuer = NoIssuer
  NoOffering = NoOffering
  Nobody = Nobody
  NoCase = NoCase
  NoWallet = NoWallet
  Admins = {a1, a2, a3, a4}
  Entitled <- MCEntitled
  Requests = {r1}
  Procs = {p1, p2, p3}
  Thresholds = {0, 1, 2}
  Faults = {"send", "lostReply", "wait", "db", "revert"}
  CrashPoints = {"addApproval", "send", "wait", "writeExecuted", "writeFailed", "writeRejected"}
  MaxWrites = 2
  TeamAdmins = {a1, a2}
  Spare = {e1}
  Managers = {m1}
  SpvManagers = {s1, s2}
  TeamProcs = {"p1", "p2"}
  StaffCrashPoints = {}
  MaxStaffCalls = 3
  Offerings = {o1, o2, o3}
  Issuer <- MCIssuer
  Symbols = {s1}
  DeployProcs = {"p1", "p2"}
  DeployCrashPoints = {"recorded"}
  MaxDeployCalls = 6
  Cases = {"c1"}
  Wallets = {w1, w2, w3}
  Owner <- MCOwner
  CaseProcs = {"p1", "p2"}
  CaseCrashPoints = {"register", "freeze", "read", "submit"}
  MaxHeld = 1
  MaxRecoveries = 2
  n1 = n1
  n2 = n2
  None = None
  Roles = {"agent", "deployer"}
  Instances = {n1, n2}
  Home <- MCHome
  Senders = {"p1", "p2", "p3"}
  SendFaults = {}
  MaxSends = 1
INVARIANT RetryIsAccepted
CHECK_DEADLOCK FALSE
