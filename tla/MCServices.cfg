CONSTANTS
  Mints = {"usdc", "usdt"}
  All = "all"
  Sync = "sync"
  Scripts = {"script"}
  ScriptMints = {"usdt"}
  Limit = 1
  MaxPages = 2
  MaxSigs = 2
  Processes = {"p1", "p2"}
  Calls <- SomeCalls
  MaxRunFaults = 1
  Inflows = {1, 2}
  Outflows = {3, 4}
  ScriptLegs = {1, 3}
  Data <- LegData
  Books <- LegBooks
  Pairers = {"p1", "p2"}
  MaxSeized = 1
  Wallet = 2
  Owners = {1, 2, 3}
  TokenAccounts = {1, 2, 3}
  Amounts = {0, 20, 105}
  Decimals = {0, 3}
  Prices = {25}
  Principals <- DepositAmounts
  BasisPoints = 150
  FlatFee = 10000
  Threshold = 250000
  Cap = 200000
  Emails = {"e1"}
  Workers = {"w1", "w2"}
  GiveUpAfter = 2
  MaxSubscriptions = 2
  MaxExpired = 1
  MaxMailFaults = 1
  Issues = {"i1", "i2", "i3"}
  Checks = {"k1", "k2"}
  MaxCodeAttempts = 2
  Phones = {"p1", "p2"}
  Identities <- SomeIdentities
  Starts = {c1, c2}
  Links = {l1, l2}
  MaxPhoneAttempts = 1
  Members <- SomeMembers
  Codes = {"x", "y"}
  Asks = {q1, q2}
  Binds = {b1, b2}
  MaxTries = 1
  Tokens = {"t1", "t2"}
  WithKid = {"t1"}
  MaxVersions = 2
  MaxFetches = 3
  OrderRequests = {"r1", "r2", "r3"}
  OrderKeys = {"k1", "k2"}
  MaxOrderFaults = 2
  Absent = Absent
SPECIFICATION Spec
SYMMETRY Symmetry
CHECK_DEADLOCK FALSE
INVARIANTS
  TypeOK
  NoSilentLoss
  RunsSound
  PairsSound
  MovementExact
  SmallestGross
  WelcomeAccounted
  CodesSound
  PhonesSound
  InvitationsStick
  KeyServed
  OneOrderPerKey
