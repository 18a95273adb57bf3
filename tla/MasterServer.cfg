CONSTANTS
  NULL = NULL
  Accounts = {n1, n2}
  Ctx = {c1, c2}
  PoolMax = 2
  LoginSids = {l1, l2}
  GateSids = {g1, g2}
  Gates <- MCGates
  GateMax <- MCGateMax
  ServerOf <- MCServerOf
  Regions <- MCRegions
  Channels <- MCChannels
  InitialRegion <- MCInitialRegion
  AVATARCOUNT_MAX = 1
  SendResults = {TRUE}
SPECIFICATION Spec
SYMMETRY Symmetry
CONSTRAINT UpToOverrun
CHECK_DEADLOCK FALSE
INVARIANTS
  TypeOK
  Bookkeeping
  ServerListsExact
  AnswersExpected
  GateSessionHeld
