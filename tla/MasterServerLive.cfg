CONSTANTS
  NULL = NULL
  Accounts = {n1, n2}
  Ctx = {c1, c2}
  PoolMax = 2
  LoginSids = {l1, l2}
  GateSids = {g1}
  Gates <- MCGates
  GateMax <- MCGateMax
  ServerOf <- MCServerOf
  Regions <- MCRegions
  Channels <- MCChannels
  InitialRegion <- MCInitialRegion
  AVATARCOUNT_MAX = 1
  SendResults = {TRUE}
SPECIFICATION FairSpec
CHECK_DEADLOCK FALSE
PROPERTIES
  FinalizingPlayersLeave
  ShutdownCompletes
