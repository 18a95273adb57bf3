CONSTANTS
  NULL = NULL
  Accounts = {n1}
  Ctx = {c1, c2}
  PoolMax = 1
  LoginSids = {l1, l2}
  GateSids = {g1}
  Gates <- MCGates
  GateMax <- MCGateMax
  ServerOf <- MCServerOf
  Regions <- MCRegions
  Channels <- MCChannels
  InitialRegion <- MCInitialRegion
  AVATARCOUNT_MAX = 1
  SendResults = {TRUE, FALSE}
SPECIFICATION Spec
SYMMETRY Symmetry
CONSTRAINT FewLost
CHECK_DEADLOCK FALSE
INVARIANTS
  LoginListExact
  LoginClientsAnswered
  QueuedPlayersReleased
  NobodyWaitsInVain
