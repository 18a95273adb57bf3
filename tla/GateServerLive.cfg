CONSTANTS
  NULL = NULL
  Accounts = {n1}
  Conns = {k1, k2}
  Sessions = {s1, s2}
  Checked = {s1}
  SessionMax = 1
  TempMax = 1
  SendResults = {TRUE}
  MaxUses = 2
SPECIFICATION FairSpec
CONSTRAINT Bounded
CHECK_DEADLOCK FALSE
PROPERTIES
  AccountsFreed
  EndedConnectionsReturn
