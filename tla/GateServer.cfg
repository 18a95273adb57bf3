CONSTANTS
  NULL = NULL
  Accounts = {n1, n2}
  Conns = {k1, k2}
  Sessions = {s1, s2}
  Checked = {s1}
  SessionMax = 1
  TempMax = 1
  SendResults = {TRUE, FALSE}
  MaxUses = 2
SPECIFICATION Spec
SYMMETRY Symmetry
CONSTRAINT Bounded
CHECK_DEADLOCK FALSE
INVARIANTS
  TypeOK
  SessionBookkeeping
  ConnectionThere
  OwnClient
  GrantedSessionsExist
  AbandonedSessionsEnd
