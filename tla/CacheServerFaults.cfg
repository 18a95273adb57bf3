CONSTANTS
  NULL = NULL
  Contexts = {c1}
  Sessions = {s1}
  Accounts = {a1}
  Names = {n1}
  AvatarCountMax = 2
  MaxEvents <- Again
  Outcomes = {"done", "failed", "unreported", "badrow"}
  AllocFailures = {NULL, "GETAVATARLIST", "AVATARCREATE", "AVATARSELECTDATA", "AVATARENTERREGION", "AVATARLOGOUT", "AVATARFINALIZE"}
  SendResults = {TRUE, FALSE}
  Conversions = {TRUE, FALSE}
SPECIFICATION FairSpec
CONSTRAINT Bounded
INVARIANTS
  ContextsExact
PROPERTIES
  LoggedOutPlayersLeave
