CONSTANTS
  NULL = NULL
  c1 = c1
  a1 = a1
  Contexts = {c1, c2}
  Slots = {1, 2}
  Uses <- FirstTwice
  Avatars = {a1, a2}
  SendResults = {TRUE, FALSE}
SPECIFICATION FairSpec
CONSTRAINT FirstHasC1A1
CHECK_DEADLOCK FALSE
INVARIANTS
  TypeOK
  PlayersAccounted
  IndexesSound
  OwnPlayer
  EnteringIsAnswered
PROPERTY
  AbandonedPlayersLeave
