CONSTANTS
  NULL = NULL
  Contexts = {c1, c2}
  Sessions = {s1, s2}
  Accounts = {a1, a2}
  Names = {n1, n2}
  AvatarCountMax = 2
  MaxEvents <- OnceEach
  Outcomes = {"done", "failed"}
  AllocFailures = {NULL}
  SendResults = {TRUE}
  Conversions = {TRUE, FALSE}
SPECIFICATION Spec
CONSTRAINT Bounded
SYMMETRY Symmetry
INVARIANTS
  TypeOK
  ContextsExact
  AnswersExpected
  WaitingIsAnswered
  AvatarIndexSound
  PlaysOwnAvatar
