CONSTANTS
  NULL = NULL
  c1 = c1
  a1 = a1
  Contexts = {c1}
  Slots = {1}
  Uses <- Once
  Avatars = {a1}
  SendResults = {TRUE}
SPECIFICATION Spec
CHECK_DEADLOCK FALSE
INVARIANT
  LeaveExpected
