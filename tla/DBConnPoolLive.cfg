CONSTANTS
  NULL = NULL
  list1 = list1
  save1 = save1
  save2 = save2
  save3 = save3
  logout1 = logout1
  final1 = final1
  Workers = {w1, w2}
  Events = {list1, save1}
  EventIds <- MCEventIds
  Sessions <- MCSessions
  EventIdOf <- MCEventIdOf
  SessionOf <- MCSessionOf
  Returnable <- MCReturnable
  QueryIds = {"GETAVATARLIST"}
SPECIFICATION FairSpec
PROPERTIES
  EventsFinish
  StopReturns
