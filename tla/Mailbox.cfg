SPECIFICATION Spec
CONSTANTS
  Clients = {c1, c2}
  NoClient = none
  c1 = c1
  c2 = c2
  Slots = {1}
  Pages = {1}
  MaxCalls = 2
  MaxEpoch = 2
CHECK_DEADLOCK FALSE
INVARIANTS TypeOK OwnAnswer PagesInUse
PROPERTIES ResponseStands SlotsComeBack
