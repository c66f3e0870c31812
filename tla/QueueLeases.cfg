SPECIFICATION Spec
CONSTANTS
  b1 = b1
  Messages = {m1, m2}
  Threads = {p1, p2}
  Backends = {b1}
  BackendOf <- OneProcess
  Nobody = Nobody
  NoFile = NoFile
  Apart = {"holders", "claims", "sender"}
  MaxStamp = 2
  MaxSends = 2
SYMMETRY Symmetry
INVARIANTS
  OneCopy
  LiveLeaseStands
PROPERTIES
  NothingLost
  FinishedByHolder
  DeliveredInOrder
CHECK_DEADLOCK FALSE
