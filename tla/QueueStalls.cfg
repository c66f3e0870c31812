SPECIFICATION Spec
CONSTANTS
  b1 = b1
  Messages = {m1}
  Threads = {p1, p2}
  Backends = {b1}
  BackendOf <- OneProcess
  Nobody = Nobody
  NoFile = NoFile
  Apart = {}
  MaxStamp = 3
  MaxSends = 2
SYMMETRY ThreadSymmetry
INVARIANTS
  TypeOK
  CountsWithinReach
PROPERTIES
  NothingLost
CHECK_DEADLOCK FALSE
