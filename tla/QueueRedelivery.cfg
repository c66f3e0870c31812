SPECIFICATION Spec
CONSTANTS
  b1 = b1
  Messages = {m1}
  Threads = {p1, p2}
  Backends = {b1}
  BackendOf <- OneProcess
  Nobody = Nobody
  NoFile = NoFile
  Apart = {"holders", "claims", "sender"}
  MaxStamp = 2
  MaxSends = 1
SYMMETRY ThreadSymmetry
INVARIANTS
  RedeliveryIsMarked
CHECK_DEADLOCK FALSE
