SPECIFICATION Spec
CONSTANTS
  p1 = p1
  p2 = p2
  Procs = {p1, p2}
  MaxLease = 4
  MaxStalls = 1
SYMMETRY Symmetry
CHECK_DEADLOCK FALSE
INVARIANTS TypeOK PublishedHasFiles CancelledHasNoFiles RecoverableFacts
PROPERTIES ImplementsPublication
