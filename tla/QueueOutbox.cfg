SPECIFICATION Spec
CONSTANTS
  Messages = {m, p}
  Poison = {p}
  Dispatchers = {d1, d2}
  NoOwner = none
  d1 = d1
  d2 = d2
  Batch <- MCBatch
  MaxDown = 1
INVARIANTS TypeOK DispatchedIsQueued
PROPERTIES DispatchedStays LeaseInForceStands EventuallyDispatched
