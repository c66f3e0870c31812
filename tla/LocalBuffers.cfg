SPECIFICATION Spec
CONSTANTS
  Owners = {p, q}
  Readers = {r}
  p = p
  q = q
  r = r
  MaxOrder = 1
  Roots = 1
  HugeReserve = FALSE
  MaxTokens = 2
  MaxEpoch = 2
CHECK_DEADLOCK FALSE
INVARIANTS TypeOK ViewsApart RestartRebuilds NoFalseShortage
PROPERTIES ExtentsComeBack
