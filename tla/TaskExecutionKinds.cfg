SPECIFICATION Spec
CONSTANTS
  p1 = p1
  p2 = p2
  w1 = w1
  w2 = w2
  Tasks = {t1}
  Kinds = {"training", "evaluation", "conversion", "dataset", "workspace"}
  Procs = {p1, p2}
  Callers = {c1}
  Workers = {w1, w2}
  WorkerOf <- OneWorker
  NoWorker = NoWorker
  MaxAttempt = 1
  MaxBeat <- Three
SYMMETRY ThreadSymmetry
INVARIANTS
  RunningTaskHasRunningAttempt
  TerminalAgreement
PROPERTIES
  FinalStatesKept
  FinalizedByOwner
CHECK_DEADLOCK FALSE
