-------------------------- MODULE MCTrainingControl --------------------------
(* TrainingControl for TLC: two threads, one of them a former owner, and one request. *)
EXTENDS TrainingControl, TLC

CONSTANTS e1, e2, c1

MCExecutors == {e1, e2}
MCCalls     == {c1}
Symmetry    == Permutations(MCExecutors)

==============================================================================
