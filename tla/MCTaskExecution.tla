------------------------- MODULE MCTaskExecution -------------------------
(* One task of any kind, worker threads that may share their worker_id.  *)
EXTENDS TaskExecution, TLC

CONSTANTS p1, p2, w1, w2

OneWorker == [p \in Procs |-> w1]

(* Leases and refreshes of the message of each attempt.                  *)
One == <<1>>
Two == <<2>>
Three == <<3>>
TwoThenOne == <<2, 1>>

ThreadSymmetry == Permutations(Procs)
==========================================================================
