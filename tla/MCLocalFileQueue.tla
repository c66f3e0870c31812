------------------------ MODULE MCLocalFileQueue ------------------------
(* Worker threads of one process, which share a backend and its lock.    *)
EXTENDS LocalFileQueue, TLC

CONSTANTS b1

OneProcess == [p \in Threads |-> b1]
Symmetry == Permutations(Threads) \cup Permutations(Messages)
ThreadSymmetry == Permutations(Threads)
=========================================================================
