--------------------------- MODULE MCQueueOutbox ---------------------------
(* Two dispatchers, one that claims single rows and one that claims two at *)
(* a time, a message that can be sent and one that is always refused.      *)
EXTENDS QueueOutbox, TLC
CONSTANTS d1, d2
MCBatch == d1 :> 1 @@ d2 :> 2
=============================================================================
