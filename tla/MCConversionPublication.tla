---------------------- MODULE MCConversionPublication ----------------------
(* Two executors and a bounded number of deliveries of one conversion.     *)
EXTENDS ConversionPublication, TLC
CONSTANTS p1, p2
Symmetry == Permutations({p1, p2})
=============================================================================
