----------------------- MODULE MCLocalMessageMailbox -----------------------
(* Two clients; the slots and pages are numbers.                           *)
EXTENDS LocalMessageMailbox
CONSTANTS c1, c2
=============================================================================
