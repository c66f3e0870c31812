---------------------------- MODULE Publication ----------------------------
(***************************************************************************)
(* What the publication of converted model files promises, whoever carries *)
(* it out: files appear under their final name at once and complete, the   *)
(* conversion succeeds only together with the registration of those files, *)
(* and files are withdrawn only once the conversion has ended without.     *)
(***************************************************************************)
EXTENDS Naturals

CONSTANT Images   \* contents the files may have; 0 is no content

VARIABLES
  outcome,     \* how the conversion ended, or "running"
  final,       \* content under the final name, 0 for none
  registered   \* content the model builds were registered for, 0 for none

pubvars == <<outcome, final, registered>>

Open == outcome = "running" /\ final = 0 /\ registered = 0

\* Files come at once; a straggler may bring them after the end.
Appear ==
  /\ final = 0 /\ outcome # "succeeded"
  /\ final' \in Images
  /\ UNCHANGED <<outcome, registered>>

Succeed ==
  /\ outcome = "running" /\ final # 0
  /\ outcome' = "succeeded"
  /\ registered' = final
  /\ UNCHANGED final

End ==
  /\ outcome = "running"
  /\ outcome' \in {"failed", "timed_out", "cancelled"}
  /\ UNCHANGED <<final, registered>>

Withdraw ==
  /\ outcome \in {"failed", "timed_out", "cancelled"}
  /\ final' = 0
  /\ UNCHANGED <<outcome, registered>>

PubNext == Appear \/ Succeed \/ End \/ Withdraw

PubSpec == Open /\ [][PubNext]_pubvars
=============================================================================
