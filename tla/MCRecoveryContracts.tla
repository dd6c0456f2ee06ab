------------------------- MODULE MCRecoveryContracts -------------------------
(***************************************************************************)
(* Recovery contracts for TLC.                                             *)
(***************************************************************************)
EXTENDS RecoveryContracts

\* Bounds: once the marker is set nothing is loaded or saved any more; three operations
\* are with a renewal among them, findings alone come in twos; and when the window has
\* failed after the last operation, the agent makes no further pass.
Scope ==
  /\ ~blocked
  /\ ops = MaxOps => used # {}
  /\ ops = MaxOps /\ error => proc["agent"].pc = "off"

==============================================================================
