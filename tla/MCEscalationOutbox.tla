-------------------------- MODULE MCEscalationOutbox --------------------------
(***************************************************************************)
(* A small outbox for TLC; rows, destinations and workers are alike.       *)
(***************************************************************************)
EXTENDS EscalationOutbox, TLC

\* Bound: the faults happen to one row.
OneFault == Cardinality(astray) <= 1

OutboxSymmetry == Permutations(Entries) \cup Permutations(Configs) \cup Permutations(Workers)
=============================================================================
