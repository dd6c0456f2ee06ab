------------------------ MODULE MCInvestigatorResponse ------------------------
(***************************************************************************)
(* A small team for TLC: one case with a tier-0 user and an ordinary one,   *)
(* a lead who proposes, and an administrator who may do everything.        *)
(***************************************************************************)
EXTENDS InvestigatorResponse, TLC

CONSTANTS lee, ada, rob, eve, sam

MCCaseOf == [g \in Goals |-> "case"]
MCNeeds  == [g \in Goals |-> IF g = eve THEN 2 ELSE 1]

ResponseSymmetry == Permutations(Executors)
=============================================================================
