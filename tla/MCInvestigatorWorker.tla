------------------------- MODULE MCInvestigatorWorker -------------------------
(***************************************************************************)
(* The service and one "worker-once" process on two jobs for TLC.          *)
(***************************************************************************)
EXTENDS InvestigatorWorker

CONSTANTS alert, probe, serve, once

\* Bound: one job at a time, of the service's own or of a person.
OneJob == Cardinality({j \in Jobs : job[j].state # "none"}) <= 1
=============================================================================
