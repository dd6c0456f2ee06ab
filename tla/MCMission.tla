------------------------------- MODULE MCMission -------------------------------
(* A command, then a step that observes or leaves it to the operator.      *)
EXTENDS Mission

MCKinds == [s \in Steps |-> IF s = 1 THEN {"command"} ELSE {"observe", "operator"}]

================================================================================
