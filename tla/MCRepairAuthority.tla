-------------------------- MODULE MCRepairAuthority --------------------------
(***************************************************************************)
(* A small team for TLC.  Ann holds two API tokens, as the tests of        *)
(* team_server.rs do; Dan signs in with OIDC and administers; Vic may only *)
(* look.                                                                   *)
(***************************************************************************)
EXTENDS RepairAuthority, TLC

CONSTANTS ann, ann2, dan, vic

Team    == (ann :> "Ann") @@ (ann2 :> "Ann") @@ (dan :> "Dan") @@ (vic :> "Vic")
MCRole  == (ann :> "operator") @@ (ann2 :> "operator")
            @@ (dan :> "admin") @@ (vic :> "viewer")
MCOwner == [k \in Tokens |-> Team[k]]
Roles   == [k \in Tokens |-> MCRole[k]]

TwoRuns == {[run |-> 1, tgt |-> 1, proof |-> 2], [run |-> 3, tgt |-> 1, proof |-> 4]}

RequestSymmetry == Permutations(Requests)
=============================================================================
