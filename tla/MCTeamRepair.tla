----------------------------- MODULE MCTeamRepair -----------------------------
(***************************************************************************)
(* The client and the server for TLC: Ann works at this client and holds   *)
(* two tokens, Ben decides and administers, Dan decides through OIDC.      *)
(***************************************************************************)
EXTENDS TeamRepair, TLC

CONSTANTS ann, ann2, ben, dan

Team    == (ann :> "Ann") @@ (ann2 :> "Ann") @@ (ben :> "Ben") @@ (dan :> "Dan")
Ranks   == (ann :> "operator") @@ (ann2 :> "operator") @@ (ben :> "admin") @@ (dan :> "operator")
MCOwner == [k \in Tokens |-> Team[k]]
MCRole  == [k \in Tokens |-> Ranks[k]]

\* Bound: at the second target everything goes well, so that its own approval is what
\* matters there; failures, a crash, a second change of identity, lapsing and withdrawn
\* approvals, denials and lost answers meet the pilot.  After the crash no run is opened,
\* the handoff changes neither beside the crash nor beside another identity, and a save
\* does not fail beside that identity either.  Two approvals or tokens at a time are
\* past a deadline or withdrawn, one beside that identity or a failed save.
Quiet == /\ boots = 1 /\ gen = 2 /\ ~error /\ handoffOk /\ aged = {} /\ void = {}
         /\ due = {} /\ stale = {} /\ barred = {} /\ worker.res # "error"
         /\ \A q \in Approvals : approval[q].state # "denied"
Pilot == \A q \in Approvals : S!Exists(q) \/ worker.req = q => q = (CHOOSE a \in Approvals : TRUE)
After == boots = 2 => ~Unfinished(book, 1) /\ (gen = MaxGen => token # NoToken)
Apart == (~handoffOk => boots = 1 /\ gen < MaxGen) /\ (error /\ gen = MaxGen => boots = 2)
Few   == Cardinality(lapsed) + Cardinality(barred) + Cardinality(due) + Cardinality(stale)
           <= IF gen = MaxGen \/ error THEN 1 ELSE 2
Scope == After /\ Apart /\ Few /\ IF book.run[1].cur = 2 THEN Quiet ELSE Pilot
=============================================================================
