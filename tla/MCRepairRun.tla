----------------------------- MODULE MCRepairRun -----------------------------
(***************************************************************************)
(* The execution engine for TLC, and what the documents say of it that the *)
(* code does not do.                                                       *)
(***************************************************************************)
EXTENDS RepairRun

\* Bound: the profile and the handoff change under the runs of a restart plan only,
\* one of them at a time, before the process dies and while its proofs count.
Around == \/ profileOk /\ handoffOk
          \/ restart /\ boots = 1 /\ void = {} /\ (profileOk \/ handoffOk)

\* Bound: lab-proved rollouts are not mixed with others, only their proof may lapse, and
\* the second of them is given up before it sends anything.
Lab == {r \in Runs : book.run[r].kind = "lab"}
LabOnly == /\ \A r \in Runs : book.run[r].kind \in {"none", "lab"}
           /\ ~restart /\ boots = 1 /\ ~error /\ profileOk /\ handoffOk
           /\ \A s \in Slots : book.run[s[1]].kind = "lab" /\ s[1] > 1 =>
                Cur(book, s[1]).phase \in {"Capture", "Unknown"}
Scope == Around /\ (Lab # {} => LabOnly)

\* "Every new production Apply requires a separate consumed team approval"
\* (execution_panel.rs:1261): a change on a test host needs none, so approving one
\* is never answered by putting the target back into review.
RehearsalsNeedNoApproval ==
  [][(Approve /\ book.run[selected].kind = "rehearsal" /\ ~error')
       => Cur(book', selected).phase # "Review"]_vars
==============================================================================
