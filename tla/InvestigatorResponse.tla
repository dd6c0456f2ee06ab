-------------------------- MODULE InvestigatorResponse --------------------------
(***************************************************************************)
(* The one external response of the security investigator: the sessions of *)
(* a user are revoked at Microsoft Graph, on a signed proposal, once.      *)
(*                                                                         *)
(*   src/src/investigator/response.rs   proposals, dispatch, reconciliation *)
(*   src/src/investigator/service.rs    the two processes, stop and resume  *)
(*                                                                         *)
(* The main process proposes and reconciles, executor processes dispatch;  *)
(* they meet in one SQLite file only.  A dispatch is sealed in the file    *)
(* first, then sent without any lock, then written down in two statements; *)
(* the executor may die in between, and a reviewer may not wait for it.    *)
(***************************************************************************)
EXTENDS Naturals, FiniteSets

CONSTANTS
  Proposals, NoId,  \* proposal ids
  Goals,       \* a user to be signed out within a case: case_id and target_user_id
  NoGoal,
  CaseOf,      \* the case of a goal
  Needs,       \* signatures a goal asks for: 1, or 2 for critical users
  Users, NoUser,
  Leads,       \* may propose and execute: admin, incident_lead
  Reviewers,   \* may reconcile: admin, reviewer
  Signers,     \* have a configured signing key
  Findings,    \* what a reviewer may report
  Executors,   \* executor processes on this file
  MaxDaily     \* max_executions_per_day

ASSUME ResponseAssumption ==
  /\ NoId \notin Proposals /\ NoGoal \notin Goals /\ NoUser \notin Users
  /\ Leads \subseteq Users /\ Reviewers \subseteq Users /\ Signers \subseteq Users
  /\ DOMAIN CaseOf = Goals /\ Needs \in [Goals -> {1, 2}] /\ MaxDaily \in Nat
  /\ "none" \notin Findings

VARIABLES
  proposal,  \* investigator_response_proposals
  attempt,   \* investigator_response_attempts: its state, "none" without a row
  today,     \* proposals whose attempt was started today
  gate,      \* "open", "stopped", or "over": the policy's time window has ended
  void,      \* proposals whose grant is expired or names an old case version
  barred,    \* history: proposals the gate or their grant forbade to send before
             \* the last check had been passed for them
  signed,    \* the signatures given for each proposal
  asking,    \* main process: the proposal for which calls are being reserved
  exec,      \* executor processes
  posts,     \* history: revocation requests handed to the network, up to 2
  acked      \* history: proposals whose request Graph acknowledged

ledger == <<proposal, attempt, today>>
limits == <<gate, void, barred>>
vars   == <<ledger, limits, signed, asking, exec, posts, acked>>

Unwritten  == [state |-> "none", goal |-> NoGoal, by |-> NoUser, report |-> "none"]
Nobody     == [goal |-> NoGoal, by |-> NoUser]
Idle       == [pc |-> "idle", p |-> NoId, result |-> "none"]

Short(S)  == {p \in S : \A x \in Executors : exec[x].p = p => exec[x].pc # "cleared"}
InCase(c) == {p \in Proposals : proposal[p].state # "none" /\ CaseOf[proposal[p].goal] = c}

\* From now on these grants name what is no longer so.
Voided(S) == void' = void \cup S /\ barred' = barred \cup Short(S)

-----------------------------------------------------------------------------
(* The main process: propose, challenge and reconcile.                     *)

\* The calls a response may need are charged to the case first, which gives the case
\* a new version; the budget may run out on the way.
Reserve(u, g) ==
  /\ asking = Nobody /\ u \in Leads /\ gate = "open"
  /\ Voided(InCase(CaseOf[g]))
  /\ asking' \in {Nobody, [goal |-> g, by |-> u]}
  /\ UNCHANGED <<ledger, gate, signed, exec, posts, acked>>

\* The grant is written with the version the case has now.
Propose(p) ==
  /\ asking # Nobody /\ gate = "open" /\ proposal[p].state = "none"
  /\ proposal' = [proposal EXCEPT ![p] =
       [state |-> "proposed", goal |-> asking.goal, by |-> asking.by, report |-> "none"]]
  /\ asking' = Nobody
  /\ UNCHANGED <<attempt, today, limits, signed, exec, posts, acked>>

\* The gate closed meanwhile, or the process died.
DropRequest ==
  /\ asking # Nobody /\ asking' = Nobody
  /\ UNCHANGED <<ledger, limits, signed, exec, posts, acked>>

\* A challenge is given out, and somebody signs it elsewhere.
Challenge(p, u) ==
  /\ gate = "open" /\ proposal[p].state = "proposed" /\ p \notin void
  /\ u \in Signers /\ u \notin signed[p]
  /\ signed' = [signed EXCEPT ![p] = @ \cup {u}]
  /\ UNCHANGED <<ledger, limits, asking, exec, posts, acked>>

\* A person reports what they saw.  The row is read, then written unconditionally: all
\* that an executor can change in between is from one of these states to another.
Reconcile(p, u, finding) ==
  /\ u \in Reviewers /\ u # proposal[p].by
  /\ proposal[p].state \in {"dispatching", "accepted_unverified", "unknown_outcome"}
  /\ proposal' = [proposal EXCEPT ![p].state = "reconciled_human_report", ![p].report = finding]
  /\ UNCHANGED <<attempt, today, limits, signed, asking, exec, posts, acked>>

Stop ==
  /\ gate = "open" /\ gate' = "stopped" /\ barred' = barred \cup Short(Proposals)
  /\ UNCHANGED <<ledger, void, signed, asking, exec, posts, acked>>

Resume ==
  /\ gate = "stopped" /\ gate' = "open" /\ barred' = barred \cap void
  /\ UNCHANGED <<ledger, void, signed, asking, exec, posts, acked>>

-----------------------------------------------------------------------------
(* An executor process.                                                    *)

At(x, pc) == exec[x].pc = pc
Go(x, pc) == exec' = [exec EXCEPT ![x].pc = pc]

\* validate_grant and gate.
Allowed(p) == gate = "open" /\ p \notin void

\* Enough people who are not the proposer signed exactly this grant.
Approved(p) == Cardinality(signed[p] \ {proposal[p].by}) >= Needs[proposal[p].goal]

\* The checks before the transaction.
Begin(x, p, u) ==
  /\ At(x, "idle") /\ u \in Leads
  /\ proposal[p].state = "proposed" /\ proposal[p].by = u
  /\ Allowed(p) /\ Approved(p)
  /\ exec' = [exec EXCEPT ![x] = [pc |-> "checked", p |-> p, result |-> "none"]]
  /\ UNCHANGED <<ledger, limits, signed, asking, posts, acked>>

\* Mutant: an attempt is one of a proposal, not of a user in a case.
Unattempted_Proposal(p) == attempt[p] = "none"

\* A goal has one attempt, and so has a proposal: the table's unique keys.
Unattempted(p) == \A q \in Proposals : attempt[q] # "none" => proposal[q].goal # proposal[p].goal

SealHolds(p) ==
  /\ Allowed(p) /\ Cardinality(today) < MaxDaily
  /\ proposal[p].state = "proposed" /\ Unattempted(p)

\* One transaction before anything is sent.
Seal(x) ==
  LET p == exec[x].p IN
  /\ At(x, "checked") /\ SealHolds(p)
  /\ proposal' = [proposal EXCEPT ![p].state = "dispatching"]
  /\ attempt' = [attempt EXCEPT ![p] = "dispatching"]
  /\ today' = today \cup {p} /\ Go(x, "sealed")
  /\ UNCHANGED <<limits, signed, asking, posts, acked>>

SealRefused(x) ==
  /\ At(x, "checked") /\ ~SealHolds(exec[x].p)
  /\ exec' = [exec EXCEPT ![x] = Idle]
  /\ UNCHANGED <<ledger, limits, signed, asking, posts, acked>>

Answer(x, result) == exec' = [exec EXCEPT ![x].pc = "answered", ![x].result = result]

\* The audit line, the credential or the token cannot be had.
GiveUp(x) ==
  /\ At(x, "sealed") /\ Answer(x, "unknown_outcome")
  /\ UNCHANGED <<ledger, limits, signed, asking, posts, acked>>

\* Mutant: the seal is enough.
Preflight_Trusting(x) ==
  /\ At(x, "sealed") /\ Go(x, "cleared")
  /\ UNCHANGED <<ledger, limits, signed, asking, posts, acked>>

\* The last look at the gate and the grant; after it the lock is given back.
Preflight(x) ==
  /\ At(x, "sealed")
  /\ \/ Allowed(exec[x].p) /\ Go(x, "cleared")
     \/ ~Allowed(exec[x].p) /\ Answer(x, "unknown_outcome")
  /\ UNCHANGED <<ledger, limits, signed, asking, posts, acked>>

\* One request; whatever is not a clear acknowledgement is unknown.
Post(x) ==
  LET p == exec[x].p IN
  /\ At(x, "cleared")
  /\ posts' = [posts EXCEPT ![p] = IF @ < 2 THEN @ + 1 ELSE @]
  /\ \/ acked' = acked \cup {p} /\ Answer(x, "accepted_unverified")
     \/ acked' = acked /\ Answer(x, "unknown_outcome")
  /\ UNCHANGED <<ledger, limits, signed, asking>>

\* Mutant: what the executor learnt replaces whatever the row says.
RecordProposal_Anyway(x) ==
  /\ At(x, "recorded")
  /\ proposal' = [proposal EXCEPT ![exec[x].p].state = exec[x].result]
  /\ exec' = [exec EXCEPT ![x] = Idle]
  /\ UNCHANGED <<attempt, today, limits, signed, asking, posts, acked>>

\* Two statements, each where the row is still "dispatching".
RecordAttempt(x) ==
  LET p == exec[x].p IN
  /\ At(x, "answered") /\ Go(x, "recorded")
  /\ attempt' = IF attempt[p] = "dispatching"
                THEN [attempt EXCEPT ![p] = exec[x].result] ELSE attempt
  /\ UNCHANGED <<proposal, today, limits, signed, asking, posts, acked>>

RecordProposal(x) ==
  LET p == exec[x].p IN
  /\ At(x, "recorded") /\ exec' = [exec EXCEPT ![x] = Idle]
  /\ proposal' = IF proposal[p].state = "dispatching"
                 THEN [proposal EXCEPT ![p].state = exec[x].result] ELSE proposal
  /\ UNCHANGED <<attempt, today, limits, signed, asking, posts, acked>>

\* Mutant: a process that starts puts back what it finds half done.
Crash_PutsBack(x) ==
  LET p == exec[x].p IN
  /\ ~At(x, "idle") /\ exec' = [exec EXCEPT ![x] = Idle]
  /\ IF proposal[p].state = "dispatching"
     THEN /\ proposal' = [proposal EXCEPT ![p].state = "proposed"]
          /\ attempt' = [attempt EXCEPT ![p] = "none"]
     ELSE UNCHANGED <<proposal, attempt>>
  /\ UNCHANGED <<today, limits, signed, asking, posts, acked>>

\* Killed, or the file cannot be written: nothing is ever taken up again.
Crash(x) ==
  /\ ~At(x, "idle") /\ exec' = [exec EXCEPT ![x] = Idle]
  /\ UNCHANGED <<ledger, limits, signed, asking, posts, acked>>

-----------------------------------------------------------------------------
(* Time and the case.                                                      *)

\* Evidence, a decision or the worker's accounting gives the case a new version.
CaseAdvances(g) ==
  /\ Voided(InCase(CaseOf[g])) /\ void' # void
  /\ UNCHANGED <<ledger, gate, signed, asking, exec, posts, acked>>

Expire(p) ==
  /\ proposal[p].state # "none" /\ p \notin void /\ Voided({p})
  /\ UNCHANGED <<ledger, gate, signed, asking, exec, posts, acked>>

NextDay ==
  /\ today # {} /\ today' = {}
  /\ UNCHANGED <<proposal, attempt, limits, signed, asking, exec, posts, acked>>

PolicyEnds ==
  /\ gate # "over" /\ gate' = "over" /\ barred' = barred \cup Short(Proposals)
  /\ UNCHANGED <<ledger, void, signed, asking, exec, posts, acked>>

-----------------------------------------------------------------------------

Init ==
  /\ proposal = [p \in Proposals |-> Unwritten] /\ attempt = [p \in Proposals |-> "none"]
  /\ today = {} /\ gate = "open" /\ void = {} /\ barred = {} /\ signed = [p \in Proposals |-> {}]
  /\ asking = Nobody /\ exec = [x \in Executors |-> Idle]
  /\ posts = [p \in Proposals |-> 0] /\ acked = {}

Main ==
  \/ \E u \in Users, g \in Goals : Reserve(u, g)
  \/ \E p \in Proposals, u \in Users :
       \/ Challenge(p, u)
       \/ \E finding \in Findings : Reconcile(p, u, finding)
  \/ \E p \in Proposals : Propose(p)
  \/ DropRequest \/ Stop \/ Resume

Execute(x) ==
  \/ \E p \in Proposals, u \in Users : Begin(x, p, u)
  \/ Seal(x) \/ SealRefused(x) \/ GiveUp(x) \/ Preflight(x) \/ Post(x)
  \/ RecordAttempt(x) \/ RecordProposal(x) \/ Crash(x)

Outside ==
  \/ \E g \in Goals : CaseAdvances(g)
  \/ \E p \in Proposals : Expire(p)
  \/ NextDay \/ PolicyEnds

Next == Main \/ (\E x \in Executors : Execute(x)) \/ Outside

Spec == Init /\ [][Next]_vars

-----------------------------------------------------------------------------
(* Properties.                                                             *)

Results == {"accepted_unverified", "unknown_outcome"}
Written == {"dispatching", "reconciled_human_report"} \cup Results

\* Every variable holds a value of the type the tables and processes give it.
ResponseTypeOK ==
  /\ proposal \in [Proposals -> {Unwritten} \cup
       [state : {"proposed"} \cup Written, goal : Goals, by : Users,
        report : {"none"} \cup Findings]]
  /\ attempt \in [Proposals -> {"none", "dispatching"} \cup Results]
  /\ today \subseteq Proposals /\ gate \in {"open", "stopped", "over"}
  /\ void \subseteq Proposals /\ barred \subseteq Proposals /\ signed \in [Proposals -> SUBSET Users]
  /\ asking \in {Nobody} \cup [goal : Goals, by : Users]
  /\ exec \in [Executors -> {Idle} \cup
       [pc : {"checked", "sealed", "cleared"}, p : Proposals, result : {"none"}] \cup
       [pc : {"answered", "recorded"}, p : Proposals, result : Results]]
  /\ posts \in [Proposals -> 0..2] /\ acked \subseteq Proposals

\* The sessions of a user are revoked at most once for a case, whatever crashes, is
\* proposed again or is executed by two processes at once: an attempt is sealed
\* before it is sent and never taken up again.
RevokedOnce ==
  /\ \A p \in Proposals : posts[p] <= 1
  /\ \A p, q \in Proposals :
       (posts[p] > 0 /\ posts[q] > 0 /\ proposal[p].goal = proposal[q].goal) => p = q

\* The two tables tell the truth through every crash: nothing was sent for a proposal
\* they call open, an acceptance was given by Graph, and where the proposal names a
\* result the attempt names the same one.
LedgerIsTrue ==
  \A p \in Proposals :
    /\ posts[p] > 0 => proposal[p].state \in Written /\ attempt[p] # "none"
    /\ "accepted_unverified" \in {proposal[p].state, attempt[p]} => p \in acked
    /\ proposal[p].state \in Results => attempt[p] = proposal[p].state
    /\ attempt[p] = "unknown_outcome" => p \notin acked

\* What a reviewer has reported stands: the executor that answers later does not
\* overwrite it, and nobody replaces it.
ReportStands ==
  [][\A p \in Proposals : proposal[p].report # "none" => proposal'[p] = proposal[p]]_vars

\* A stop, an expiry, the end of the policy or a changed case reaches every dispatch
\* that is not already past its last check, sealed ones included.
StopReaches == [][\A p \in barred : posts'[p] = posts[p]]_vars
=============================================================================
