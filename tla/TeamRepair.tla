------------------------------ MODULE TeamRepair ------------------------------
(***************************************************************************)
(* The client and the team server together.  In a team-controlled journal  *)
(* a production change needs an approval that somebody else gave and that  *)
(* the server lets the client use up once, immediately before the change.  *)
(*                                                                         *)
(*   src/src/app/execution_panel.rs  the repair worker, its results and    *)
(*                                   the buttons that start it             *)
(*   src/src/app/team_panel.rs       the identity the client signs in with *)
(*   src/src/team_client.rs          one HTTP request, never retried       *)
(*                                                                         *)
(* RepairRun is the client, S (RepairAuthority) the server.  A worker      *)
(* thread makes one call: it may never arrive, or its answer may be lost   *)
(* after the server acted.  Nobody but the client of this model asks for   *)
(* approvals; others decide, list, revoke, and the deadlines run.          *)
(***************************************************************************)
EXTENDS RepairRun, FiniteSets

CONSTANTS
  Tokens, NoToken, Owner, Role, Oidc,  \* as in RepairAuthority
  MaxRows, MaxOutcomes,
  Mine,      \* the tokens the operator of this client can sign in with
  Others,    \* the tokens of everybody else
  MaxGen     \* bound: how often the identity changes

ASSUME TeamAssumption ==
  /\ NoToken \notin Tokens /\ Oidc \subseteq Tokens /\ DOMAIN Owner = Tokens
  /\ Role \in [Tokens -> {"viewer", "operator", "admin"}]
  /\ MaxRows \in Nat /\ MaxOutcomes \in Nat
  /\ Mine \subseteq Tokens /\ Others \subseteq Tokens /\ MaxGen \in Nat \ {0}

VARIABLES
  token,     \* TeamState.token: who is signed in, in memory only
  view,      \* ExecutionState.repair_approval and its generation
  worker,    \* ExecutionState.repair_worker and the answer it will deliver
  approval, outcome, audit, lapsed, barred, due, stale

teamVars   == <<token, view, worker>>
serverVars == <<approval, outcome, audit, lapsed, barred, due, stale>>

\* A result event is new in every process lifetime and for every target.
EventNo(s, boot) == ((boot - 1) * MaxRuns + s[1] - 1) * NTargets + s[2]

\* A production run cites an earlier rehearsal, a lab run its own receipts.
Cited == {b \in [run : Runs, tgt : Targets, proof : Runs] :
            \/ "lab" \in Kinds /\ b.proof = b.run
            \/ "production" \in Kinds /\ b.proof < b.run}

S == INSTANCE RepairAuthority WITH
       Requests <- Approvals, NoRequest <- NoApproval, Results <- Settled,
       Bindings <- Cited,
       EventIds <- {EventNo(s, n) : s \in Slots, n \in 1..MaxBoots}

allVars == <<vars, teamVars, serverVars>>

NoView   == [req |-> NoApproval, binding |-> NoReceipt.binding, state |-> "none", gen |-> 0]
NoWorker == [kind |-> "none", gen |-> 0, by |-> NoToken, binding |-> NoReceipt.binding,
             req |-> NoApproval, slot |-> <<0, 0>>, res |-> "none", state |-> "none"]

Calling(kind) == [NoWorker EXCEPT !.kind = kind, !.gen = gen, !.by = token, !.res = "waiting"]

Busy == job # NoJob \/ health # "idle" \/ SelectedOpen

\* The event a settled target reports, as the server sees it.
EventOf(s) ==
  [id |-> EventNo(s, book.tgt[s].event.boot), approval |-> book.tgt[s].approval,
   run |-> s[1], tgt |-> s[2], result |-> book.tgt[s].event.result]

-----------------------------------------------------------------------------
(* The operator's buttons; each starts a worker, and there is one at most. *)

Idle == worker = NoWorker /\ token # NoToken

\* "Enable team-controlled repair for future runs".
EnableTeam ==
  /\ ~book.team /\ ~Busy /\ Idle
  /\ worker' = Calling("mode")
  /\ UNCHANGED <<vars, token, view, serverVars>>

AwaitsTeam ==
  /\ SelectedOpen /\ Cur(book, selected).phase = "Review" /\ TeamChange(book, selected)
  /\ Bindable(book, selected)

\* "Request team approval", under a request id never used before.
RequestApproval ==
  /\ AwaitsTeam /\ reviewed /\ Idle
  /\ \E q \in Approvals :
       /\ ~S!Exists(q)
       /\ worker' = [Calling("request") EXCEPT !.req = q, !.binding = Binding(book, selected)]
  /\ view' = NoView
  /\ UNCHANGED <<vars, token, serverVars>>

\* "Check team decision".
CheckDecision ==
  /\ AwaitsTeam /\ Idle /\ view # NoView
  /\ view.binding.run = selected /\ view.binding.tgt = book.run[selected].cur
  /\ worker' = [Calling("check") EXCEPT !.req = view.req, !.binding = Binding(book, selected)]
  /\ UNCHANGED <<vars, token, view, serverVars>>

\* Mutant: the change is sent with the request to consume, not with its answer.
ConsumeApproval_Optimistic ==
  /\ AwaitsTeam /\ reviewed /\ Idle
  /\ view.state = "approved" /\ view.binding = Binding(book, selected) /\ view.gen = gen
  /\ worker' = [Calling("consume") EXCEPT !.req = view.req, !.binding = view.binding]
  /\ LET b == SetPhase(book, selected, "Apply") IN
       Drive([Now EXCEPT !.book = b, !.receipt =
                [binding |-> view.binding, gen |-> gen, approval |-> view.req]], b, selected)
  /\ UNCHANGED <<selected, gen, ghosts, envVars, token, view, serverVars>>

\* "Consume team approval and apply": the target stays in review for now.
ConsumeApproval ==
  /\ AwaitsTeam /\ reviewed /\ Idle
  /\ view.state = "approved" /\ view.binding = Binding(book, selected) /\ view.gen = gen
  /\ worker' = [Calling("consume") EXCEPT !.req = view.req, !.binding = view.binding]
  /\ UNCHANGED <<vars, token, view, serverVars>>

\* Mutant: an outcome counts as delivered once it is sent.
SendOutcome_Optimistic(s) ==
  /\ book.tgt[s].event # NoEvent /\ ~book.tgt[s].delivered /\ book.run[s[1]].team
  /\ worker = NoWorker /\ token # NoToken
  /\ book' = [book EXCEPT !.tgt[s].delivered = TRUE]
  /\ SaveOk(book')
  /\ worker' = [Calling("outcome") EXCEPT !.slot = s]
  /\ UNCHANGED <<uiVars, workVars, envVars, token, view, serverVars>>

\* "Send outcome": the journal is saved once more before anything is sent.
SendOutcome(s) ==
  /\ book.tgt[s].event # NoEvent /\ ~book.tgt[s].delivered /\ book.run[s[1]].team
  /\ worker = NoWorker /\ ~error
  /\ \/ SaveOk(book)
        /\ worker' = IF token = NoToken THEN NoWorker
                     ELSE [Calling("outcome") EXCEPT !.slot = s]
     \/ SaveFails(disk) /\ UNCHANGED worker
  /\ UNCHANGED <<book, uiVars, workVars, envVars, token, view, serverVars>>

\* Another token is signed in or typed in, or the field is emptied.
ChangeIdentity ==
  /\ gen < MaxGen /\ gen' = gen + 1
  /\ \E k \in Mine \cup {NoToken} : k # token /\ token' = k
  /\ UNCHANGED <<journalVars, selected, reviewed, receipt, workVars, envVars, view, worker,
                 serverVars>>

-----------------------------------------------------------------------------
(* The worker's call.                                                      *)

Answer(res, state) == worker' = [worker EXCEPT !.res = res, !.state = state]

\* The server acted, the answer arrives, or is lost on its way back.
Acted(state) == Answer("done", state) \/ Answer("error", "none")

\* Refused, unreachable, or never arrived.
CallFails ==
  /\ worker.res = "waiting" /\ Answer("error", "none") /\ UNCHANGED serverVars

CallMode ==
  /\ worker.kind = "mode" /\ worker.res = "waiting" /\ S!Authorized(worker.by)
  /\ Answer("done", "none") /\ UNCHANGED serverVars

CallRequest ==
  /\ worker.kind = "request" /\ worker.res = "waiting"
  /\ S!Create(worker.by, worker.req, worker.binding) /\ Acted("pending")

\* The list that answers a check writes off every lapsed approval on it.
CallCheck ==
  LET q == worker.req
      L == {r \in S!Visible(worker.by) : S!Lapsing(r)} IN
  /\ worker.kind = "check" /\ worker.res = "waiting" /\ S!Authorized(worker.by)
  /\ IF L = {} THEN UNCHANGED serverVars ELSE S!Expire(L)
  /\ IF q \in S!Visible(worker.by) THEN Acted(approval'[q].state) ELSE Answer("error", "none")

CallConsume ==
  LET q == worker.req IN
  /\ worker.kind = "consume" /\ worker.res = "waiting"
  /\ S!Consume(worker.by, q, worker.binding)
  /\ IF approval'[q].state = "consumed" THEN Acted("consumed") ELSE Answer("error", "none")

\* A repeated event is acknowledged again, and recorded once.
CallOutcome ==
  LET e == EventOf(worker.slot)
      q == e.approval IN
  /\ worker.kind = "outcome" /\ worker.res = "waiting"
  /\ \/ S!Report(worker.by, e) /\ Acted("none")
     \/ /\ S!Authorized(worker.by) /\ outcome[q] = e
        /\ Owner[worker.by] = Owner[approval[q].by] \/ Role[worker.by] = "admin"
        /\ Answer("done", "none") /\ UNCHANGED serverVars

WorkerCall ==
  /\ CallFails \/ CallMode \/ CallRequest \/ CallCheck \/ CallConsume \/ CallOutcome
  /\ UNCHANGED <<vars, token, view>>

-----------------------------------------------------------------------------
(* The frame: poll_repair_worker, before the rest of poll_execution.       *)

\* An approval seen under another identity is forgotten first.
ForgetApproval ==
  /\ view # NoView /\ view.gen # gen
  /\ view' = NoView /\ receipt' = NoReceipt
  /\ UNCHANGED <<journalVars, selected, reviewed, gen, workVars, envVars, token, worker, serverVars>>

SameTarget ==
  \/ worker.binding.run = NoRun
  \/ selected # NoRun /\ selected = worker.binding.run /\ book.run[selected].cur = worker.binding.tgt

Unchanged == UNCHANGED <<journalVars, selected, reviewed, gen, workVars, envVars>>

TakeNothing ==
  \/ worker.gen # gen /\ view' = NoView /\ receipt' = NoReceipt
  \/ worker.gen = gen /\ ~SameTarget /\ UNCHANGED <<view, receipt>>
  \/ worker.gen = gen /\ SameTarget /\ worker.res = "error" /\ receipt' = NoReceipt
     /\ UNCHANGED view

TakeMode ==
  LET b == [book EXCEPT !.team = TRUE] IN
  /\ worker.kind = "mode" /\ UNCHANGED <<uiVars, workVars, envVars, view>>
  /\ IF Busy THEN UNCHANGED journalVars ELSE book' = b /\ Save(b, disk)

TakeApproval ==
  LET item == [req |-> worker.req, binding |-> approval[worker.req].binding,
               state |-> worker.state, gen |-> worker.gen] IN
  /\ worker.kind \in {"request", "check"}
  /\ view' = IF item.binding = worker.binding /\ (worker.req \notin due \/ item.state = "expired")
             THEN item ELSE NoView
  /\ UNCHANGED receipt /\ Unchanged

TakeConsumed ==
  LET r == selected
      got == [binding |-> worker.binding, gen |-> worker.gen, approval |-> worker.req]
      b == SetPhase(book, r, "Apply") IN
  /\ worker.kind = "consume"
  /\ IF /\ reviewed /\ Bindable(book, r) /\ Binding(book, r) = worker.binding
        /\ view.req = worker.req /\ view.binding = worker.binding
     THEN /\ \/ Drive([Now EXCEPT !.book = b, !.receipt = got], b, r)
             \/ /\ SaveFails(disk) /\ UNCHANGED sent
                /\ Become([Now EXCEPT !.book = b, !.receipt = NoReceipt])
          /\ UNCHANGED <<selected, gen, ghosts, envVars, view>>
     ELSE view' = NoView /\ receipt' = NoReceipt /\ Unchanged

TakeOutcome ==
  LET b == [book EXCEPT !.tgt[worker.slot].delivered = TRUE] IN
  /\ worker.kind = "outcome" /\ UNCHANGED <<uiVars, workVars, envVars, view>>
  /\ \/ SaveOk(b) /\ book' = b
     \/ SaveFails(disk) /\ UNCHANGED book

\* Mutant: an answer that was refused or lost is taken for a good one.
PollWorker_AnyAnswer ==
  /\ worker.res \in {"done", "error"} /\ (view = NoView \/ view.gen = gen)
  /\ worker.gen = gen /\ SameTarget
  /\ TakeMode \/ TakeApproval \/ TakeConsumed \/ TakeOutcome
  /\ worker' = NoWorker
  /\ UNCHANGED <<token, serverVars>>

PollWorker ==
  /\ worker.res \in {"done", "error"} /\ (view = NoView \/ view.gen = gen)
  /\ \/ TakeNothing /\ Unchanged
     \/ /\ worker.gen = gen /\ SameTarget /\ worker.res = "done"
        /\ TakeMode \/ TakeApproval \/ TakeConsumed \/ TakeOutcome
  /\ worker' = NoWorker
  /\ UNCHANGED <<token, serverVars>>

-----------------------------------------------------------------------------

\* The process dies with its worker, its identity and what it had seen.
TeamReboot ==
  /\ Reboot
  /\ token' = NoToken /\ view' = NoView /\ worker' = NoWorker /\ UNCHANGED serverVars

Alone ==
  /\ Operator \/ Frame \/ Threads \/ Age \/ (\E r \in Runs : Void(r)) \/ EditProfile
       \/ ChangeHandoff
  /\ UNCHANGED <<teamVars, serverVars>>

Buttons == EnableTeam \/ RequestApproval \/ CheckDecision \/ ConsumeApproval
           \/ (\E s \in Slots : SendOutcome(s)) \/ ChangeIdentity

\* Everybody else: they decide on what was asked here, and administer tokens.
Outside ==
  /\ \/ \E k \in Others, q \in Approvals, v \in {"approved", "denied"} : S!Decide(k, q, v)
     \/ \E k \in Others : S!List(k)
     \/ S!World
  /\ UNCHANGED <<vars, teamVars>>

TeamInit == Init /\ token = NoToken /\ view = NoView /\ worker = NoWorker /\ S!Init

\* sync_repair_outcomes: every settled team change gets its one result event.
SyncOutcomes ==
  /\ EventsDue
  /\ LET b == [book EXCEPT !.tgt = [s \in Slots |->
                 IF AwaitsEvent(book, s)
                 THEN [book.tgt[s] EXCEPT !.event = [boot |-> boots, result |-> book.tgt[s].phase],
                                          !.delivered = FALSE]
                 ELSE book.tgt[s]]]
     IN book' = b /\ Save(b, disk)
  /\ UNCHANGED <<uiVars, workVars, envVars, teamVars, serverVars>>

TeamFrame == ForgetApproval \/ PollWorker \/ SyncOutcomes
TeamNext == Alone \/ TeamReboot \/ Buttons \/ WorkerCall \/ TeamFrame \/ Outside

TeamSpec == TeamInit /\ [][TeamNext]_allVars

\* Frames keep coming while the window is open; jobs end (120 s timeout, kill), health
\* checks end (socket timeouts).  The operator, the clock, the crash, the network and
\* the server promise nothing: no fairness for Buttons, WorkerCall or Outside.
Local(A) == A /\ UNCHANGED <<teamVars, serverVars>>
TeamFairness ==
  /\ WF_allVars(Local(Frame) \/ SyncOutcomes) /\ WF_allVars(Local(JobEnds))
  /\ WF_allVars(Local(GhostEnds)) /\ WF_allVars(Local(HealthEnds))
TeamFairSpec == TeamSpec /\ TeamFairness

-----------------------------------------------------------------------------
(* Properties.                                                             *)

\* The variables of the composition hold what the code puts there.
TeamTypeOK ==
  /\ TypeOK /\ S!TypeOK
  /\ token \in Mine \cup {NoToken}
  /\ view \in [req : Approvals, binding : Bindings, gen : 1..MaxGen,
               state : {"pending", "approved", "denied", "expired", "consumed"}] \cup {NoView}
  /\ worker # NoWorker =>
       /\ worker.kind \in {"mode", "request", "check", "consume", "outcome"}
       /\ worker.gen \in 1..gen /\ worker.by \in Mine
       /\ worker.res \in {"waiting", "done", "error"}

TeamApplied(s) == disk.run[s[1]].team /\ sent[<<s[1], s[2], "Apply">>] > 0

\* Every change made under team control was approved by a second person for this
\* very run, target and proof, and its approval was used up on the server first;
\* the journal names it, and no two changes share one.
EachApplyApproved ==
  \A s \in Slots : TeamApplied(s) =>
    LET q == disk.tgt[s].approval IN
    /\ q \in Approvals /\ approval[q].state = "consumed"
    /\ approval[q].binding.run = s[1] /\ approval[q].binding.tgt = s[2]
    /\ Owner[approval[q].by] # Owner[approval[q].decider]
    /\ \A u \in Slots \ {s} : TeamApplied(u) => disk.tgt[u].approval # q

\* Under team control a change is sent only by the frame that takes the answer to a
\* consume, asked for by the identity that is still signed in, while the approver's
\* own review still stands: an answer that is lost, late or foreign changes nothing.
AppliedOnAnswer ==
  [][\A s \in Slots :
       (sent'[<<s[1], s[2], "Apply">>] # sent[<<s[1], s[2], "Apply">>] /\ book.run[s[1]].team
        /\ Production(book, s[1])) =>
         /\ worker.kind = "consume" /\ worker.res = "done" /\ worker.gen = gen
         /\ worker.binding.run = s[1] /\ worker.binding.tgt = s[2]
         /\ reviewed /\ worker' = NoWorker]_allVars

\* The server and the journal file agree: what the server has recorded of a change is
\* what the file says of it, and what the file calls delivered the server has, through
\* crashes, failed saves and repeated deliveries.
CentralMatchesJournal ==
  /\ \A q \in Approvals : outcome[q] # S!NoOutcome =>
       LET s == <<outcome[q].run, outcome[q].tgt>> IN
       /\ disk.tgt[s].approval = q /\ disk.tgt[s].phase = outcome[q].result
       /\ disk.tgt[s].event.result = outcome[q].result
       /\ outcome[q].id = EventNo(s, disk.tgt[s].event.boot)
  /\ \A s \in Slots : disk.tgt[s].delivered =>
       outcome[disk.tgt[s].approval].id = EventNo(s, disk.tgt[s].event.boot)
-----------------------------------------------------------------------------
(* The promise.                                                            *)

\* Who is behind a token, and what the server has on an approval, as an auditor sees it.
Person(k) == IF k = NoToken THEN NoToken ELSE Owner[k]
Permit(q) == [state |-> approval[q].state, by |-> Person(approval[q].by),
              decider |-> Person(approval[q].decider),
              host |-> <<approval[q].binding.run, approval[q].binding.tgt>>]

Governed == INSTANCE GovernedRollout WITH
  Permits <- Approvals, NoPermit <- NoApproval, Nobody <- NoToken,
  People  <- {Owner[k] : k \in Tokens},
  done     <- [s \in Slots |-> DoneTo(s)],
  verdict  <- [s \in Slots |-> VerdictOn(s)],
  governed <- {r \in Runs : disk.run[r].team},
  permit   <- [q \in Approvals |-> Permit(q)],
  under    <- [s \in Slots |-> disk.tgt[s].approval],
  told     <- [q \in Approvals |-> outcome[q].result]

\* Client and server together keep the promise of the rollout under permits, whatever
\* call, answer or save is lost and whenever the client dies: a host is changed under a
\* used-up permit that is in the journal with it, asked for by one person and granted by
\* another, and the server's record of it is the journal's verdict (can_apply before
\* every dispatch, the transactions of team_server/repair.rs).
ImplementsGoverned == Governed!GovernedSpec
=============================================================================
