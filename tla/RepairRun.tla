------------------------------ MODULE RepairRun ------------------------------
(***************************************************************************)
(* The reviewed execution engine of the desktop client: one plan that      *)
(* changes a Windows service on an ordered list of targets, rehearsed on   *)
(* test hosts and then rolled out to production one target at a time.      *)
(*                                                                         *)
(*   src/src/execution.rs            Run, TargetRun and their transitions  *)
(*   src/src/app/execution_panel.rs  the driver: frames, saves, dispatch   *)
(*   src/src/operations.rs           the serial queue of remote jobs       *)
(*                                                                         *)
(* The UI thread runs every handler below to its end; the job thread, the  *)
(* health thread and the operator interleave with it, and the process may  *)
(* die at any moment.  `book' is the journal in memory, `disk' the journal *)
(* file.  What follows one plan follows all of them: a proof only counts   *)
(* for the plan with the same hash, so the model has one plan, run many    *)
(* times.  Team approvals enter through `receipt', which TeamRepair fills. *)
(***************************************************************************)
EXTENDS Naturals

CONSTANTS
  MaxRuns,     \* bound: how many runs the journal ever holds
  NTargets,    \* length of the plan's target list
  Restarts,    \* which plans: TRUE a controlled restart, FALSE a start or a stop
  TeamBook,    \* Journal.approval_mode when the history starts
  Approvals,   \* identities of server approvals
  NoApproval,
  MaxBoots,    \* bound: process lifetimes
  JobLimit,    \* operations::JOB_LIMIT
  Kinds,       \* kinds of run the operator may start
  Faults       \* which environment events the instance allows

Runs    == 1..MaxRuns
Targets == 1..NTargets
Slots   == Runs \X Targets
NoRun   == 0

ASSUME RunAssumption ==
  /\ MaxRuns \in Nat \ {0} /\ NTargets \in Nat \ {0}
  /\ Restarts \subseteq BOOLEAN /\ TeamBook \in BOOLEAN
  /\ NoApproval \notin Approvals
  /\ MaxBoots \in Nat \ {0} /\ JobLimit \in Nat \ {0}
  /\ Faults \subseteq {"save", "load", "profile", "handoff", "void", "crash"}
  /\ Kinds \subseteq {"rehearsal", "production", "lab"}

VARIABLES
  restart,    \* ExecutionPlan.restart, of the plan these runs are of
  book,       \* ExecutionState.book: the journal in memory
  disk,       \* the journal file
  selected,   \* ExecutionState.selected
  reviewed,   \* the operator's review checkbox
  receipt,    \* ExecutionState.repair_receipt
  error,      \* ExecutionState.error: latched, blocks every later save
  job,        \* the job ExecutionState.remote points at
  ghosts,     \* cancelled jobs the queue has not yet seen end
  health,     \* ExecutionState.health
  gen,        \* TeamState.repair_identity_generation
  aged,       \* captures that are 120 s old or more
  void,       \* runs whose proof no longer counts (one hour, receipts, contract)
  profileOk,  \* the saved profile still matches the target snapshot
  handoffOk,  \* no handoff, or the selected run matches it
  boots,      \* how many times the process has started
  sent        \* history: mutations handed to the queue, per target and kind

journalVars == <<book, disk, error>>
uiVars      == <<selected, reviewed, receipt, gen>>
workVars    == <<job, ghosts, health, sent>>
envVars     == <<restart, aged, void, profileOk, handoffOk, boots>>
vars        == <<journalVars, uiVars, workVars, envVars>>

-----------------------------------------------------------------------------
(* The records of the journal.                                             *)

Settled  == {"Passed", "Restored", "Failed", "Unknown"}
Phases   == Settled \cup {"Capture", "Baseline", "Review", "Apply", "Verify", "Restore"}
Ops      == {"Capture", "Apply", "Restore"}
Mutation == {"Apply", "Restore"}

NoEvent   == [boot |-> 0, result |-> "none"]
NoReceipt == [binding |-> [run |-> 0, tgt |-> 0, proof |-> 0],
              gen |-> 0, approval |-> NoApproval]
NoJob     == [run |-> 0, tgt |-> 0, op |-> "none", res |-> "none"]

NewTarget == [phase |-> "Capture", before |-> "none", baseline |-> "none",
              approval |-> NoApproval, attempted |-> FALSE,
              event |-> NoEvent, delivered |-> FALSE]
NoRunYet  == [kind |-> "none", team |-> FALSE, cur |-> 1, fin |-> FALSE]
Empty     == [team |-> FALSE, run |-> [r \in Runs |-> NoRunYet],
              tgt |-> [s \in Slots |-> NewTarget]]

Production(b, r) == b.run[r].kind \in {"production", "lab"}
Unfinished(b, r) == b.run[r].kind # "none" /\ ~b.run[r].fin
Cur(b, r)        == b.tgt[<<r, b.run[r].cur>>]
SetPhase(b, r, ph) == [b EXCEPT !.tgt[<<r, b.run[r].cur>>].phase = ph]

-----------------------------------------------------------------------------
(* Transitions of one run.                                                 *)

\* Mutant: the rollout goes on over a target that failed.
Advance_GoesOn(b, r) ==
  IF Cur(b, r).phase \notin Settled THEN b
  ELSE IF b.run[r].cur < NTargets THEN [b EXCEPT !.run[r].cur = @ + 1]
  ELSE [b EXCEPT !.run[r].fin = TRUE]

\* The run stops at the first target that is not Passed, and moves on otherwise.
Advance(b, r) ==
  CASE Cur(b, r).phase = "Passed" /\ b.run[r].cur < NTargets ->
         [b EXCEPT !.run[r].cur = @ + 1]
    [] Cur(b, r).phase = "Passed" /\ b.run[r].cur = NTargets ->
         [b EXCEPT !.run[r].fin = TRUE]
    [] Cur(b, r).phase \in {"Failed", "Restored", "Unknown"} ->
         [b EXCEPT !.run[r].fin = TRUE]
    [] OTHER -> b

\* Mutant: the failed run is left open.
FailCurrent_LeavesOpen(b, r) == SetPhase(b, r, "Unknown")

FailCurrent(b, r) == Advance(SetPhase(b, r, "Unknown"), r)

\* Mutant: an open run is resumed.
Interrupt_Resumes(b) == b

\* Loading the journal abandons whatever was still open.
Interrupt(b) ==
  [b EXCEPT
     !.run = [r \in Runs |-> [b.run[r] EXCEPT !.fin = b.run[r].kind # "none"]],
     !.tgt = [s \in Slots |->
               IF Unfinished(b, s[1]) /\ b.tgt[s].phase \notin {"Passed", "Restored", "Failed"}
               THEN [b.tgt[s] EXCEPT !.phase = "Unknown"] ELSE b.tgt[s]]]

\* What the loader insists on before it accepts a journal.
Consistent(b) ==
  /\ \A r \in Runs : b.run[r].team => b.team
  /\ \A s \in Slots :
       \/ /\ ~b.tgt[s].attempted /\ b.tgt[s].approval = NoApproval
          /\ b.tgt[s].event = NoEvent
       \/ /\ Production(b, s[1]) /\ b.run[s[1]].team
          /\ b.tgt[s].attempted /\ b.tgt[s].approval # NoApproval

\* Mutant: a failed check restores a target nobody changed.
AfterHealth_AlwaysRestores(b, r, passed) ==
  LET c == Cur(b, r) IN
  IF c.phase = "Baseline"
  THEN [b EXCEPT !.tgt[<<r, b.run[r].cur>>] =
          [c EXCEPT !.baseline = IF passed THEN "pass" ELSE "fail", !.phase = "Review"]]
  ELSE Advance(SetPhase(b, r, IF passed THEN "Passed" ELSE "Restore"), r)

\* A successful check moves on, a failed one undoes what was changed.
AfterHealth(b, r, passed) ==
  LET c == Cur(b, r) IN
  IF c.phase = "Baseline"
  THEN [b EXCEPT !.tgt[<<r, b.run[r].cur>>] =
          [c EXCEPT !.baseline = IF passed THEN "pass" ELSE "fail", !.phase = "Review"]]
  ELSE Advance(SetPhase(b, r,
         IF passed THEN "Passed"
         ELSE IF c.before = "desired" /\ ~restart THEN "Failed" ELSE "Restore"), r)

\* The answer of a remote job, read in the phase the run is in when it arrives.
AfterJob(b, r, res) ==
  LET c == Cur(b, r) IN
  CASE c.phase = "Capture" /\ res \in {"desired", "other"} ->
         [b EXCEPT !.tgt[<<r, b.run[r].cur>>] = [c EXCEPT !.before = res, !.phase = "Baseline"]]
    [] c.phase = "Restore" /\ res = "verified" -> Advance(SetPhase(b, r, "Restored"), r)
    [] c.phase = "Apply" /\ res = "verified"   -> SetPhase(b, r, "Verify")
    [] c.phase = "Apply" /\ res = "rolledback" -> Advance(SetPhase(b, r, "Restored"), r)
    [] OTHER -> FailCurrent(b, r)

\* Mutant: a rehearsal counts as soon as one test host passed.
ProofFor_OneHost(b, p) ==
  /\ b.run[p].kind = "rehearsal" /\ b.run[p].fin /\ p \notin void
  /\ \E t \in Targets : b.tgt[<<p, t>>].phase = "Passed"

\* A finished, fully passed rehearsal that really changed every test host.
ProofFor(b, p) ==
  /\ b.run[p].kind = "rehearsal" /\ b.run[p].fin /\ p \notin void
  /\ \A t \in Targets :
       /\ b.tgt[<<p, t>>].phase = "Passed"
       /\ IF restart THEN b.tgt[<<p, t>>].before = "desired" /\ b.tgt[<<p, t>>].baseline = "fail"
                     ELSE b.tgt[<<p, t>>].before = "other"

\* Mutant: the evidence is checked when the run starts, and not again.
HasProof_AtStart(b, r) == b.run[r].kind # "none"

\* Mutant: lab receipts that counted once count for good.
HasProof_AnyReceipts(b, r) ==
  b.run[r].kind = "lab" \/ \E p \in Runs : ProofFor(b, p)

HasProof(b, r) ==
  IF b.run[r].kind = "lab" THEN r \notin void ELSE \E p \in Runs : ProofFor(b, p)

\* The reference a binding carries: the newest rehearsal, or the lab receipts.
ProofOf(b, r) ==
  IF b.run[r].kind = "lab" THEN r
  ELSE CHOOSE p \in Runs : ProofFor(b, p) /\ \A q \in Runs : ProofFor(b, q) => q <= p

\* Mutant: a capture never gets too old.
Fresh_AnyAge(b, r) == Cur(b, r).before # "none"

Fresh(b, r) == Cur(b, r).before # "none" /\ <<r, b.run[r].cur>> \notin aged

\* Mutant: any running service may be restarted.
RestartReady_Running(b, r) == restart => Cur(b, r).before = "desired"

\* A controlled restart is for a running service whose check fails.
RestartReady(b, r) == restart => Cur(b, r).before = "desired" /\ Cur(b, r).baseline = "fail"
Change(b, r) == restart \/ Cur(b, r).before # "desired"
TeamChange(b, r) == Production(b, r) /\ Change(b, r) /\ b.run[r].team

\* repair_binding succeeds: the current target may be approved as it stands.
Bindable(b, r) ==
  /\ Production(b, r) /\ Unfinished(b, r)
  /\ Cur(b, r).phase \in {"Review", "Apply"}
  /\ Cur(b, r).baseline # "none" /\ Fresh(b, r) /\ RestartReady(b, r)
  /\ profileOk /\ HasProof(b, r) /\ handoffOk /\ ~error
Binding(b, r) == [run |-> r, tgt |-> b.run[r].cur, proof |-> ProofOf(b, r)]

-----------------------------------------------------------------------------
(* Saving, and the driver that every handler ends in.                      *)

\* What a handler has in hand: the volatile fields of ExecutionState.
Now == [book |-> book, reviewed |-> reviewed, receipt |-> receipt,
        job |-> job, health |-> health]
Become(m) == /\ book' = m.book /\ reviewed' = m.reviewed /\ receipt' = m.receipt
             /\ job' = m.job /\ health' = m.health

\* Mutants: a save that stays in memory; one that tries again after an error.
SaveOk_InMemory(b) == ~error /\ disk' = disk /\ error' = FALSE
SaveOk_TriesAgain(b) == disk' = b /\ error' = FALSE

\* execution_save: all or nothing (temporary file, then rename); the first
\* failure latches `error' and from then on nothing is written.
SaveOk(b) == ~error /\ disk' = b /\ error' = FALSE
SaveFails(d) == (error \/ "save" \in Faults) /\ disk' = d /\ error' = TRUE
Save(b, d) == SaveOk(b) \/ SaveFails(d)

\* execution_fail: the current target becomes Unknown, the run ends.
Fail(m, d, r) ==
  LET b == FailCurrent(m.book, r) IN Become([m EXCEPT !.book = b]) /\ Save(b, d)

\* Nothing to do now: the run waits for an answer or a person, or is over.
DriveStops(m, r) ==
  \/ m.job # NoJob \/ m.health # "idle" \/ m.book.run[r].fin
  \/ Cur(m.book, r).phase \in {"Capture", "Apply"} /\ ~handoffOk
  \/ Cur(m.book, r).phase \in Settled \cup {"Review"}

\* Mutant: the saved profile is compared when the run starts, and not again.
DriveRefuses_AnyProfile(b, r) ==
  LET c == Cur(b, r) IN
  \/ /\ c.phase = "Apply"
     /\ \/ c.baseline = "none" \/ ~RestartReady(b, r) \/ ~Fresh(b, r)
        \/ Production(b, r) /\ ~HasProof(b, r)
  \/ c.phase = "Restore" /\ c.before = "none"

\* A reason to give the run up instead of sending anything.
DriveRefuses(b, r) ==
  LET c == Cur(b, r) IN
  \/ /\ c.phase = "Apply"
     /\ \/ c.baseline = "none" \/ ~RestartReady(b, r) \/ ~Fresh(b, r)
        \/ Production(b, r) /\ ~HasProof(b, r)
  \/ c.phase = "Restore" /\ c.before = "none"
  \/ c.phase # "Restore" /\ ~profileOk

\* Mutant: the approval of the pilot covers the targets after it.
NeedsReceipt_PilotOnly(b, r) ==
  Cur(b, r).phase = "Apply" /\ b.run[r].team /\ b.run[r].cur = 1

NeedsReceipt(b, r) == Cur(b, r).phase = "Apply" /\ b.run[r].team

ReceiptMatches(m, r) ==
  /\ Bindable(m.book, r) /\ m.reviewed
  /\ m.receipt # NoReceipt /\ m.receipt.gen = gen
  /\ m.receipt.binding = Binding(m.book, r)

\* A health check runs on a thread of its own, once the journal is saved.
Probe(m, d) ==
  \/ SaveOk(m.book) /\ Become([m EXCEPT !.health = "running"])
  \/ SaveFails(d) /\ Become(m)

\* One receipt, one Apply.
AfterUse(m, r) == IF NeedsReceipt(m.book, r) THEN NoReceipt ELSE m.receipt

\* A job is journalled first and handed to the queue second.
Dispatch(m, d, r) ==
  LET t == m.book.run[r].cur
      c == Cur(m.book, r)
      b == IF NeedsReceipt(m.book, r)
           THEN [m.book EXCEPT !.tgt[<<r, t>>] =
                   [c EXCEPT !.approval = m.receipt.approval, !.attempted = TRUE]]
           ELSE m.book
  IN
  \/ /\ SaveFails(d)
     /\ Become([m EXCEPT !.book = b, !.receipt = NoReceipt])
     /\ UNCHANGED sent
  \/ /\ SaveOk(b) /\ ghosts < JobLimit
     /\ Become([m EXCEPT !.book = b, !.receipt = AfterUse(m, r),
                         !.reviewed = @ /\ c.phase # "Apply",
                         !.job = [run |-> r, tgt |-> t, op |-> c.phase, res |-> "none"]])
     /\ sent' = IF c.phase \in Mutation /\ sent[<<r, t, c.phase>>] < 2
                THEN [sent EXCEPT ![<<r, t, c.phase>>] = @ + 1] ELSE sent
  \/ /\ ghosts >= JobLimit /\ ~error
     /\ Fail([m EXCEPT !.book = b, !.receipt = AfterUse(m, r)], b, r)
     /\ UNCHANGED sent

\* execution_drive for the selected run r, with d on disk.  Malformed runtime
\* values, which the operator types before a run, give it up at its start.
Drive(m, d, r) ==
  \/ /\ DriveStops(m, r)
     /\ Become(m) /\ disk' = d /\ UNCHANGED <<error, sent>>
  \/ /\ ~DriveStops(m, r)
     /\ DriveRefuses(m.book, r) \/ Cur(m.book, r).phase = "Capture"
     /\ Fail(m, d, r) /\ UNCHANGED sent
  \/ /\ ~DriveStops(m, r) /\ ~DriveRefuses(m.book, r)
     /\ NeedsReceipt(m.book, r) /\ ~ReceiptMatches(m, r)
     /\ LET b == SetPhase(m.book, r, "Review") IN
          Become([m EXCEPT !.book = b, !.receipt = NoReceipt]) /\ Save(b, d)
     /\ UNCHANGED sent
  \/ /\ ~DriveStops(m, r) /\ ~DriveRefuses(m.book, r)
     /\ Cur(m.book, r).phase \in {"Baseline", "Verify"}
     /\ Probe(m, d) /\ UNCHANGED sent
  \/ /\ ~DriveStops(m, r) /\ ~DriveRefuses(m.book, r)
     /\ Cur(m.book, r).phase \in Ops
     /\ NeedsReceipt(m.book, r) => ReceiptMatches(m, r)
     /\ Dispatch(m, d, r)

\* `if self.execution_save() { self.execution_drive() }'.
SaveThenDrive(m, r) ==
  \/ ~error /\ Drive(m, m.book, r)
  \/ SaveFails(disk) /\ Become(m) /\ UNCHANGED sent

-----------------------------------------------------------------------------
(* The operator's actions.                                                 *)

\* Mutant: every new run is under team control.
Opened_Team(r, kind) ==
  [book EXCEPT !.run[r] = [kind |-> kind, team |-> TRUE, cur |-> 1, fin |-> FALSE]]

\* A new run gets the journal's current authority, which stays with it.
Opened(r, kind) ==
  [book EXCEPT !.run[r] = [kind |-> kind, team |-> book.team, cur |-> 1, fin |-> FALSE]]

SelectedOpen == selected # NoRun /\ Unfinished(book, selected)

\* Mutant: a run is started while another is open.
Open_WhileOpen(r, kind) ==
  /\ kind \in Kinds /\ ~error
  /\ book.run[r].kind = "none" /\ \A q \in Runs : q < r => book.run[q].kind # "none"
  /\ selected' = r
  /\ SaveThenDrive([Now EXCEPT !.book = Opened(r, kind), !.reviewed = FALSE], r)
  /\ UNCHANGED <<ghosts, gen, envVars>>

Open(r, kind) ==
  /\ kind \in Kinds /\ ~error /\ ~SelectedOpen
  /\ book.run[r].kind = "none" /\ \A q \in Runs : q < r => book.run[q].kind # "none"
  /\ selected' = r
  /\ SaveThenDrive([Now EXCEPT !.book = Opened(r, kind), !.reviewed = FALSE], r)
  /\ UNCHANGED <<ghosts, gen, envVars>>

StartRehearsal(r) == handoffOk /\ Open(r, "rehearsal")
StartProduction(r) ==
  handoffOk /\ (\E p \in Runs : ProofFor(book, p)) /\ Open(r, "production")
PrepareLabProduction(r) == profileOk /\ Open(r, "lab")

\* The review checkbox can be set and withdrawn as long as the target waits.
ToggleReviewed ==
  /\ SelectedOpen /\ Cur(book, selected).phase = "Review"
  /\ reviewed' = ~reviewed
  /\ UNCHANGED <<journalVars, selected, receipt, gen, workVars, envVars>>

\* "Approve": local consent where no team approval is needed.  Whether the proof still
\* counts is not asked here but when the change is sent (DriveRefuses).
Approve ==
  LET r == selected IN
  /\ SelectedOpen /\ Cur(book, r).phase = "Review"
  /\ reviewed /\ Fresh(book, r) /\ RestartReady(book, r) /\ ~error /\ handoffOk
  /\ book.run[r].kind = "rehearsal" => Change(book, r)
  /\ ~TeamChange(book, r)
  /\ LET b == SetPhase(book, r, IF Change(book, r) THEN "Apply" ELSE "Verify") IN
       SaveThenDrive([Now EXCEPT !.book = b, !.reviewed = FALSE], r)
  /\ UNCHANGED <<selected, ghosts, gen, envVars>>

\* "Cancel; mark remote state as unknown": the job is only asked to stop.
Cancel ==
  /\ SelectedOpen
  /\ ghosts' = IF job = NoJob THEN ghosts ELSE ghosts + 1
  /\ Fail([Now EXCEPT !.job = NoJob, !.health = "idle"], disk, selected)
  /\ UNCHANGED <<selected, gen, sent, envVars>>

\* Another production run is put on screen while nothing at all is running.
SelectRecovery(r) ==
  /\ Production(book, r) /\ r # selected
  /\ job = NoJob /\ health = "idle" /\ ghosts = 0
  /\ \A q \in Runs : ~Unfinished(book, q)
  /\ selected' = r /\ reviewed' = FALSE
  /\ UNCHANGED <<journalVars, receipt, gen, workVars, envVars>>

-----------------------------------------------------------------------------
(* The frame: poll_execution after poll_repair_worker.                     *)

\* Mutant: a settled change is reported in every lifetime anew.
AwaitsEvent_EachBoot(b, s) ==
  /\ b.run[s[1]].team /\ b.tgt[s].attempted /\ b.tgt[s].event.boot # boots
  /\ b.tgt[s].approval # NoApproval /\ b.tgt[s].phase \in Settled

AwaitsEvent(b, s) ==
  /\ b.run[s[1]].team /\ b.tgt[s].attempted /\ b.tgt[s].event = NoEvent
  /\ b.tgt[s].approval # NoApproval /\ b.tgt[s].phase \in Settled
EventsDue == \E s \in Slots : AwaitsEvent(book, s)

\* The frame first saves the result events that are due (TeamRepair: without a
\* team there are none); the rest of the same frame follows, hence ~EventsDue.
PollJob ==
  /\ ~EventsDue /\ job.res # "none"
  /\ LET m == [Now EXCEPT !.job = NoJob, !.book = AfterJob(book, selected, job.res)] IN
       SaveThenDrive(m, selected)
  /\ UNCHANGED <<selected, ghosts, gen, envVars>>

PollHealth ==
  /\ ~EventsDue /\ job = NoJob /\ health \in {"pass", "fail"}
  /\ LET m == [Now EXCEPT !.health = "idle", !.reviewed = FALSE,
                          !.book = AfterHealth(book, selected, health = "pass")] IN
       SaveThenDrive(m, selected)
  /\ UNCHANGED <<selected, ghosts, gen, envVars>>

\* A frame without news still drives: a run that waited for its handoff goes on.
PollDrive ==
  /\ ~EventsDue /\ ~error /\ SelectedOpen /\ ~DriveStops(Now, selected)
  /\ Drive(Now, disk, selected)
  /\ UNCHANGED <<selected, ghosts, gen, envVars>>

-----------------------------------------------------------------------------
(* The other threads, the clock, the profiles and the process itself.      *)

Answers(op) == CASE op = "Capture" -> {"desired", "other", "unclear"}
                 [] op = "Apply"   -> {"verified", "rolledback", "unclear"}
                 [] op = "Restore" -> {"verified", "unclear"}
                 [] OTHER -> {}

\* The queue runs one job at a time, in order: cancelled ones come first.
JobEnds ==
  /\ job # NoJob /\ job.res = "none" /\ ghosts = 0
  /\ \E res \in Answers(job.op) : job' = [job EXCEPT !.res = res]
  /\ UNCHANGED <<journalVars, uiVars, ghosts, health, sent, envVars>>

GhostEnds ==
  /\ ghosts > 0 /\ ghosts' = ghosts - 1
  /\ UNCHANGED <<journalVars, uiVars, job, health, sent, envVars>>

\* A check that fails, and a worker that dies, look the same.
HealthEnds ==
  /\ health = "running" /\ health' \in {"pass", "fail"}
  /\ UNCHANGED <<journalVars, uiVars, job, ghosts, sent, envVars>>

\* Two minutes pass after the capture of the current target of an open run.
Age ==
  /\ SelectedOpen /\ Cur(book, selected).phase \in {"Baseline", "Review", "Apply"}
  /\ Fresh(book, selected)
  /\ aged' = aged \cup {<<selected, book.run[selected].cur>>}
  /\ UNCHANGED <<journalVars, uiVars, workVars, restart, void, profileOk, handoffOk, boots>>

\* A proof gets older than an hour, or its receipts or contract change.
Void(r) ==
  /\ "void" \in Faults /\ r \notin void
  /\ (book.run[r].kind = "lab" /\ ~book.run[r].fin) \/ ProofFor(book, r)
  /\ void' = void \cup {r}
  /\ UNCHANGED <<journalVars, uiVars, workVars, restart, aged, profileOk, handoffOk, boots>>

EditProfile ==
  /\ "profile" \in Faults /\ profileOk' = ~profileOk
  /\ UNCHANGED <<journalVars, uiVars, workVars, restart, aged, void, handoffOk, boots>>

ChangeHandoff ==
  /\ "handoff" \in Faults /\ handoffOk' = ~handoffOk
  /\ UNCHANGED <<journalVars, uiVars, workVars, restart, aged, void, profileOk, boots>>

Newest(b) == IF \A r \in Runs : b.run[r].kind = "none" THEN NoRun
             ELSE CHOOSE r \in Runs : b.run[r].kind # "none"
                                    /\ \A q \in Runs : b.run[q].kind # "none" => q <= r

\* The process dies and starts again: everything volatile is gone, the journal
\* is read back.  An unreadable journal leaves an empty book that cannot be saved.
Reboot ==
  /\ "crash" \in Faults /\ boots < MaxBoots /\ boots' = boots + 1
  /\ \/ Consistent(disk) /\ book' = Interrupt(disk) /\ error' = FALSE
     \/ /\ ~Consistent(disk) \/ "load" \in Faults
        /\ book' = Empty /\ error' = TRUE
  /\ selected' = Newest(book')
  /\ reviewed' = FALSE /\ receipt' = NoReceipt
  /\ job' = NoJob /\ ghosts' = 0 /\ health' = "idle"
  /\ UNCHANGED <<disk, gen, sent, restart, aged, void, profileOk, handoffOk>>

-----------------------------------------------------------------------------

Init ==
  /\ restart \in Restarts
  /\ book = [Empty EXCEPT !.team = TeamBook] /\ disk = book /\ error = FALSE
  /\ selected = NoRun /\ reviewed = FALSE /\ receipt = NoReceipt /\ gen = 1
  /\ job = NoJob /\ ghosts = 0 /\ health = "idle"
  /\ sent = [x \in Runs \X Targets \X Mutation |-> 0]
  /\ aged = {} /\ void = {} /\ profileOk = TRUE /\ handoffOk = TRUE /\ boots = 1

Operator ==
  \/ \E r \in Runs : StartRehearsal(r) \/ StartProduction(r) \/ PrepareLabProduction(r)
                      \/ SelectRecovery(r)
  \/ ToggleReviewed \/ Approve \/ Cancel

Frame   == PollJob \/ PollHealth \/ PollDrive
Threads == JobEnds \/ GhostEnds \/ HealthEnds
World   == Age \/ (\E r \in Runs : Void(r)) \/ EditProfile \/ ChangeHandoff \/ Reboot

Next == Operator \/ Frame \/ Threads \/ World

Spec == Init /\ [][Next]_vars

-----------------------------------------------------------------------------
(* Properties.                                                             *)

TargetRec ==
  [phase : Phases, before : {"none", "desired", "other"}, baseline : {"none", "pass", "fail"},
   approval : Approvals \cup {NoApproval}, attempted : BOOLEAN,
   event : [boot : 0..MaxBoots, result : Settled \cup {"none"}], delivered : BOOLEAN]
Book ==
  [team : BOOLEAN,
   run : [Runs -> [kind : {"none", "rehearsal", "production", "lab"}, team : BOOLEAN,
                   cur : Targets, fin : BOOLEAN]],
   tgt : [Slots -> TargetRec]]
Bindings == [run : Runs, tgt : Targets, proof : Runs]
Receipts == [binding : Bindings, gen : Nat, approval : Approvals] \cup {NoReceipt}
Jobs     == [run : Runs, tgt : Targets, op : Ops,
             res : {"none", "desired", "other", "unclear", "verified", "rolledback"}] \cup {NoJob}

\* Every variable holds a value of the type the program gives it.
TypeOK ==
  /\ restart \in BOOLEAN /\ book \in Book /\ disk \in Book /\ error \in BOOLEAN
  /\ selected \in Runs \cup {NoRun} /\ reviewed \in BOOLEAN
  /\ receipt \in Receipts /\ gen \in Nat
  /\ job \in Jobs /\ ghosts \in Nat /\ health \in {"idle", "running", "pass", "fail"}
  /\ sent \in [Runs \X Targets \X Mutation -> 0..2]
  /\ aged \subseteq Slots /\ void \subseteq Runs
  /\ profileOk \in BOOLEAN /\ handoffOk \in BOOLEAN /\ boots \in 1..MaxBoots

\* What was sent to a host, and what the journal file says of it.
DoneTo(s) ==
  LET changes == sent[<<s[1], s[2], "Apply">>]
      undone  == sent[<<s[1], s[2], "Restore">>]
  IN CASE changes = 0 /\ undone = 0 -> "nothing"
       [] changes = 1 /\ undone = 0 -> "changed"
       [] changes = 1 /\ undone = 1 -> "undone"
       [] OTHER -> "more than once"
VerdictOn(s) == IF disk.tgt[s].phase \in Settled THEN disk.tgt[s].phase ELSE "open"

Ledger == INSTANCE RolloutLedger WITH
            done    <- [s \in Slots |-> DoneTo(s)],
            verdict <- [s \in Slots |-> VerdictOn(s)]

\* No host is changed or put back twice, out of order, beside another change that is
\* in the air, or after its verdict; and the file never says of a host what was not
\* done to it: not after a crash, a cancel, a failed save or an answer that never came
\* (interrupt_after_restart, test restart_never_repeats_apply_or_restore).
ImplementsLedger == Ledger!Spec

\* A change handed to the queue is already in the journal file, past its review,
\* whatever is lost afterwards (execution_drive saves before it enqueues).
JournalledFirst ==
  \A s \in Slots :
    sent[<<s[1], s[2], "Apply">>] > 0 =>
      /\ disk.run[s[1]].kind # "none"
      /\ disk.tgt[s].phase \notin {"Capture", "Baseline", "Review"}

\* The journal file can always be read back: no sequence of saves, failed saves
\* and crashes writes one the loader would reject (Journal::load).
JournalLoads == Consistent(disk)

\* At most one run is open, it is the selected one, and the answer a thread will
\* give is for the step its current target is in: it cannot be mistaken for another.
OneOpenRun ==
  /\ \A r \in Runs : Unfinished(book, r) => r = selected
  /\ job # NoJob => /\ SelectedOpen /\ health = "idle"
                    /\ job.run = selected /\ job.tgt = book.run[selected].cur
                    /\ job.op = Cur(book, selected).phase
  /\ health # "idle" => SelectedOpen /\ Cur(book, selected).phase \in {"Baseline", "Verify"}

\* While the error latch is set nothing is sent, and the file stays as it was
\* read or last written (execution_save returns early on error).
LatchedErrorFreezes ==
  [][error => disk' = disk /\ sent' = sent]_vars

\* A host is changed only on evidence that is current when the change is sent, however
\* long the approved target waited before.  Production: a proof that still counts (the
\* lab receipts, or a rehearsal that changed every test host, once, and passed), a
\* capture under 120 s, a profile that still matches.  Any host: a restart only of a
\* service that runs and failed its check.
CurrentEvidence ==
  [][\A s \in Slots :
       sent'[<<s[1], s[2], "Apply">>] > sent[<<s[1], s[2], "Apply">>] =>
         /\ Production(book', s[1]) =>
              /\ IF book'.run[s[1]].kind = "lab" THEN s[1] \notin void
                 ELSE \E p \in Runs \ void :
                        /\ disk.run[p].kind = "rehearsal" /\ disk.run[p].fin
                        /\ \A t \in Targets : /\ disk.tgt[<<p, t>>].phase = "Passed"
                                             /\ sent[<<p, t, "Apply">>] = 1
              /\ s \notin aged /\ profileOk /\ handoffOk
         /\ restart => /\ disk'.tgt[s].before = "desired"
                       /\ disk'.tgt[s].baseline = "fail"]_vars

\* Every open run comes to rest: it ends, or waits for a person in Review, or is
\* held by a latched error or by a handoff to another target.  With the team server
\* out of reach, too: what was sent is still checked, put back if need be, and settled
\* (only frames and local threads are fair, see TeamRepair).
RunsComeToRest ==
  SelectedOpen ~> (~SelectedOpen \/ Cur(book, selected).phase = "Review" \/ error \/ ~handoffOk)
=============================================================================
