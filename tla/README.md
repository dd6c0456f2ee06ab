# A TLA+ model of the Relayne repair core

Relayne (`src/`) is a Windows desktop client for remote administration: RDP, VNC and SSH sessions,
AI-assisted diagnosis, and, at its core, *reviewed repairs*: a change to a Windows service that is
rehearsed on test hosts, reviewed by a person, sent to production one target at a time, checked
afterwards and put back when the check fails. A team server (`relayne team-server`) can make a
second person part of every production change. Around that core stand other parts that act on
people's machines and accounts and must not act twice, act on old evidence or forget what they
did: escalations, shared sessions, the change history, missions, recovery contracts and the
security investigator. This directory holds TLA+ models of these, the TLC runs that check them and
the theorems TLAPS proves about them.

| Files | About |
|---|---|
| `RepairRun`, `RolloutLedger` | the client's execution engine, and what it implements |
| `RepairAuthority`, `TeamRepair`, `GovernedRollout` | the team server's approvals; client and server together; what they implement |
| `EscalationOutbox` | evidence that leaves the system |
| `ChangeHistory` | the change time machine |
| `CollaborationRoom` | shared sessions |
| `Mission` | missions over several computers |
| `RecoveryContracts` | recovery contracts, the window and the unattended agent |
| `InvestigatorWorker`, `InvestigatorResponse` | the security investigator |
| `MC*`, `*.cfg` | TLC instances |
| `*_proofs` | theorems |
| `PROJECT.json` | runs, mutants, the source lines of every definition, findings, hazards, theorems |

## 1. Inventory

Each part of the system with the state it keeps, what it does, who it talks to, what is hard about
it and what makes it correct.

### Reviewed execution — `execution.rs`, `app/execution_panel.rs` — *modelled and proved*

- **State.** A journal of runs (`Journal`, one encrypted file, written through a temporary file
  and a rename); per run the plan's hash, rehearsal or production, authority (standalone or team),
  current target, finished; per target phase, initial state, baseline, approval, apply attempted,
  result event. Volatile: selected run, review checkbox, receipt, error latch, current job, health
  thread.
- **Operations.** Start a rehearsal, a rollout, a lab-proved rollout; review; approve; cancel;
  select a run for recovery; `poll_execution` once per frame: create result events, take a job's
  answer, take a health result, drive (capture, baseline, apply, verify, restore). Loading
  interrupts what was open.
- **Interactions.** Enqueues PowerShell jobs on the serial job queue, starts health threads, reads
  profiles and handoffs, uses receipts of the team server.
- **Hard.** Every handler saves before it acts, and the save may fail; the process may die between
  the save and the answer; answers arrive for runs that were cancelled; the evidence a person
  approved on goes stale while the change waits.
- **Correct when.** A change is made once, is journalled before it is sent, rests on current
  evidence and (for production) on a complete rehearsal; what is restored was changed; settled
  results are final; an unreadable or unwritable journal stops everything; every run comes to
  rest.

### Job queue — `operations.rs` — *modelled as far as its two clients here see it*

- **State.** An ordered list of jobs, one running, at most `JOB_LIMIT` unfinished.
- **Operations.** Enqueue, cancel, poll, clear. A cancelled job occupies the queue until its
  process has ended.
- **Hard / correct when.** A change enqueued behind the ghost of a cancelled job would run on old
  evidence; a full queue must not leave a run half dispatched.

### Team server: repair approvals — `team_server/repair.rs`, `team_server.rs`, `repair_approval.rs`, `team_oidc.rs` — *modelled and proved*

- **State.** SQLite tables of approvals, outcomes, audit, tokens; OIDC role bindings in a file.
- **Operations.** Create, list, decide, consume, report outcome, revoke. Deadlines (ten minutes,
  the JWT's expiry, the proof's expiry) are applied by whichever request looks.
- **Hard.** Two deciders, one person with two tokens, a credential withdrawn between decision and
  use, a deadline between two requests, repeated and altered events.
- **Correct when.** Two people per change; decisions are final; no late use; an outcome belongs to
  a used approval; the audit is exactly the history.

### Team approvals at the client — `app/execution_panel.rs`, `app/team_panel.rs`, `team_client.rs` — *modelled and proved*

- **State.** The signed-in token and its generation, the last approval seen, the receipt, one
  worker thread.
- **Operations.** Enable team control, request, check, consume and apply, send outcome, change
  identity; `poll_repair_worker` in each frame.
- **Hard.** The answer to a consume is lost after the server used the approval up; it arrives
  after the identity, the target or the review changed; an outcome is sent twice; the
  acknowledgement arrives but cannot be saved.
- **Correct when.** Every team-controlled change names its own consumed approval for exactly that
  run, target and proof; server and journal agree about the outcome; restoration never waits for
  the server.

### Escalation outbox — `ticket_escalation.rs` — *modelled and proved*

- **State.** SQLite tables: rows (queued, sending, sent, failed, unknown, expired, blocked,
  canceled, not_delivered; the destination's fingerprint; the attempt they follow) and verdicts.
- **Operations.** Enqueue, cancel, reconcile, reauthorise (all through the team server) and a
  worker process: claim, send once over HTTP, record, up to 32 times.
- **Hard.** The worker dies or stalls while it holds the 60-second lease; two workers run; a
  person decides while the answer is under way; the destination changes after the authorisation.
- **Correct when.** No row is sent twice; one attempt per ticket is alive; settled rows stay;
  where people look well and requests die with their senders, the destination acts once.

### Collaboration rooms — `collaboration_session.rs`, `app/collaboration_panel.rs`, `app/collaboration_capture.rs` — *modelled and proved*

- **State.** On the server, in one row per room: members, the control lease with its generation
  and its 20 seconds, the current frame, proposals with votes. In the host's window: consent, the
  shared session, one command under way, inputs already used. OIDC bindings and tokens.
- **Operations.** Create, join, leave, close, grant, revoke, publish a frame, propose, approve,
  consume; the revocation of a token; in the window, capture, consent and input.
- **Hard.** A lease, a vote, a frame or the right to operate lapses between proposal, approval,
  consume and input; the answer to a consume is late or lost.
- **Correct when.** Proposals are for the frame and lease of now; votes go with their casters; a
  proposal is consumed once; input is sent only as agreed, on what the session shows.

### Change history — `change_history.rs`, `app/change_history_panel.rs` — *modelled and proved*

- **State.** A directory of encrypted entries (Prepared, Applied, RestorePending, Restored) with
  the snapshot before and after; one job per window; a PowerShell worker.
- **Operations.** Prepare, apply, restore, load. The worker compares and replaces, under an
  exclusive lock for a file, without for a registry value or an ACL.
- **Hard.** A crash or a killed worker between the entry, the write and the second entry; a worker
  that outlives its job; another window, another program; a full journal and leftovers of
  interrupted writes.
- **Correct when.** What a change put there can be put back; the journal says what was done;
  nothing foreign is lost from a file.

### Missions — `mission.rs`, `app/mission_panel.rs` — *modelled and proved*

- **State.** Steps over a pilot and other computers, the status and finding of each; one pending
  check or remote job; one encrypted file.
- **Operations.** Begin, observe, start a command, poll, note, verify, pause, resume, approve the
  rollout, restart.
- **Hard.** An answer for a step that was paused, begun again or lost in a crash; a save that
  fails beside a command; a job that is cleared or ends without output.
- **Correct when.** A finding is of the latest command; a command is on record before it starts;
  the pilot goes first; steps end.

### Recovery contracts and the unattended agent — `recovery_contracts.rs`, `app/contracts_panel.rs`, `recovery_daemon.rs` — *one contract modelled and proved*

- **State.** One encrypted file of contracts (the rehearsal it rests on, the last comparison,
  invalid since when, revoked evidence); a directory of restrictions that are not in the file yet;
  a marker that bars everything; a copy in the memory of each process with what it loaded.
- **Operations.** Compare, renew, adopt, invalidate, settings, reload, load, save; one pass of the
  agent.
- **Hard.** The window and the agent write one file; whoever finds something bad publishes it
  without the lock; a crash or a failed write between publishing, replacing and cleaning up; a
  full journal.
- **Correct when.** No published finding is lost on any load; no repair is approved against a
  finding.

### Security investigator — `investigator/*` — *worker and response modelled and proved*

- **State.** SQLite: jobs with 5-minute claims, a 90-second worker lease, checkpoints per source,
  budgets; proposals and attempts of the one external response (revoking a user's sessions at
  Microsoft Graph).
- **Operations.** Worker: tick, claim, pay, call, page, checkpoint, settle. Response: propose,
  seal, check, send, record, reconcile; stop and resume.
- **Hard.** Two processes on one database; a crash between any two transactions; a process that
  sleeps past its lease; a reviewer who does not wait; a stop between the seal and the request.
- **Correct when.** One caller at a time, calls paid for beforehand, every job ends; a user's
  sessions are revoked once, the tables tell what happened, a report stands, a stop reaches what
  is not sent.

### Helper actions — `helper_action.rs`, `helper_approval.rs`, `team_server/helper_repair.rs`, `helper/*` — *not modelled*

A generic repair assistant with adapters (SQL, cloud, services): cases, an intent journal,
approvals by a second server-side authority, a worker process, corrections of outcomes. Its
authority repeats the request, decision and consume of `RepairAuthority` and adds sequences of
corrections. Correct when an intent is journalled before its effect, its approval is used once and
corrections only ever follow the last one. Planned, see section 6.

### Not modelled

| Part | Why |
|---|---|
| Workflows, autopilot (`workflow.rs`, `autopilot.rs`) | a cursor and a journal entry per step on one thread |
| Ticket intake (`ticket_intake.rs`) | one idempotent insert per signed delivery |
| Workspaces, handoffs, profiles | optimistic revisions of single rows |
| Commerce (`commerce.rs`) | billing webhooks, unrelated to the core |
| RDP, VNC, SSH, terminal, audio, drives | codecs and rendering over external libraries: data, not control |
| Teaching, vision, memory, AI | advisory results that a person reviews |
| UI layout (`app.rs`, panels) | 17 500 lines of layout; the handlers that change the state above are modelled where they belong |
| The investigator's collectors, playbooks, cases, notifications, releases, backup | parsing and queries; the worker sees them as calls and checks that go well or not |
| `vendor/` | third-party |

## 2. What the modules say

### RepairRun

One plan, run many times: a proof counts only for a plan with the same hash, so what holds for one
plan holds for each. `restart` says whether the plan is a controlled restart or a change of state,
and is chosen at the start (`Restarts`). The variables are the fields of `ExecutionState` and
`Journal` under their own names; `disk` is the file. An action is a whole handler, up to and
including the `execution_save` and `execution_drive` it ends in:

| Actions | Code |
|---|---|
| `StartRehearsal`, `StartProduction`, `PrepareLabProduction`, `ToggleReviewed`, `Approve`, `Cancel`, `SelectRecovery` | the buttons of `execution_content` |
| `PollJob`, `PollHealth`, `PollDrive` | the parts of `poll_execution`, in its order, after `SyncOutcomes` of `TeamRepair` |
| `JobEnds`, `GhostEnds`, `HealthEnds` | the job thread and the health thread |
| `Age`, `Void`, `EditProfile`, `ChangeHandoff`, `Reboot` | clock, proofs, profiles, handoffs, process |

`Drive` is `execution_drive` with its early returns (`DriveStops`), its refusals (`DriveRefuses`),
the team condition, health probes and `Dispatch`; it takes the handler's state in hand (`Now`) and
what is on disk, because a handler saves between two changes of memory. `Save` succeeds or fails;
a failure latches `error`. Advance, AfterHealth, AfterJob, Interrupt and ProofFor are the methods
of `Run`.

Choices a reader should know of:

- *Crash.* `Reboot` is an action between handlers. A crash inside a handler leaves the same file
  as a failed save followed by a crash, or as the whole handler followed by a crash; both are in
  the model.
- *Load.* `Reboot` interrupts open runs in memory; the file keeps its old content until the next
  save, as in `ExecutionState::default`.
- *Time* is an event per deadline: `Age` (120 s after a capture), `Void` (a proof of one hour, or
  changed receipts or contract).
- *Runtime values.* The values an operator types in for an HTTP check can be malformed: `Drive`
  may refuse at `Capture`, and nothing else is modelled of them.
- *Cancelled jobs* are counted (`ghosts`), not named: nothing reads their answers.
- *Approving* looks at the review and the state of recovery, not at receipts. A lab run whose
  receipts lapsed in Review can be approved; the drive that follows gives it up (or goes on to
  verify, when nothing is to change), and `CurrentEvidence` says that it sends nothing.
- *History.* `sent` counts the mutations handed to the queue, to state that a change is made once;
  it stops at 2.
- Job answers are what `service_spec`, `restart_spec` and `captured_state` can yield (`Answers`);
  anything unreadable is `unclear`.

### RolloutLedger

What a run promises, without journal, queue, threads or crashes: each host is changed once at
most, in order, after the hosts before it passed and while nothing else is in the air; it is put
back once at most and only if it was changed; its verdict is final and tells what was done.
`RepairRun` maps `sent` to `done` (`DoneTo`) and the *file* to `verdict` (`VerdictOn`), and
`ImplementsLedger == Ledger!Spec` is checked as a property: every step of the engine, with failed
saves, cancelled jobs and crashes, is a step of the ledger or leaves it alone. A change that is
cancelled or interrupted ends as "Unknown", which is the one verdict that promises nothing; the
ledger is strict about the others.

### RepairAuthority

Each action is one request that changes the store, in one immediate transaction with its audit
entry; a refused request changes nothing and is left out. `Expire` is what any request does first
with a lapsed approval it looks at, and then the request is refused: that is why `Decide` and
`Consume` have it as an alternative. `List` returns some page of what its caller may see and
expires the lapsed rows on it. An approval is named by its request (both ids are unique). Tokens,
owners and roles are constants; `lapsed`, `barred`, `due` and `stale` are what time, admins and
the OIDC file do to them. Issuing new tokens is left out: a token that is not used yet is one that
was not issued.

### TeamRepair

`RepairRun` extended by the identity, the last approval seen and the worker, next to an instance
`S` of `RepairAuthority`. A button starts the worker (`RequestApproval`, ...), the worker makes
one HTTP call (`CallRequest`, ...), which the server may act on although the answer is lost
(`Acted`), or which fails (`CallFails`), and a frame takes its answer (`PollWorker`). `Outside` is
everybody else. The server's `CaptureAges` and the client's `Age` are separate events, as the two
machines have separate clocks.

### GovernedRollout

The ledger extended by permits, for what client and server promise together: a host of a run under
team control is changed under a permit of its own, which one person asked for, another granted and
which is used up; the permit is noted while nothing has been done to the host and stays noted; a
run comes under control before anything is done for it and stays there; and what the team has on
record of a permit (`told`) is the final verdict of the host changed under it. There is no client,
no server and nothing that gets lost. `TeamRepair` maps the *file* to `governed` and `under`, the
server's rows to `permit` (with people for tokens: two tokens of one person are one person) and to
`told`; `ImplementsGoverned == Governed!GovernedSpec` is checked and proved. A crash between
the use of a permit and the change wastes the permit, never the promise.

### EscalationOutbox

Server and workers share one database. An operator's action is one transaction; a worker's step is
three actions, `Claim`, `Send` and `Record`, between which anything may happen. `Send` lets the
destination act or not, and the answer tell, be lost or be unreadable. `LeaseElapses` is the
60-second lease: a request takes 20 s at most, so a row whose lease is over has no live worker,
unless (fault `suspend`) the process itself was stopped that long; fault `late` lets a request
land after its sender gave up. With `misreport` a person may report what they did not see.
`astray` remembers the rows this happened to: `OutboxMatchesDestination` is about the others.
Expiry of an authorisation is an event; rows are taken in any order, a superset of oldest-first.
The destination sees a new idempotency key for each attempt, so nothing stronger holds of the rows
that went astray.

### ChangeHistory

One target: a file (`locked`) or a registry value or ACL (not). An apply is two steps: `CountEntries`
(what the panel asks first, ending in the look at the directory) and `BeginApply` (the entry is
written and a worker started); `counting` holds the windows between the two, as nothing keeps
another window out. A restore rewrites an entry that exists, which is not counted: `BeginRestore` is one
step. Then come the worker's own steps
(`ReplaceLocked`; or `CompareOpen`, `WriteOpen`, `VerifyOpen` without a lock) and `CompleteChange`
or `AbandonChange`. The worker is killed, or (fault `late`) goes on although its job was given up.
`CrashHistory` ends a window at any point, with a leftover of an interrupted journal write
(`temps`). `Foreign` is everybody else. Contents are two values, *gone* and *torn*. What `author`
and `overtaken` remember is said at their declarations.

### CollaborationRoom

The server handles one request at a time: one action per command, with what `apply` does before
each (drop members, leases and votes that lapsed). The window has one command under way (`call`):
it is sent, served (or refused, or never served), answered (or the answer is lost) and taken, and
the window may have changed in between. The model follows the host's newest room; the host's other
rooms are out of its reach. Frames are hashes: what matters is whether two are the same.
Annotations and masking are left out.

### Mission

One mission with its file, the queue as its commands see it, and the two kinds of work in the
background. `SaveAs` is a handler that goes on after a failed save, `Saved` and `NotSaved` are
those that look. An attempt is numbered (`begun`): the number is history, except where the code
compares job ids. Tokens of evidence, notes and the import of handoffs are left out.

### RecoveryContracts

One contract. `proc` holds for each process the copy it has (`mem`), what it last loaded or saved
(`src`) and whether the file is still that (`current`). A save is four steps, as others may run
in between: `Publish` and `WriteEntry` without the lock (`persist_restrictions`: count the journal,
then write the entry, or set the marker), `Commit` under it (merge, replace the file), `Clean`
(remove the journal entries that were merged, all or as far as it gets). The writer counts up to
`MaxPending`, the reader refuses a journal of more than `MaxRead` (`Overfull`); both are 128 in the
code. `Merge` is
`merge_restrictions`, and `Merged` takes the entries of the journal in every order, as a directory
has none. Operations change the copy and begin to save it in the same action, the one that counts. Time
is a small clock: what counts is which observation came before which. Deadlines ("comparison due",
"rehearsal due") only forbid, so they are left out. The agent's settings, consents, back-off and
notices only decide whether a pass is made: here it may be made at any time. `seen`, `found` and
`barred` are history: what the window found in this life, and what reached the journal.

### InvestigatorWorker

Two processes tick on one database: the service for ever, `worker-once` now and then. A tick is a
chain of transactions (`Look`, `GoOn` or `Claim`, `SetActive`, `Pay`, `Call`, `Page`,
`Checkpoint`, `Settle`, `Close`, `Leave`), a crash may come between any two, and `Stall` suspends
a process past its lease. `Checks` is `ready_for_call`, asked again before every call. Jobs are
claimed in any order; pages, retries and their delays are abstracted to whether a source is
complete and whether a retry waits; collectors and playbooks to one more check each. The case's
budget is the choice in `Call`. `stalled` and `astray` mark what a process does that was suspended
past its lease: see section 5.

### InvestigatorResponse

The main process proposes and reconciles; executors seal (`dispatching`, in one transaction with
the attempt), check everything again, send without a lock, and write the result in two statements.
An executor dies anywhere; a reviewer reports on a dispatch without waiting. `gate` is the stop
and the policy's window, `void` a grant that expired or a case that changed; `barred` is history
for `StopReaches`. Left out: the restore of an older snapshot, changes of the policy file, and the
call budget, whose reservation is `asking`.

## 3. Runs

`CHECK_DEADLOCK FALSE` everywhere: with its runs used up and its faults spent, an instance may
really stop.

| Run | Instance | States | Question |
|---|---|---|---|
| `local` | 2 runs × 2 targets, rehearsal and rollout, restarts and changes of state, all faults, one crash | 979 000 | is each change made once, in order, journalled first, on current evidence? does the engine implement the ledger? |
| `team_rehearsal` | one rehearsal, team-controlled | violation | finding 1 |
| `authority` | 2 requests on 2 runs, 1 outcome, 4 tokens of 3 people, one OIDC, one viewer | 407 000 | two people, final decisions, no late use, exact audit, outcomes where they belong |
| `team_client` | 2 targets, 2 approvals, 2 changes of identity, lost answers, failed saves, a crash | 100 000 | do client and server implement the rollout under permits? do they agree, does every change have an approval of its own, does a run come to rest without the server? |
| `outbox` | 1 ticket, 3 rows, 2 destinations, 2 workers, stalls, late requests, wrong reports | 606 000 | does the outbox say what the destination saw, is no settled row changed? |
| `history` | 2 windows, 4 changes, 1 foreign write, kills, late workers, a limit of 2 entries | 208 000 | can what was replaced be put back, does the journal tell the truth, is nothing foreign lost, by how much can the limit be passed? |
| `room` | host, a member with 2 tokens, one with OIDC, 2 frames, 1 proposal, 3 generations | 443 000 | is input sent only as agreed? |
| `room_lease` | the same, smaller | violation | finding 2 |
| `mission` | 2 computers × 2 steps, 4 attempts, failed saves, a full queue | 127 000 | are findings of the latest attempt, commands on record, do steps end? |
| `investigator_worker` | service and `worker-once`, 2 jobs, one crash or stall | 401 000 | one caller, calls paid for, does every job end? |
| `investigator_response` | 2 proposals for 2 users of a case, 2 executors, 1 execution per day | 1 314 000 | revoked once, tables true, reports stand, stops reach? |
| `contracts` | window and agent, 3 instants, 3 operations, 2 renewals, a limit of 2 entries that a race may pass, all faults | 947 000 | is no finding lost on loading, and no repair approved against one? |

**Bounds.** They are constants of the modules, or constraints named in the `MC` modules.

- `MaxRuns` 2 is a rehearsal and the production run that relies on it, or two rival starts;
  `NTargets` 2 is the least with a pilot and a rest; `MaxBoots` 2 is one crash anywhere, after
  which an open run is over, so a second crash finds the states of the first; `JobLimit` 2 makes
  the queue full after two cancels; `MaxGen` 3 is two changes of identity (signing in is the
  first).
- `Scope` of `MCRepairRun` lets the profile and the handoff change under runs of a restart plan
  only, one of them at a time, before the crash and while proofs count; these conditions are
  independent refusals in `execution_drive`. Lab-proved rollouts are not mixed with the others in
  that run, and the second of them is given up early; `team_client` takes a lab-proved rollout to
  its end. `Scope` of `MCTeamRepair` lets the failures, the crash and the changes meet the pilot,
  keeps some of them apart from each other, lets two approvals or tokens at a time be past a
  deadline or withdrawn (one beside the second identity or a failed save), and asks for the second
  approval at the second target, where all goes well.
- Two tokens of one person, a second person who signs in with OIDC and a viewer are the least that
  tells tokens, people and roles apart.
- `OneFault` (outbox): the faults happen to one row; three rows are an attempt, its retry and a
  chain; two workers are the least that race.
- `EntryLimit` 2, `MaxTemps` 1 and `MaxForeign` 1 (history) make the journal full, leave one
  interrupted write, and let a foreign write fall anywhere; `Scope` of `MCChangeHistory`: two
  windows on one change, one window at a time on two, or two windows that apply a change each until
  the first worker starts, so that both can count before either writes, and the limit is passed.
- `MaxGeneration` 3 (room): control is granted, lost and granted again. `MaxAttempts` 4 (mission):
  a step is begun again on both computers.
- `OneJob`, `MaxFaults` 1, `Budget` 2 (worker): one job at a time, of either kind, one crash or
  stall, a runtime that runs out on the second try.
- `MaxDaily` 1 (response): the second proposal meets the daily limit.
- `MaxTime` 3, `MaxOps` 3, `MaxProofs` 2, `MaxPending` 2, `MaxRead` 2 (contracts): a finding, a
  renewal and an answer in any order, by either process, with a full journal, and with one that both
  processes counted before they wrote and that no load accepts; `Scope` of `MCRecoveryContracts`
  does not go on once the marker is set, as nothing is loaded or saved then, asks for a renewal
  among three operations (findings alone come in twos), and gives the agent no further pass when the
  window has failed after the last operation.

Request ids, rows, workers, windows, frames and executors are symmetric where nothing orders them
and no liveness is checked.

**Fairness.**

- `TeamFairness` (`RunsComeToRest`): frames keep coming (egui repaints while a run is open), a job
  ends (120 s timeout, then kill), so does a cancelled one, and a health check (socket timeouts).
  Nothing is assumed of the operator, the clock, crashes, the network or the server.
- `MissionFairness` (`StepsSettle`): frames keep coming, the queue runs its jobs and they end, a
  TCP check times out.
- `WorkerFairness` (`JobsSettle`): the service ticks every five seconds, what a tick began goes
  on, leases run out. `JobsSettle` asks nothing unless the service stays ready.

Weak fairness is enough everywhere: what a frame, a thread or a lease has to do stays possible
until it is done.

**Properties** are stated with the hazard they are about, in the modules; PROJECT.json lists a
mutant for each (defined next to what it mutates, named `Operation_Fault`) that the same run
refutes.

### Findings

1. `RehearsalsNeedNoApproval` (run `team_rehearsal`) fails: `execution_drive` demands a team
   receipt for *every* Apply of a team-controlled run (`execution_panel.rs:1124`), while
   `repair_binding` rejects rehearsals (`:390`). An approved rehearsal is put back to Review each
   time, so no rehearsal can change anything once the journal is team-controlled, and a rollout
   that needs one can only use a rehearsal from before. The interface (`:1261`), the approve
   button (`:1517`) and `docs/relayne-team.md:68` speak of production changes only.
2. `LeaseIsKept` (run `room_lease`) fails: before every command, `apply` drops the lease of a
   holder without a live token (`collaboration_session.rs:289-298`), while `Grant` accepts OIDC
   identities, which have none. A lease granted to an operator who signs in with OIDC is gone at
   the next request to the room; `docs/relayne-collaboration.md:5` says that a member with an
   operator or admin role has it for 20 seconds.

## 4. Proofs

Each `_proofs` module proves, for every value of its constants that the module's assumption
allows, theorems of the specification that the runs check on one instance. The assumptions are the
types of the constants and that the "no" values are not among the values (`RoomAssumption`: the
host is not a member; `HistoryAssumption`: 0 is no id of a change or a window). All the faults a
module knows are in its `Next`, so the theorems hold with them.

The layout is the same everywhere: an inductive invariant as a conjunction of named parts; lemmas
about what the operators keep; one lemma per action or kind of step; `...Step` for all of `Next`;
then the theorems. What follows says, for each module, which facts carry the argument and why the
property alone is not inductive.

### RepairRun

| Theorem | Statement |
|---|---|
| `RunCorrect`, `RunTypeCorrect` | `Spec => []RunInv`, `Spec => []TypeOK` |
| `ChangesAreJournalled` | `Spec => []JournalledFirst` |
| `OneRunIsOpen` | `Spec => []OneOpenRun` |
| `JournalIsReadable` | `Spec => []JournalLoads` |
| `ErrorsFreeze` | `Spec => LatchedErrorFreezes` |
| `EvidenceIsCurrent` | `Spec => CurrentEvidence` |
| `EngineImplementsLedger` | `Spec => ImplementsLedger`, the refinement of `RolloutLedger` |

`RunInv` has four parts. `Filed`: the file is in order (`Order`: runs are handed out one after the
other, `Filled`; a run passed the targets before its current one and did not come to those after,
`Path`; an open run has something left to do, `Pending`), it loads (`Consistent`), and it tells
the truth (`Told`: the phase of each target fits the changes and restores that were sent to that
host, `Tally`). `Fit`: what a handler has in hand (`Now`) is in order too, only the selected run
is open, and a job or a health check is for the step this run is in. `Synced`: unless the error
latch is set, memory tells the truth as well and is the file, or the file as a load interrupts it.
`Outer` is the rest of the types. `JournalledFirst` speaks of the file only; what makes it
inductive is `Synced`: what is sent next is decided from memory, and after a failed save memory
and file part for good, so it matters that nothing is sent then.

The transitions are treated bottom up, as the code composes them: `AdvanceSteps`, `MovedGood`,
`AfterJobMoves`, `AfterHealthMoves`, `FailMoves` (the methods of `Run`), `GivesUp` and
`DispatchStep`, `DriveStep`, `SaveThenDriveStep`, and `HandlerStep` for a handler that ends in a
save and a drive. Each gives the invariant and `Effect` of a step: settled results stay
(`Onward`), and whatever is counted as sent was due (`Sends`) and is in the file the step leaves
(`Follows`). From `Effect` and `RunInv` the action properties follow, and the refinement:
`LedgerInit`, `LedgerSettles` (nothing sent: verdicts only settle) and `LedgerSends` (something
sent: it is the ledger's change or restore of that host, in order).

### RepairAuthority

| Theorem | Statement |
|---|---|
| `TypeCorrect` | `Spec => []TypeOK` |
| `TwoPeopleAlways` | `Spec => []TwoPeople` |
| `AuditAlwaysMatches` | `Spec => []AuditMatches` |
| `OutcomesAlwaysBelong` | `Spec => []OutcomeBelongs` |
| `DecisionsStayFinal` | `Spec => DecisionsAreFinal` |
| `NeverConsumedLate` | `Spec => NoLateConsume` |

`Inv` is inductive: the type, `RowsMatch` (a row without a state is the empty row, a decided row
names its decider, an undecided one none, and only operators and admins ask), `TwoPeople`,
`OutcomeBelongs` and `AuditMatches`. `AuditMatches` alone is not: an expired row keeps its decider
or has none, and whether the audit holds an "approved" entry depends on which; `RowsMatch` says
so. `StepForms` first reduces `Next` to the five ways a row can change (created, expired, decided,
consumed, reported) or not, so each later lemma has one case per form. The two action properties
follow from `Inv` by the same cases.

### TeamRepair

| Theorem | Statement |
|---|---|
| `TeamCorrect`, `TeamTypeCorrect` | `TeamSpec => []TeamInv`, `TeamSpec => []TeamTypeOK` |
| `CentralIsJournal` | `TeamSpec => []CentralMatchesJournal` |
| `AppliesAreApproved` | `TeamSpec => []EachApplyApproved` |
| `TeamJournalIsReadable` | `TeamSpec => []JournalLoads` |
| `AppliesOnAnswer` | `TeamSpec => AppliedOnAnswer` |
| `TeamImplementsLedger` | `TeamSpec => ImplementsLedger` |
| `TeamImplementsGoverned` | `TeamSpec => ImplementsGoverned` |

Client and server keep what they keep alone: `RunInv`, as every frame runs handlers of the engine,
and the server's `Inv` (`SP!Inv`), as every call of the worker and everything other people do is a
step of `RepairAuthority` (`ServerStep`; `ServerGrows`: a used approval stays as it is). The rest
of `TeamInv` relates the two, and it is needed because a consume and the change it allows are two
steps on two machines. `EachApplyApproved` alone is not inductive: between the answer and the
frame that takes it, only the worker knows that the approval was used up, and for which target.

- `Client`: no receipt outlives the frame that got it.
- `Asking`, `Consuming`, `Reporting`: what the worker is out for is still there when its answer
  comes. A target that waits for a consume is in review or given up (`Held`), the answer is what
  the server says; a result that is reported is the one in the file.
- `Journals`: what the file calls attempted was approved and used up for that target (`Approved`);
  what was sent, the file calls attempted (`Attempts`); a result event is the verdict of its target
  (`Eventful`); the server's outcome is the file's (`CentralMatchesJournal`).
- `Opening`: the open run is the newest, so what it cites is earlier (`Cited`); and a run does not
  go on over a target that was called attempted and whose change was not sent (`Unsent`).

Most steps of the engine leave the other machine's business alone: they are `Calm` (every claim of
the file is kept, nothing is sent under team control; `CalmStep`, `Aside`). What remains is a case
each: a button that starts the worker (`AskingSteps`), an answer that is noted in the journal
(`NoteStep`), and the frame that takes a good answer to a consume (`TakeConsumedStep`), where the
change is sent: `Granted` and `Stamped` say what was agreed and what the file then holds.
`OnAnswer` and `Effect` are carried along by all of them and give the action property and the
refinement. `TeamFairSpec` implies `TeamSpec`, so the theorems hold of it too.

`TeamImplementsGoverned` takes a step apart by who takes it (`ServerMoves`). A step of the server is
one of the permits', or puts a verdict on record, or is none the promise sees (`ServerGoverned`, by
the forms `StepForms` gives it): `Decide` judges (`DecideJudges`), whatever writes off lapsed
approvals lets them lapse (`ExpireLapses`), and a report is the verdict of the host changed under
the permit because `CentralMatchesJournal` holds after it (`ReportTells`). A step of the client is
the rollout's work (`ClientWorks`): the ledger's part comes from `TeamImplementsLedger`'s lemmas, and
`Stands` adds that authority is final once a run has begun and that a permit, once noted, stays. For
that a new permit must never be noted over another one, which `TeamInv` without `Unsent` does not
exclude: a change that the full job queue refuses is in the file already, permit and all, with
nothing sent, and only the end of the run in the same frame (`FailEnds`, `Spent`) keeps the driver
from asking for another.

### EscalationOutbox

| Theorem | Statement |
|---|---|
| `TypeCorrect` | `Spec => []TypeOK` |
| `OneAttemptAlive` | `Spec => []OneLiveAttempt` |
| `NeverSentTwice` | `Spec => []SentOnce` |
| `OutboxIsTrue` | `Spec => []OutboxMatchesDestination` |
| `SettledStaysFinal` | `Spec => SettledIsFinal` |
| `SendsAreClaimed` | `Spec => SentUnderClaim` |

`Chained`: a row that has a successor is dead, each ticket has a root row, and of its rows only one
has no successor; a living row has no successor, so there is one. `OneLiveAttempt` alone would let
a second retry of an old dead row in. `Claimed`: a row that is queued was never sent, a row that a
worker holds has left the queue, and no two workers hold the same. `RowForms` shows that the rows
change in two ways only, one is added or living ones move; `Chained` is preserved by both, and
`Claimed` by each worker action (`WorkerStep`) and everything else (`RowsOnly`).

`Known` adds what the network and the workers know: nothing arrives that was not tried, what is
still flying after its sender died is of a row that went astray, a request is overdue only for a
row that was claimed (`Faithful`), and a worker that holds an answer holds it for its own row, which
is in "sending" as long as nothing went astray with it, and the answer is what the destination did
(`Honest`). `Matches` is then `OutboxMatchesDestination`, row by row.

### InvestigatorResponse

In `Investigator_proofs`, with those of the worker.

| Theorem | Statement |
|---|---|
| `ResponseTypes` | `Spec => []ResponseTypeOK` |
| `RevokedOnceAlways` | `Spec => []RevokedOnce` |
| `LedgerIsTrueAlways` | `Spec => []LedgerIsTrue` |
| `ReportsStand` | `Spec => ReportStands` |
| `StopReachesAll` | `Spec => StopReaches` |

`RowOK` relates the two tables to what was sent, for each proposal; `ExecOK` says what an executor
may rely on while it sends. Two facts carry `RevokedOnce`: `Alone` (a sealed proposal has one
executor) and `OneAttempt` (a goal has one sealed proposal, because the seal looks for an attempt
at the same goal in the transaction that writes its own). `Barred` says that a barred proposal
stays forbidden and no executor has passed the last check for it; `StopReaches` follows.
`Unsealed` and `Elsewhere` are why steps of one executor leave the others alone; `SealStep` is the
only case in which `OneAttempt` is at stake, `SendingStep` has one part per step of a dispatch.

### ChangeHistory

| Theorem | Statement |
|---|---|
| `OverrunAlwaysBounded` | `HistorySpec => []OverrunIsBounded` |
| `UndoAlwaysKept` | `HistorySpec => []UndoIsKept` |
| `RestoredMeansUndone` | `HistorySpec => []RestoredIsUndone` |
| `NothingIsLost` | `HistorySpec => LosesNothing` |

`Recorded` holds whatever workers and windows do. An entry on disk keeps its snapshots for ever
(`EntryGrows`: entries are added, and only their phase changes); so everything that once copied
them stays right: what a window lists or has in its job (`PanelsSound`), what a worker compares
with and writes (`ScriptsSound`), and what an apply left at the target (`AuthorSound`).
`UndoIsKept` is the last of these. The step that needs care is a prepared change that never made
it to the disk: its entry is absent until `Apply` persists it, and no other window has its id.
`Orderly` holds until a worker outlives its job or two windows meet in one change (`overtaken`): a
change in work has one window and one worker, and that worker does what the window's record says.
`RestoredIsUndone` needs it; without that condition it is false, as TLC shows. `OverrunIsBounded`
is about the limit of the journal, which does not hold: it is passed by less than the number of
windows. Inductive is the sum of entries and windows between count and write: a count is made
below the limit and adds one window, a write trades that window for an entry (`CountsSound`,
`OneMore`).

### RecoveryContracts

| Theorem | Statement |
|---|---|
| `ContractsCorrect` | `Spec => []ContractsInv` |
| `LoadsAlwaysSafe` | `Spec => []LoadsAreSafe` |
| `RefusalsAreKnown` | whenever no load succeeds, the lock is held, the marker is set or the journal is overfull |
| `OneEntryTooMany` | `Spec => [](Cardinality(pending) <= MaxPending + 1)` |
| `ApprovalsAreClean` | `Spec => []AllowedIsClean` |

The theorems about the change history and these share the module `SharedFiles_proofs`, in two
sections that do not use each other.

`LoadsAreSafe` is not inductive: the file is replaced by a copy some process has in memory, and
the journal is emptied afterwards. `ContractsInv` therefore says where knowledge is at all times.

- `FileKnows`: every published finding is known to the file, or still in the journal (`Covered`).
- `CopyKnows`: so is it to a copy that is still of the file (`current`), the only kind that may
  replace it; a copy that is not starts from the file again.
- `Replaced`: who has replaced the file, and not cleaned up, holds the lock and the only current
  copy, and the file has absorbed (`Absorbs`) every journal entry that is about to be removed.
- `WindowKnows`: the window's copy knows what the window found, and this was published, or is
  about to be (between the count and the entry), or the window is latched; a window that may act
  has saved all it knows (`mem = src`).

Knowing that a contract is barred is not enough: a renewal could wash off a finding made later
than the rehearsal it rests on. So `KnowsBad` says *since when* it is barred. Two facts carry the
steps: merging only adds (`Grown`, `MergeGrows`) and operations only add, or answer with a later
rehearsal (`Keeps`). A journal is read in any order, for which the model builds a set of results
by recursion over the entries not yet read; for any finite journal `MergedIsReads` shows that this
function exists, `MergedStays` that whatever every single merge keeps holds of all the results,
and `MergedSome` that there is one, each by a smallest counterexample.

What failed saves and races can do to loading is the subject of two theorems. `RefusalsAreKnown`:
contents never make the contracts unreadable, whatever was written halfway; a load is refused only
while another process has the lock, after a publication failed (the marker) or when the journal has
more entries than a reader takes. `OneEntryTooMany`: two processes that count before they write
leave one entry more than the limit, never two (`InHand`: entries and writes about to be made).

### CollaborationRoom

| Theorem | Statement |
|---|---|
| `RoomCorrect` | `RoomSpec => []RoomInv` |
| `ProposalsBelongToNow` | `RoomSpec => []ProposalsAreCurrent` |
| `VotesAreStanding` | `RoomSpec => []VotesStand` |
| `ConsumedAtMostOnce` | `RoomSpec => []ConsumedOnce` |
| `InputNeedsAgreement` | `RoomSpec => InputIsAgreed` |

`Good` says of a room that each live proposal is of the lease and the frame of the moment and
carries votes only of people who are there and whose right was not taken away (`GoodAsk`); every
command keeps it because `apply` first refreshes the room and whoever loses the lease clears the
proposals. `Answer` is about the window: the consumed request it waits for was agreed by two, and
if the lease has run out since, the request knows (`over`). That relates state on both sides of
the network and is what `InputIsAgreed` rests on.

### Mission

| Theorem | Statement |
|---|---|
| `MissionTypeCorrect` | `MissionSpec => []MissionTypeOK` |
| `FindingsAreCurrent` | `MissionSpec => []FindingIsOfLatest` |
| `CommandsOnRecord` | `MissionSpec => []CommandsAreOnRecord` |

`Good` says of a mission that its findings are no older than the commands that ran, and that
nothing ran, or has a job, of which it knows nothing; it holds of the mission in memory and of the
one in the file alike. `Current` is what makes it inductive: the only job that may still start is
the one the window waits for, and both memory and file show its step as running, so a command
never overtakes a finding. `JobsSound` says that jobs are numbered and the others are cancelled.

### InvestigatorWorker

| Theorem | Statement |
|---|---|
| `WorkerCorrect` | `WorkerSpec => []WorkerInv` |
| `OneCallerAtATime` | `WorkerSpec => []OneCaller` |
| `CallsArePaidFor` | `WorkerSpec => []CallsArePaid` |

`Leased`: a process in a tick holds the lease unless it outlived it, so two that did not are one.
`Knows`: what a worker in a run remembers of the runs paid for is what the checkpoint says, unless
its job went astray. `Paid`: no job that did not go astray has more calls than runs paid for, and
fewer when the next call is about to be made. `CallsArePaid` alone is not inductive: a worker's
memory of an old checkpoint would pay once and call twice.

### Only model-checked

The liveness properties (`RunsComeToRest`, `StepsSettle`, `JobsSettle`): fairness is about
ENABLED, which the prover does not support. Every other property of a passing run, invariants,
action properties and both refinements, is proved.

## 5. Observations without a run

Met while modelling; the models allow for them, and no document or test says otherwise clearly
enough to call them divergences.

- `change_history.rs:440`: leftovers of interrupted atomic writes count against the 128 entries,
  and `load` looks at 129 files only: with leftovers at the limit it refuses, or misses an entry.
- `change_history.rs:390-417`: two windows that count 127 entries at once both write one, and from
  then on `load` (`:424`) refuses the journal until a file is taken away by hand.
- `recovery_contracts.rs:488-499`: the same race of the window and the agent, with the journal of
  restrictions. Once it has more entries than `read_pending` takes (`:657`), every load and every
  save is refused; only a save that was cleaning up already can shorten it. No repair is approved
  meanwhile.
- `investigator/worker.rs:372`: the bytes of a page are added to the case's usage by a read and a
  write in two transactions, while `charge` adds calls in one of its own; a charge in between is
  lost. The worker's lease keeps workers apart, but not the reservation of a proposal.
- `investigator/worker.rs:640`: a worker that was suspended past its lease still writes its
  checkpoint when it wakes, over a newer one; `CallsArePaid` leaves such jobs out (`astray`).
- A pause that falls on the moment the five-minute claim ran out fails the job instead of putting
  it back; a crash between `jobs.complete` and the removal of `worker:active` lets a later tick
  take up a job that is done, until its claim runs out.
- A comparison whose answer arrives while the contracts window is barred is dropped
  (`contracts_panel.rs:208`); `AllowedIsClean` shows that approvals stay barred meanwhile.

## 6. Plan

1. *Done.* The core (`RepairRun`, `RepairAuthority`, `TeamRepair`, `EscalationOutbox`), the
   independent components of section 1, and proofs of their safety and action properties and of
   the refinements: of `RolloutLedger`, by the engine and by client and server together, and of
   `GovernedRollout`; every property that is not about liveness is a theorem (section 4).
2. *Components.* The helper's authority as an extension of `RepairAuthority` by corrections, then
   its journal and worker; creation and removal of contracts.
