--------------------------- MODULE InvestigatorWorker ---------------------------
(***************************************************************************)
(* The investigator's background worker: it takes a job, reads two sources *)
(* page by page, one page to a tick, and writes down how far it came.      *)
(*                                                                         *)
(*   src/src/investigator/worker.rs    ticks, checks, calls, checkpoints   *)
(*   src/src/investigator/core.rs      the job table and its leases        *)
(*   src/src/investigator/service.rs   the service's thread, stop, resume  *)
(*                                                                         *)
(* Two processes may tick on one SQLite file: the service and "worker-once". *)
(* A lease of 90 s keeps one out while the other ticks; a job is claimed   *)
(* with a lease of its own for 5 minutes, over many ticks.  Every write is *)
(* a transaction of its own, so a process may die between any two of them. *)
(***************************************************************************)
EXTENDS Naturals, FiniteSets

CONSTANTS
  Jobs, NoJob,
  Own,         \* jobs of the service's own: they need full readiness (A1)
  Workers,     \* processes that tick
  Service,     \* the one of them that ticks for ever
  NoOne, Gone,
  Budget,      \* runs with a call that a job's runtime pays for
  MaxFaults,   \* crashes and stalls
  Faults       \* "crash"; "stall": a process is suspended past its lease

ASSUME WorkerAssumption ==
  /\ Own \subseteq Jobs /\ NoJob \notin Jobs /\ Service \in Workers
  /\ {NoOne, Gone} \cap Workers = {} /\ NoOne # Gone
  /\ Budget \in Nat /\ MaxFaults \in Nat /\ Faults \subseteq {"crash", "stall"}

VARIABLES
  job,      \* investigator_jobs: state, and whether its lease has run out
  active,   \* worker:active: the claim the next tick goes on with
  mark,     \* worker:job: source, runs paid for, and whether a retry waits
  full,     \* worker:query: sources whose query is complete
  lock,     \* worker:lease
  worker,   \* the processes
  mode,     \* "stopped", "limited", or "ready": all that a1_ready asks for holds
  faults,   \* crashes and stalls so far
  stalled,  \* history: processes that outlived their lease in this tick
  astray,   \* history: jobs whose worker outlived its lease
  calls     \* history: runs of a job that reached a source

jobs       == <<job, active>>
notes      == <<mark, full>>
outside    == <<mode, faults>>
history    == <<astray, calls>>
workerVars == <<jobs, notes, lock, worker, outside, stalled, history>>

Sources  == {0, 1}
Settled  == {"completed", "failed"}
NoClaim  == [j |-> NoJob, cur |-> FALSE, over |-> FALSE]
Out      == [pc |-> "out", j |-> NoJob, cur |-> FALSE, src |-> 0, runs |-> 0, verdict |-> "none"]
Calling  == {"token", "fetch"}

AtPc(w, pc) == worker[w].pc = pc
GoTo(w, pc) == worker' = [worker EXCEPT ![w].pc = pc]
JobOf(w)    == worker[w].j
Holds(w)    == lock.owner = w /\ ~lock.over
Fit(j)      == IF j \in Own THEN mode = "ready" ELSE mode # "stopped"
Due(j)      == \/ job[j].state = "queued"
               \/ job[j].state \in {"running", "deferred"} /\ job[j].over

\* A claim is named by its lease: a later one makes every earlier one stale.
Mine(w) == worker[w].cur /\ job[JobOf(w)].state = "running"

-----------------------------------------------------------------------------
(* People and the outside world.                                           *)

\* investigation.start and connectors.probe; a job is never queued twice.
Enqueue(j) ==
  /\ mode # "stopped" /\ j \notin Own /\ job[j].state = "none"
  /\ job' = [job EXCEPT ![j].state = "queued"]
  /\ UNCHANGED <<active, notes, lock, worker, outside, stalled, history>>

\* A stop, a resume, a source's health, the notification channel or the budget turns.
ModeTurns ==
  /\ mode' \in {"stopped", "limited", "ready"} \ {mode}
  /\ UNCHANGED <<jobs, notes, lock, worker, faults, stalled, history>>

-----------------------------------------------------------------------------
(* A tick: take the lease, pick a job, run it, give the lease back.        *)

\* Mutant: a lease that was never given back is held for ever.
Take_Waits(w) ==
  /\ AtPc(w, "out") /\ lock.owner = NoOne
  /\ lock' = [owner |-> w, over |-> FALSE] /\ GoTo(w, "in")
  /\ UNCHANGED <<jobs, notes, outside, stalled, history>>

Take(w) ==
  /\ AtPc(w, "out") /\ (lock.owner = NoOne \/ lock.over)
  /\ lock' = [owner |-> w, over |-> FALSE] /\ GoTo(w, "in")
  /\ UNCHANGED <<jobs, notes, outside, stalled, history>>

\* After the sweep and the notifications the lease is renewed once more.
Look(w) ==
  /\ AtPc(w, "in") /\ GoTo(w, IF Holds(w) /\ mode # "stopped" THEN "picking" ELSE "leaving")
  /\ UNCHANGED <<jobs, notes, lock, outside, stalled, history>>

Pick(w, j, cur) == worker' = [worker EXCEPT ![w].pc = "picked", ![w].j = j, ![w].cur = cur]
Resumable == active.j # NoJob /\ ~active.over

GoOn(w) ==
  /\ AtPc(w, "picking") /\ Resumable /\ Pick(w, active.j, active.cur)
  /\ UNCHANGED <<jobs, notes, lock, outside, stalled, history>>

\* jobs.claim, one transaction; the code takes the oldest due job, here any.
Claim(w) ==
  /\ AtPc(w, "picking") /\ ~Resumable
  /\ \E j \in Jobs :
       /\ Due(j) /\ job' = [job EXCEPT ![j] = [state |-> "running", over |-> FALSE]]
       /\ worker' = [v \in Workers |->
            IF v = w THEN [worker[w] EXCEPT !.pc = "claimed", !.j = j, !.cur = TRUE]
            ELSE IF JobOf(v) = j THEN [worker[v] EXCEPT !.cur = FALSE] ELSE worker[v]]
       /\ active' = IF active.j = j THEN [active EXCEPT !.cur = FALSE] ELSE active
  /\ UNCHANGED <<notes, lock, outside, stalled, history>>

SetActive(w) ==
  /\ AtPc(w, "claimed") /\ GoTo(w, "picked")
  /\ active' = [j |-> JobOf(w), cur |-> worker[w].cur,
                over |-> worker[w].cur => job[JobOf(w)].over]
  /\ UNCHANGED <<job, notes, lock, outside, stalled, history>>

\* With nothing to do, the service looks for new alerts by a job of its own.
Poll(w) ==
  /\ AtPc(w, "picking") /\ ~Resumable /\ \A j \in Jobs : ~Due(j)
  /\ \/ UNCHANGED job
     \/ mode = "ready" /\ \E j \in Own :
          job[j].state = "none" /\ job' = [job EXCEPT ![j].state = "queued"]
  /\ GoTo(w, "leaving")
  /\ UNCHANGED <<active, notes, lock, outside, stalled, history>>

\* Mutant: whoever leaves takes the lease away.
Leave_TakesAway(w) ==
  /\ AtPc(w, "leaving") /\ worker' = [worker EXCEPT ![w] = Out]
  /\ lock' = [owner |-> NoOne, over |-> FALSE]
  /\ stalled' = stalled \ {w}
  /\ UNCHANGED <<jobs, notes, outside, history>>

Leave(w) ==
  /\ AtPc(w, "leaving") /\ worker' = [worker EXCEPT ![w] = Out]
  /\ lock' = IF lock.owner = w THEN [owner |-> NoOne, over |-> FALSE] ELSE lock
  /\ stalled' = stalled \ {w}
  /\ UNCHANGED <<jobs, notes, outside, history>>

-----------------------------------------------------------------------------
(* Running a job: checks before every call, checkpoints around it.         *)

\* ready_for_call: before a run and each of its calls, before an alert becomes a job,
\* before each playbook at the end, and after a call that failed.
Checks(w) ==
  \/ worker[w].pc \in {"picked", "paid", "granted", "failing"}
  \/ AtPc(w, "fetch") /\ worker[w].src = 0 /\ JobOf(w) \in Own
  \/ AtPc(w, "reading") /\ worker[w].src = 1

\* ready_for_call, when the lease is somebody else's by now.
Lost(w) ==
  /\ Checks(w) /\ ~Holds(w) /\ GoTo(w, "leaving")
  /\ UNCHANGED <<jobs, notes, lock, outside, stalled, history>>

\* ready_for_call, when the job may not go on now: it is put back for a minute, and
\* if its lease has run out that is an error, which fails the job like any other.
Pause(w) ==
  LET j == JobOf(w) IN
  /\ Checks(w) /\ Holds(w) /\ ~Fit(j)
  /\ IF Mine(w) /\ ~job[j].over
     THEN job' = [job EXCEPT ![j].state = "deferred"] /\ GoTo(w, "closing")
     ELSE job' = job /\ worker' = [worker EXCEPT ![w].pc = "settling", ![w].verdict = "failed"]
  /\ UNCHANGED <<active, notes, lock, outside, stalled, history>>

MayGoOn(w) == Holds(w) /\ Fit(JobOf(w))
Verdict(w, v) == worker' = [worker EXCEPT ![w].pc = "settling", ![w].verdict = v]

\* Mutant: the run is paid for when its answer is there.
Pay_Later(w) ==
  LET m == mark[JobOf(w)] IN
  /\ AtPc(w, "picked") /\ MayGoOn(w) /\ ~m.waits
  /\ m.runs < Budget /\ m.src \notin full[JobOf(w)]
  /\ worker' = [worker EXCEPT ![w].pc = "paid", ![w].src = m.src, ![w].runs = m.runs + 1]
  /\ UNCHANGED <<jobs, notes, lock, outside, stalled, history>>

\* The longest time a run can take is paid for, and written down, before it starts.
Pay(w) ==
  LET m == mark[JobOf(w)] IN
  /\ AtPc(w, "picked") /\ MayGoOn(w) /\ ~m.waits
  /\ m.runs < Budget /\ m.src \notin full[JobOf(w)]
  /\ mark' = [mark EXCEPT ![JobOf(w)].runs = @ + 1]
  /\ worker' = [worker EXCEPT ![w].pc = "paid", ![w].src = m.src, ![w].runs = m.runs + 1]
  /\ UNCHANGED <<jobs, full, lock, outside, stalled, history>>

\* Nothing to pay for: a retry is not due yet, the runtime is used up, or the source
\* was read by an earlier run that did not come to the next one.
NoRun(w) ==
  LET m == mark[JobOf(w)] IN
  /\ AtPc(w, "picked") /\ MayGoOn(w)
  /\ \/ m.waits /\ GoTo(w, "leaving")
     \/ ~m.waits /\ m.runs >= Budget /\ Verdict(w, "failed")
     \/ /\ ~m.waits /\ m.runs < Budget /\ m.src \in full[JobOf(w)]
        /\ worker' = [worker EXCEPT ![w].pc = "reading", ![w].src = m.src, ![w].runs = m.runs]
  /\ UNCHANGED <<jobs, notes, lock, outside, stalled, history>>

\* The case's budget is charged, everything is checked again, and the call is made:
\* first for a token, then for a page.
Call(w) ==
  LET j == JobOf(w) IN
  /\ worker[w].pc \in {"paid", "granted"} /\ MayGoOn(w)
  /\ \/ /\ GoTo(w, IF AtPc(w, "paid") THEN "token" ELSE "fetch")
        /\ calls' = [calls EXCEPT ![j] = IF AtPc(w, "paid") /\ @ <= Budget THEN @ + 1 ELSE @]
     \/ Verdict(w, "failed") /\ UNCHANGED calls
  /\ UNCHANGED <<jobs, notes, lock, outside, stalled, astray>>

Granted(w) ==
  /\ AtPc(w, "token") /\ GoTo(w, "granted")
  /\ UNCHANGED <<jobs, notes, lock, outside, stalled, history>>

\* No answer, and the source counts as unhealthy: a job of the service's own is put
\* back, another one is tried again later or fails.
CallFails(w) ==
  LET j == JobOf(w) IN
  /\ worker[w].pc \in Calling
  /\ mode' = IF mode = "ready" THEN "limited" ELSE mode
  /\ \/ j \in Own /\ GoTo(w, "failing") /\ UNCHANGED mark
     \/ j \notin Own /\ Verdict(w, "failed") /\ UNCHANGED mark
     \/ /\ j \notin Own /\ AtPc(w, "fetch") /\ GoTo(w, "leaving")
        /\ mark' = [mark EXCEPT ![j] =
             [src |-> worker[w].src, runs |-> worker[w].runs, waits |-> TRUE]]
  /\ UNCHANGED <<jobs, full, lock, faults, stalled, history>>

\* Everything is well again by the time of that check.
Recovers(w) ==
  /\ AtPc(w, "failing") /\ MayGoOn(w) /\ GoTo(w, "leaving")
  /\ UNCHANGED <<jobs, notes, lock, outside, stalled, history>>

\* A page, the last one or not: its records go into the case and its alerts become
\* jobs, then the query is written.  A page too many, or a cursor seen before, fails.
Page(w) ==
  LET j == JobOf(w)  s == worker[w].src IN
  /\ AtPc(w, "fetch")
  /\ \/ \E last \in BOOLEAN :
          /\ full' = [full EXCEPT ![j] = IF last THEN @ \cup {s} ELSE @ \ {s}]
          /\ GoTo(w, "filed")
     \/ UNCHANGED full /\ Verdict(w, "failed")
  /\ \/ UNCHANGED job
     \/ j \in Own /\ s = 0 /\ MayGoOn(w) /\ \E k \in Own :
          job[k].state = "none" /\ job' = [job EXCEPT ![k].state = "queued"]
  /\ UNCHANGED <<active, mark, lock, outside, stalled, astray, calls>>

\* The checkpoint after the page, from what this worker knows.
Checkpoint(w) ==
  LET j == JobOf(w) IN
  /\ AtPc(w, "filed")
  /\ mark' = [mark EXCEPT ![j] =
       [src |-> worker[w].src, runs |-> worker[w].runs, waits |-> FALSE]]
  /\ GoTo(w, IF worker[w].src \in full[j] THEN "reading" ELSE "leaving")
  /\ UNCHANGED <<jobs, full, lock, outside, stalled, history>>

\* The first source is followed by the second one in a later tick; after the second
\* the collectors and playbooks may run, each after another check, and the job is done.
NextSource(w) ==
  LET j == JobOf(w) IN
  /\ AtPc(w, "reading")
  /\ IF worker[w].src = 0
     THEN /\ mark' = [mark EXCEPT ![j] = [src |-> 1, runs |-> worker[w].runs, waits |-> @.waits]]
          /\ GoTo(w, "leaving")
     ELSE Verdict(w, "completed") /\ UNCHANGED mark
  /\ UNCHANGED <<jobs, full, lock, outside, stalled, history>>

\* jobs.complete and jobs.fail: only under the claim that is in the table.
Settle(w) ==
  LET j == JobOf(w) IN
  /\ AtPc(w, "settling")
  /\ IF Mine(w)
     THEN job' = [job EXCEPT ![j] = [state |-> worker[w].verdict, over |-> FALSE]] /\ GoTo(w, "closing")
     ELSE job' = job /\ GoTo(w, "leaving")
  /\ UNCHANGED <<active, notes, lock, outside, stalled, history>>

\* Whatever worker:active holds by now.
Close(w) ==
  /\ AtPc(w, "closing") /\ active' = NoClaim /\ GoTo(w, "leaving")
  /\ UNCHANGED <<job, notes, lock, outside, stalled, history>>

-----------------------------------------------------------------------------
(* Faults and clocks.                                                      *)

Dies(w) ==
  /\ "crash" \in Faults /\ faults < MaxFaults /\ ~AtPc(w, "out")
  /\ faults' = faults + 1 /\ worker' = [worker EXCEPT ![w] = Out]
  /\ lock' = IF lock.owner = w THEN [lock EXCEPT !.owner = Gone] ELSE lock
  /\ stalled' = stalled \ {w}
  /\ UNCHANGED <<jobs, notes, mode, history>>

\* Two calls of 15 s fit into the lease, so it outlasts its owner only if that is dead.
LockRunsOut ==
  /\ lock.owner = Gone /\ ~lock.over /\ lock' = [lock EXCEPT !.over = TRUE]
  /\ UNCHANGED <<jobs, notes, worker, outside, stalled, history>>

Stall(w) ==
  /\ "stall" \in Faults /\ faults < MaxFaults /\ lock.owner = w /\ ~lock.over
  /\ faults' = faults + 1 /\ stalled' = stalled \cup {w}
  /\ astray' = astray \cup ({JobOf(w)} \ {NoJob})
  /\ lock' = [lock EXCEPT !.over = TRUE]
  /\ UNCHANGED <<jobs, notes, worker, mode, calls>>

\* The lease of a running job is not renewed; a deferred one waits a minute.
JobRunsOut(j) ==
  /\ job[j].state \in {"running", "deferred"} /\ ~job[j].over
  /\ job' = [job EXCEPT ![j].over = TRUE]
  /\ active' = IF active.j = j /\ active.cur /\ job[j].state = "running"
               THEN [active EXCEPT !.over = TRUE] ELSE active
  /\ UNCHANGED <<notes, lock, worker, outside, stalled, history>>

\* What was left behind by a crash or a stall.
ActiveRunsOut ==
  /\ active.j # NoJob /\ ~active.over
  /\ ~(active.cur /\ job[active.j].state = "running")
  /\ active' = [active EXCEPT !.over = TRUE]
  /\ UNCHANGED <<job, notes, lock, worker, outside, stalled, history>>

WaitEnds(j) ==
  /\ mark[j].waits /\ mark' = [mark EXCEPT ![j].waits = FALSE]
  /\ UNCHANGED <<jobs, full, lock, worker, outside, stalled, history>>

-----------------------------------------------------------------------------

WorkerInit ==
  /\ job = [j \in Jobs |-> [state |-> "none", over |-> FALSE]] /\ active = NoClaim
  /\ mark = [j \in Jobs |-> [src |-> 0, runs |-> 0, waits |-> FALSE]]
  /\ full = [j \in Jobs |-> {}] /\ lock = [owner |-> NoOne, over |-> FALSE]
  /\ worker = [w \in Workers |-> Out] /\ mode = "limited"
  /\ faults = 0 /\ stalled = {} /\ astray = {}
  /\ calls = [j \in Jobs |-> 0]

Run(w) ==
  \/ Lost(w) \/ Pause(w) \/ Pay(w) \/ NoRun(w) \/ Call(w) \/ Granted(w) \/ CallFails(w) \/ Recovers(w)
  \/ Page(w) \/ Checkpoint(w) \/ NextSource(w) \/ Settle(w) \/ Close(w)

Tick(w) == Look(w) \/ GoOn(w) \/ Claim(w) \/ SetActive(w) \/ Poll(w) \/ Run(w) \/ Leave(w)

Clocks ==
  \/ LockRunsOut \/ ActiveRunsOut
  \/ \E j \in Jobs : JobRunsOut(j) \/ WaitEnds(j)

WorkerNext ==
  \/ \E j \in Jobs : Enqueue(j)
  \/ \E w \in Workers : Take(w) \/ Tick(w) \/ Dies(w) \/ Stall(w)
  \/ ModeTurns \/ Clocks

WorkerSpec == WorkerInit /\ [][WorkerNext]_workerVars

\* The service's thread ticks every five seconds for as long as the process lives, a
\* tick that was begun goes on, and time passes.
WorkerFairness ==
  /\ WF_workerVars(Take(Service)) /\ \A w \in Workers : WF_workerVars(Tick(w))
  /\ WF_workerVars(LockRunsOut \/ ActiveRunsOut) /\ WF_workerVars(\E j \in Jobs : WaitEnds(j))
  /\ WF_workerVars(\E j \in Jobs : JobRunsOut(j))

FairSpec == WorkerSpec /\ WorkerFairness

-----------------------------------------------------------------------------
(* Properties.                                                             *)

\* Two processes are never in a call to a source at once, unless one of them was
\* suspended for longer than its lease (tick, renew).
OneCaller ==
  \A v, w \in Workers \ stalled :
    (worker[v].pc \in Calling /\ worker[w].pc \in Calling) => v = w

\* However often it is interrupted, claimed again or resumed from its checkpoint, a job
\* reaches its sources no more often than its runtime was paid for beforehand, unless
\* its worker was suspended and wrote an old checkpoint over a newer one.
CallsArePaid == \A j \in Jobs \ astray : calls[j] <= Budget

\* Once the service stays ready, every job there is comes to its end, whatever crashed,
\* stalled, was paused or failed before.
AllSettled == \A j \in Jobs : job[j].state \in {"none"} \cup Settled
JobsSettle == <>[](mode = "ready") => <>[]AllSettled
=============================================================================
