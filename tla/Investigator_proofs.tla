-------------------------- MODULE Investigator_proofs --------------------------
(***************************************************************************)
(* What the investigator's worker and its response ledger guarantee.  They *)
(* share a service and a database, but no row and no lock: each has its    *)
(* invariant of its own, for any number of jobs, proposals, users, cases   *)
(* and processes, with crashes at every point.                             *)
(***************************************************************************)
EXTENDS InvestigatorWorker, InvestigatorResponse, TLAPS

-----------------------------------------------------------------------------
(* The worker.  The lease says who may be at work: a process in a tick     *)
(* that did not outlive its lease holds it.  So a job that no stalled      *)
(* process had in hand has one worker at most, and what that one remembers *)
(* of the runs paid for is what the checkpoint says.                       *)

Running == {"paid", "token", "granted", "fetch", "filed", "reading"}
Resting == {"out", "in", "picking", "leaving"}
Places  == Running \cup Resting \cup {"picked", "claimed", "failing", "settling", "closing"}

WorkerRecs == [pc : Places, j : Jobs \cup {NoJob}, cur : BOOLEAN, src : Sources, runs : Nat,
               verdict : {"none"} \cup Settled]
Marks      == [src : Sources, runs : Nat, waits : BOOLEAN]
JobRecs    == [state : {"none", "queued", "running", "deferred"} \cup Settled, over : BOOLEAN]
Claims     == [j : Jobs \cup {NoJob}, cur : BOOLEAN, over : BOOLEAN]

Typed ==
  /\ worker \in [Workers -> WorkerRecs] /\ mark \in [Jobs -> Marks]
  /\ calls \in [Jobs -> Nat] /\ stalled \subseteq Workers
  /\ active \in Claims /\ job \in [Jobs -> JobRecs]
  /\ lock \in [owner : Workers \cup {NoOne, Gone}, over : BOOLEAN]
  /\ \A w \in Workers : worker[w].pc \notin Resting => worker[w].j \in Jobs

\* Who is in a tick holds the lease, or outlived it, or it was never taken.
Leased ==
  /\ \A w \in Workers :
       /\ worker[w].pc # "out" /\ w \notin stalled => lock.owner = w
       /\ lock.owner = w => worker[w].pc # "out"
       /\ w \in stalled => worker[w].pc # "out" /\ (lock.owner = w => lock.over)
  /\ lock.over => lock.owner \in stalled \cup {Gone}

\* A worker in a run remembers how many runs its job paid for.
Knows ==
  \A w \in Workers : worker[w].pc \in Running =>
    \/ worker[w].j \in astray
    \/ w \notin stalled /\ worker[w].runs = mark[worker[w].j].runs

\* Every call was paid for before, the next one of a run that is paid for included.
Paid ==
  \A j \in Jobs \ astray :
    /\ mark[j].runs <= Budget /\ calls[j] <= mark[j].runs
    /\ \A w \in Workers : (worker[w].pc = "paid" /\ worker[w].j = j) => calls[j] < mark[j].runs

WorkerInv == Typed /\ Leased /\ Knows /\ Paid
\* One who holds a lease that has not run out did not outlive it.
LEMMA HolderIsWell ==
  ASSUME Leased, NEW w \in Workers, Holds(w) PROVE w \notin stalled
  BY DEF Leased, Holds

\* One step of a process in a tick, with what it may do to the checkpoints: nothing
\* that is said of the runs of a job whose worker did not outlive its lease changes.
LEMMA TickStep ==
  ASSUME WorkerInv, NEW w \in Workers, NEW x \in WorkerRecs,
         worker' = [worker EXCEPT ![w] = x], worker[w].pc # "out", x.pc \notin {"out", "paid"},
         x.pc \notin Resting => x.j \in Jobs, active' \in Claims, job' \in [Jobs -> JobRecs],
         UNCHANGED <<lock, stalled, astray, calls>>, mark' \in [Jobs -> Marks],
         \A j \in Jobs \ astray : mark'[j].runs = mark[j].runs,
         x.pc \in Running => \/ x.j \in astray
                             \/ w \notin stalled /\ x.runs = mark[x.j].runs
  PROVE  WorkerInv'
  <1>1. /\ worker \in [Workers -> WorkerRecs] /\ worker'[w] = x
        /\ \A v \in Workers : v # w => worker'[v] = worker[v]
    BY DEF WorkerInv, Typed, WorkerRecs
  <1>2. Typed'  BY <1>1 DEF WorkerInv, Typed, WorkerRecs, Marks
  <1>3. Leased'  BY <1>1 DEF WorkerInv, Leased
  <1>4. Knows'
    <2> SUFFICES ASSUME NEW v \in Workers, worker'[v].pc \in Running
                 PROVE  \/ worker'[v].j \in astray
                        \/ v \notin stalled /\ worker'[v].runs = mark'[worker'[v].j].runs
      BY DEF Knows
    <2>1. worker'[v].j \in Jobs  BY <1>2 DEF Typed, Running, Resting
    <2>2. \/ worker'[v].j \in astray
          \/ v \notin stalled /\ worker'[v].runs = mark[worker'[v].j].runs
      BY <1>1 DEF WorkerInv, Knows
    <2> QED BY <2>1, <2>2
  <1>5. Paid'  BY <1>1 DEF WorkerInv, Paid
  <1> QED BY <1>2, <1>3, <1>4, <1>5 DEF WorkerInv

\* The steps of a tick that leave the checkpoints alone.
LEMMA QuietStep ==
  ASSUME WorkerInv, NEW w \in Workers, NEW x \in WorkerRecs,
         worker' = [worker EXCEPT ![w] = x], worker[w].pc # "out", x.pc \notin {"out", "paid"},
         x.pc \notin Resting => x.j \in Jobs, active' \in Claims, job' \in [Jobs -> JobRecs],
         UNCHANGED <<lock, stalled, astray, calls, mark>>,
         x.pc \in Running => \/ x.j \in astray
                             \/ w \notin stalled /\ x.runs = mark[x.j].runs
  PROVE  WorkerInv'
  BY TickStep DEF WorkerInv, Typed, Marks

\* Going on to another place of the tick, with nothing else to remember.
LEMMA GoStep ==
  ASSUME WorkerInv, NEW w \in Workers, NEW pc \in Places, GoTo(w, pc), worker[w].pc # "out",
         pc \notin {"out", "paid"}, pc \notin Resting => worker[w].pc \notin Resting,
         pc \in Running => worker[w].pc \in Running,
         active' \in Claims, job' \in [Jobs -> JobRecs], UNCHANGED <<lock, stalled, astray, calls, mark>>
  PROVE  WorkerInv'
  <1> DEFINE x == [worker[w] EXCEPT !.pc = pc]
  <1>1. worker[w] \in WorkerRecs  BY DEF WorkerInv, Typed, WorkerRecs
  <1>2. /\ x \in WorkerRecs /\ x.pc = pc /\ x.j = worker[w].j /\ x.runs = worker[w].runs
        /\ worker' = [worker EXCEPT ![w] = x]
    BY <1>1 DEF WorkerRecs, GoTo
  <1> HIDE DEF x
  <1>3. pc \notin Resting => worker[w].j \in Jobs  BY DEF WorkerInv, Typed
  <1>4. pc \in Running => \/ worker[w].j \in astray
                          \/ w \notin stalled /\ worker[w].runs = mark[worker[w].j].runs
    BY DEF WorkerInv, Knows
  <1> QED BY <1>2, <1>3, <1>4, QuietStep

\* A verdict is waiting to be written down.
LEMMA VerdictStep ==
  ASSUME WorkerInv, NEW w \in Workers, NEW v \in Settled, Verdict(w, v), worker[w].pc \notin Resting,
         active' \in Claims, job' \in [Jobs -> JobRecs], UNCHANGED <<lock, stalled, astray, calls, mark>>
  PROVE  WorkerInv'
  <1> DEFINE x == [worker[w] EXCEPT !.pc = "settling", !.verdict = v]
  <1>1. worker[w] \in WorkerRecs  BY DEF WorkerInv, Typed, WorkerRecs
  <1>2. /\ x \in WorkerRecs /\ x.pc = "settling" /\ x.j = worker[w].j
        /\ worker' = [worker EXCEPT ![w] = x]
    BY <1>1 DEF WorkerRecs, Verdict, Places
  <1> HIDE DEF x
  <1>3. worker[w].j \in Jobs  BY DEF WorkerInv, Typed
  <1> QED BY <1>2, <1>3, QuietStep DEF Resting, Running
-----------------------------------------------------------------------------
(* The invariant, one action at a time.                                    *)

\* Nothing is paid for, and nobody is at work, at the start.
LEMMA WorkerInitInv == ASSUME WorkerInit PROVE WorkerInv
  <1>1. Out \in WorkerRecs /\ Out.pc = "out"  BY DEF Out, WorkerRecs, Places, Resting, Sources
  <1>2. Typed
    <2>1. worker \in [Workers -> WorkerRecs] /\ \A w \in Workers : worker[w] = Out
      BY <1>1 DEF WorkerInit
    <2>2. mark \in [Jobs -> Marks]  BY DEF WorkerInit, Marks, Sources
    <2>3. active \in Claims /\ job \in [Jobs -> JobRecs]  BY DEF WorkerInit, NoClaim, Claims, JobRecs
    <2> QED BY <1>1, <2>1, <2>2, <2>3 DEF WorkerInit, Typed, Resting
  <1>3. Leased /\ Knows  BY <1>1, WorkerAssumption DEF WorkerInit, Leased, Knows, Running
  <1>4. Paid
    <2>1. \A j \in Jobs : mark[j].runs = 0 /\ calls[j] = 0  BY DEF WorkerInit
    <2> QED BY <1>1, <2>1, WorkerAssumption DEF WorkerInit, Paid
  <1> QED BY <1>2, <1>3, <1>4 DEF WorkerInv
\* The steps of a tick before a job is at hand, and after it was put away.
LEMMA TickInv ==
  ASSUME WorkerInv, NEW w \in Workers, Look(w) \/ GoOn(w) \/ SetActive(w) \/ Poll(w) \/ Close(w)
  PROVE  WorkerInv'
  <1>1. active \in Claims /\ worker[w] \in WorkerRecs /\ job \in [Jobs -> JobRecs]
    BY DEF WorkerInv, Typed
  <1>2. CASE Look(w)
    BY <1>1, <1>2, GoStep DEF Look, AtPc, Places, Resting, Running, jobs, notes, history
  <1>3. CASE GoOn(w)
    <2> DEFINE x == [worker[w] EXCEPT !.pc = "picked", !.j = active.j, !.cur = active.cur]
    <2>1. /\ worker[w].pc = "picking" /\ worker' = [worker EXCEPT ![w] = x] /\ active.j \in Jobs
          /\ active' = active /\ job' = job /\ UNCHANGED <<lock, stalled, astray, calls, mark>>
      BY <1>1, <1>3 DEF GoOn, AtPc, Resumable, Pick, jobs, notes, history, Claims
    <2>2. x \in WorkerRecs /\ x.pc = "picked" /\ x.j = active.j
      BY <1>1, <2>1 DEF WorkerRecs, Claims, Places
    <2> HIDE DEF x
    <2> QED BY <1>1, <2>1, <2>2, QuietStep DEF Running
  <1>4. CASE SetActive(w)
    <2>1. worker[w].pc = "claimed" /\ GoTo(w, "picked") /\ job' = job  BY <1>4 DEF SetActive, AtPc
    <2>2. UNCHANGED <<lock, stalled, astray, calls, mark>>  BY <1>4 DEF SetActive, notes, history
    <2>3. worker[w].j \in Jobs  BY <2>1 DEF WorkerInv, Typed, Resting
    <2>4. job[worker[w].j].over \in BOOLEAN /\ worker[w].cur \in BOOLEAN
      BY <1>1, <2>3 DEF JobRecs, WorkerRecs
    <2>5. active' \in Claims  BY <1>4, <2>3, <2>4 DEF SetActive, Claims, JobOf
    <2> QED BY <1>1, <2>1, <2>2, <2>5, GoStep DEF Places, Resting, Running
  <1>5. CASE Poll(w)
    <2>1. job' \in [Jobs -> JobRecs]  BY <1>1, <1>5 DEF Poll, JobRecs
    <2> QED BY <1>1, <1>5, <2>1, GoStep DEF Poll, AtPc, Places, Resting, Running, notes, history
  <1>6. CASE Close(w)
    <2>1. NoClaim \in Claims  BY DEF NoClaim, Claims
    <2> QED BY <1>1, <2>1, <1>6, GoStep DEF Close, AtPc, Places, Resting, Running, notes, history
  <1> QED BY <1>2, <1>3, <1>4, <1>5, <1>6

\* A claim makes every earlier one of the job stale, in whosever hand it is.
LEMMA ClaimInv == ASSUME WorkerInv, NEW w \in Workers, Claim(w) PROVE WorkerInv'
  <1>1. PICK j \in Jobs :
          /\ job' = [job EXCEPT ![j] = [state |-> "running", over |-> FALSE]]
          /\ worker' = [v \in Workers |->
               IF v = w THEN [worker[w] EXCEPT !.pc = "claimed", !.j = j, !.cur = TRUE]
               ELSE IF JobOf(v) = j THEN [worker[v] EXCEPT !.cur = FALSE] ELSE worker[v]]
          /\ active' = IF active.j = j THEN [active EXCEPT !.cur = FALSE] ELSE active
    BY DEF Claim
  <1>2. worker[w].pc = "picking" /\ UNCHANGED <<mark, lock, stalled, astray, calls>>
    BY DEF Claim, AtPc, notes, history
  <1>3. active \in Claims /\ worker \in [Workers -> WorkerRecs] /\ job \in [Jobs -> JobRecs]
    BY DEF WorkerInv, Typed
  <1>4. job' \in [Jobs -> JobRecs]  BY <1>1, <1>3 DEF JobRecs
  <1>5. active' \in Claims  BY <1>1, <1>3 DEF Claims
  <1>6. /\ worker'[w] \in WorkerRecs /\ worker'[w].pc = "claimed" /\ worker'[w].j = j
        /\ \A v \in Workers \ {w} : /\ worker'[v] \in WorkerRecs /\ worker'[v].pc = worker[v].pc
                                    /\ worker'[v].j = worker[v].j /\ worker'[v].runs = worker[v].runs
    BY <1>1, <1>3 DEF WorkerRecs, Places
  <1>7. worker' \in [Workers -> WorkerRecs]  BY <1>1, <1>6
  <1>8. Typed'  BY <1>2, <1>4, <1>5, <1>6, <1>7 DEF WorkerInv, Typed
  <1>9. Leased'  BY <1>2, <1>6 DEF WorkerInv, Leased
  <1>10. Knows'  BY <1>2, <1>6 DEF WorkerInv, Knows, Running
  <1>11. Paid'  BY <1>2, <1>6 DEF WorkerInv, Paid
  <1> QED BY <1>8, <1>9, <1>10, <1>11 DEF WorkerInv

\* Who takes the lease is the only one at work that did not outlive it; who leaves
\* or dies takes nobody else's lease along.
LEMMA LeaseInv ==
  ASSUME WorkerInv, NEW w \in Workers, Take(w) \/ Leave(w) \/ Dies(w) \/ Stall(w)
  PROVE  WorkerInv'
  <1>1. /\ worker \in [Workers -> WorkerRecs] /\ Typed /\ Leased /\ Knows /\ Paid
        /\ Out \in WorkerRecs /\ Out.pc = "out"
    BY DEF WorkerInv, Typed, Out, WorkerRecs, Places, Resting, Sources
  <1>2. lock \in [owner : Workers \cup {NoOne, Gone}, over : BOOLEAN]  BY DEF WorkerInv, Typed
  <1>3. /\ active' = active /\ job' = job /\ mark' = mark /\ calls' = calls
    BY DEF Take, Leave, Dies, Stall, jobs, notes, history
  <1>4. CASE Take(w)
    <2> DEFINE x == [worker[w] EXCEPT !.pc = "in"]
    <2>1. /\ worker[w].pc = "out" /\ worker' = [worker EXCEPT ![w] = x] /\ stalled' = stalled
          /\ astray' = astray /\ lock' = [owner |-> w, over |-> FALSE]
          /\ lock.owner = NoOne \/ lock.over
      BY <1>4 DEF Take, AtPc, GoTo, history
    <2>2. x \in WorkerRecs /\ x.pc = "in"  BY <1>1 DEF WorkerRecs, Places, Resting
    <2> HIDE DEF x
    <2>3. worker'[w] = x /\ \A v \in Workers : v # w => worker'[v] = worker[v]  BY <1>1, <2>1
    <2>4. Typed'  BY <1>1, <1>3, <2>1, <2>2, <2>3 DEF Typed, Resting
    <2>5. Leased'  BY <1>1, <2>1, <2>2, <2>3, WorkerAssumption DEF Leased
    <2>6. Knows' /\ Paid'  BY <1>1, <1>3, <2>1, <2>2, <2>3 DEF Knows, Paid, Running
    <2> QED BY <2>4, <2>5, <2>6 DEF WorkerInv
  <1>5. CASE Leave(w) \/ Dies(w)
    <2>1. /\ worker' = [worker EXCEPT ![w] = Out] /\ stalled' = stalled \ {w} /\ astray' = astray
          /\ worker[w].pc # "out"
          /\ \/ lock.owner = w /\ lock' = [owner |-> NoOne, over |-> FALSE]
             \/ lock.owner = w /\ lock' = [lock EXCEPT !.owner = Gone]
             \/ lock.owner # w /\ lock' = lock
      BY <1>5 DEF Leave, Dies, AtPc, history
    <2>2. worker'[w] = Out /\ \A v \in Workers : v # w => worker'[v] = worker[v]  BY <1>1, <2>1
    <2>3. Typed'
      <3>1. lock' \in [owner : Workers \cup {NoOne, Gone}, over : BOOLEAN]
        <4>1. CASE lock' = [owner |-> NoOne, over |-> FALSE]  BY <4>1
        <4>2. CASE lock' = [lock EXCEPT !.owner = Gone]  BY <1>2, <4>2
        <4> QED BY <1>2, <2>1, <4>1, <4>2
      <3> QED BY <1>1, <1>3, <2>1, <2>2, <3>1 DEF Typed, Resting
    <2>4. Leased'  BY <1>1, <1>2, <2>1, <2>2, WorkerAssumption DEF Leased
    <2>5. Knows' /\ Paid'  BY <1>1, <1>3, <2>1, <2>2 DEF Knows, Paid, Running
    <2> QED BY <2>3, <2>4, <2>5 DEF WorkerInv
  <1>6. CASE Stall(w)
    <2>1. /\ worker' = worker /\ stalled' = stalled \cup {w} /\ lock.owner = w
          /\ astray' = astray \cup ({worker[w].j} \ {NoJob}) /\ lock' = [lock EXCEPT !.over = TRUE]
      BY <1>6 DEF Stall, JobOf
    <2>2. Typed'  BY <1>1, <1>2, <1>3, <2>1 DEF Typed
    <2>3. lock'.owner = w /\ lock'.over  BY <1>2, <2>1
    <2>4. Leased'  BY <1>1, <2>1, <2>3 DEF Leased
    <2>5. \A v \in Workers : worker[v].pc \in Running => worker[v].j # NoJob
      BY <1>1, WorkerAssumption DEF Typed, Running, Resting
    <2>6. Knows' /\ Paid'  BY <1>1, <1>3, <2>1, <2>5 DEF Knows, Paid
    <2> QED BY <2>2, <2>4, <2>6 DEF WorkerInv
  <1> QED BY <1>4, <1>5, <1>6
\* Before a run is paid for, and when nothing is: lost leases, pauses, other waits.
LEMMA CheckInv ==
  ASSUME WorkerInv, NEW w \in Workers, Lost(w) \/ Pause(w) \/ NoRun(w) \/ Recovers(w)
  PROVE  WorkerInv'
  <1>1. active \in Claims /\ worker[w] \in WorkerRecs /\ job \in [Jobs -> JobRecs] /\ mark \in [Jobs -> Marks]
    BY DEF WorkerInv, Typed
  <1>2. /\ worker[w].pc \notin Resting /\ active' = active
        /\ UNCHANGED <<lock, stalled, astray, calls, mark>>
    BY DEF Lost, Pause, NoRun, Recovers, Checks, AtPc, Resting, jobs, notes, history
  <1>3. worker[w].pc # "out" /\ worker[w].j \in Jobs  BY <1>2 DEF Resting, WorkerInv, Typed
  <1>4. CASE Lost(w) \/ Recovers(w)
    BY <1>1, <1>2, <1>3, <1>4, GoStep DEF Lost, Recovers, jobs, Places, Resting, Running
  <1>5. CASE Pause(w)
    <2>1. CASE GoTo(w, "closing")
      <3>1. job' \in [Jobs -> JobRecs]  BY <1>1, <1>5 DEF Pause, JobRecs
      <3> QED BY <1>1, <1>2, <1>3, <2>1, <3>1, GoStep DEF Places, Resting, Running
    <2>2. CASE job' = job /\ Verdict(w, "failed")
      BY <1>1, <1>2, <2>2, VerdictStep DEF Settled
    <2> QED BY <1>5, <2>1, <2>2 DEF Pause, Verdict
  <1>6. CASE NoRun(w)
    <2> DEFINE m == mark[worker[w].j]
               x == [worker[w] EXCEPT !.pc = "reading", !.src = m.src, !.runs = m.runs]
    <2>1. job' = job /\ Holds(w)  BY <1>6 DEF NoRun, MayGoOn, jobs
    <2>2. CASE GoTo(w, "leaving")
      BY <1>1, <1>2, <1>3, <2>1, <2>2, GoStep DEF Places, Resting, Running
    <2>3. CASE Verdict(w, "failed")  BY <1>1, <1>2, <2>1, <2>3, VerdictStep DEF Settled
    <2>4. CASE worker' = [worker EXCEPT ![w] = x]
      <3>1. m \in Marks  BY <1>1, <1>3
      <3> HIDE DEF m
      <3>2. x \in WorkerRecs /\ x.pc = "reading" /\ x.j = worker[w].j /\ x.runs = m.runs
        BY <1>1, <3>1 DEF WorkerRecs, Marks, Places, Running
      <3>3. w \notin stalled  BY <2>1, HolderIsWell DEF WorkerInv
      <3>4. m = mark[worker[w].j]  BY DEF m
      <3> HIDE DEF x
      <3> QED BY <1>1, <1>2, <1>3, <2>1, <2>4, <3>2, <3>3, <3>4, QuietStep
    <2> QED BY <1>6, <2>2, <2>3, <2>4 DEF NoRun, JobOf
  <1> QED BY <1>4, <1>5, <1>6

\* A run is paid for by the one that holds the lease, so nobody else has the job in hand.
LEMMA PayInv == ASSUME WorkerInv, NEW w \in Workers, Pay(w) PROVE WorkerInv'
  <1> DEFINE j == worker[w].j
             m == mark[j]
             x == [worker[w] EXCEPT !.pc = "paid", !.src = m.src, !.runs = m.runs + 1]
  <1>1. /\ worker[w].pc = "picked" /\ Holds(w) /\ m.runs < Budget
        /\ mark' = [mark EXCEPT ![j].runs = @ + 1] /\ worker' = [worker EXCEPT ![w] = x]
        /\ UNCHANGED <<job, active, lock, stalled, astray, calls>>
    BY DEF Pay, AtPc, MayGoOn, JobOf, jobs, history
  <1>2. /\ worker \in [Workers -> WorkerRecs] /\ mark \in [Jobs -> Marks] /\ calls \in [Jobs -> Nat]
        /\ j \in Jobs
    BY <1>1 DEF WorkerInv, Typed, Resting
  <1>3. m \in Marks /\ m.runs \in Nat /\ Budget \in Nat  BY <1>2, WorkerAssumption DEF Marks
  <1>4. lock.owner = w /\ w \notin stalled  BY <1>1, HolderIsWell DEF WorkerInv, Holds
  <1>5. /\ mark' \in [Jobs -> Marks] /\ mark'[j].runs = m.runs + 1
        /\ \A k \in Jobs : k # j => mark'[k] = mark[k]
    BY <1>1, <1>2, <1>3 DEF Marks
  <1>6. x \in WorkerRecs /\ x.pc = "paid" /\ x.j = j /\ x.runs = m.runs + 1
    <2>1. worker[w] \in WorkerRecs /\ m.runs + 1 \in Nat /\ m.src \in Sources  BY <1>2, <1>3 DEF Marks
    <2> HIDE DEF m, j
    <2>2. x \in WorkerRecs /\ x.pc = "paid" /\ x.j = worker[w].j /\ x.runs = m.runs + 1
      BY <2>1 DEF WorkerRecs, Places, Running
    <2> QED BY <2>2 DEF j
  <1> HIDE DEF x
  <1>7. worker'[w] = x /\ \A v \in Workers : v # w => worker'[v] = worker[v]  BY <1>1, <1>2
  <1>8. \A v \in Workers : v # w /\ worker[v].pc \in Running => worker[v].j # j \/ j \in astray
    BY <1>4 DEF WorkerInv, Knows, Leased, Running
  <1>9. Typed'  BY <1>1, <1>2, <1>5, <1>6, <1>7 DEF WorkerInv, Typed
  <1>10. Leased'  BY <1>1, <1>6, <1>7 DEF WorkerInv, Leased
  <1>11. Knows'
    <2> SUFFICES ASSUME NEW v \in Workers, worker'[v].pc \in Running
                 PROVE  \/ worker'[v].j \in astray
                        \/ v \notin stalled /\ worker'[v].runs = mark'[worker'[v].j].runs
      BY <1>1 DEF Knows
    <2>1. CASE v = w  BY <1>4, <1>5, <1>6, <1>7, <2>1
    <2>2. CASE v # w
      <3>1. worker'[v] = worker[v] /\ worker[v].j \in Jobs
        BY <1>7, <2>2 DEF WorkerInv, Typed, Running, Resting
      <3> QED BY <1>5, <1>8, <2>2, <3>1 DEF WorkerInv, Knows
    <2> QED BY <2>1, <2>2
  <1>12. Paid'
    <2> SUFFICES ASSUME NEW k \in Jobs \ astray
                 PROVE  /\ mark'[k].runs <= Budget /\ calls[k] <= mark'[k].runs
                        /\ \A v \in Workers : (worker'[v].pc = "paid" /\ worker'[v].j = k) =>
                             calls[k] < mark'[k].runs
      BY <1>1 DEF Paid
    <2>1. calls[k] \in Nat /\ mark[k].runs \in Nat  BY <1>2 DEF Marks
    <2>2. CASE k = j  BY <1>1, <1>3, <1>5, <2>1, <2>2 DEF WorkerInv, Paid
    <2>3. CASE k # j  BY <1>5, <1>6, <1>7, <2>3 DEF WorkerInv, Paid
    <2> QED BY <2>2, <2>3
  <1> QED BY <1>9, <1>10, <1>11, <1>12 DEF WorkerInv

\* The first call of a run uses up what was paid for it; the others are part of it.
LEMMA CallInv == ASSUME WorkerInv, NEW w \in Workers, Call(w) PROVE WorkerInv'
  <1> DEFINE j == worker[w].j
  <1>1. /\ worker[w].pc \in {"paid", "granted"} /\ Holds(w)
        /\ UNCHANGED <<job, active, lock, stalled, astray, mark>>
    BY DEF Call, MayGoOn, jobs, notes
  <1>2. /\ worker \in [Workers -> WorkerRecs] /\ mark \in [Jobs -> Marks] /\ calls \in [Jobs -> Nat]
        /\ j \in Jobs /\ active \in Claims /\ job \in [Jobs -> JobRecs]
    BY <1>1 DEF WorkerInv, Typed, Resting
  <1>3. CASE UNCHANGED calls /\ Verdict(w, "failed")
    BY <1>1, <1>2, <1>3, VerdictStep DEF Settled, Resting
  <1>4. CASE worker[w].pc = "granted" /\ ~(UNCHANGED calls /\ Verdict(w, "failed"))
    <2>1. GoTo(w, "fetch") /\ calls' = calls  BY <1>2, <1>4 DEF Call, AtPc, JobOf
    <2> QED BY <1>1, <1>2, <1>4, <2>1, GoStep DEF Places, Resting, Running
  <1>5. CASE worker[w].pc = "paid" /\ ~(UNCHANGED calls /\ Verdict(w, "failed"))
    <2> DEFINE x == [worker[w] EXCEPT !.pc = "token"]
    <2>1. /\ worker' = [worker EXCEPT ![w] = x]
          /\ calls' = [calls EXCEPT ![j] = IF @ <= Budget THEN @ + 1 ELSE @]
      BY <1>5 DEF Call, AtPc, JobOf, GoTo
    <2>2. x \in WorkerRecs /\ x.pc = "token" /\ x.j = j /\ x.runs = worker[w].runs
      BY <1>2 DEF WorkerRecs, Places, Running
    <2> HIDE DEF x
    <2>3. worker'[w] = x /\ \A v \in Workers : v # w => worker'[v] = worker[v]  BY <1>2, <2>1
    <2>4. /\ calls' \in [Jobs -> Nat] /\ calls'[j] \in {calls[j], calls[j] + 1}
          /\ \A k \in Jobs : k # j => calls'[k] = calls[k]
      BY <1>2, <2>1
    <2>5. lock.owner = w /\ w \notin stalled  BY <1>1, HolderIsWell DEF WorkerInv, Holds
    <2>6. \A v \in Workers : v # w /\ worker[v].pc \in Running => worker[v].j # j \/ j \in astray
      BY <2>5 DEF WorkerInv, Knows, Leased, Running
    <2>7. Typed'  BY <1>1, <1>2, <2>2, <2>3, <2>4, <2>1 DEF WorkerInv, Typed
    <2>8. Leased'  BY <1>1, <2>2, <2>3, <1>5 DEF WorkerInv, Leased
    <2>9. Knows'  BY <1>1, <1>5, <2>2, <2>3 DEF WorkerInv, Knows, Running
    <2>10. Paid'
      <3> SUFFICES ASSUME NEW k \in Jobs \ astray
                   PROVE  /\ mark[k].runs <= Budget /\ calls'[k] <= mark[k].runs
                          /\ \A v \in Workers : (worker'[v].pc = "paid" /\ worker'[v].j = k) =>
                               calls'[k] < mark[k].runs
        BY <1>1 DEF Paid
      <3>1. calls[k] \in Nat /\ mark[k].runs \in Nat  BY <1>2 DEF Marks
      <3>2. CASE k = j
        <4>1. calls[k] < mark[k].runs /\ mark[k].runs <= Budget
          BY <1>5, <3>2 DEF WorkerInv, Paid
        <4>2. \A v \in Workers : ~(worker'[v].pc = "paid" /\ worker'[v].j = k)
          BY <2>2, <2>3, <2>6, <3>2 DEF Running
        <4> QED BY <2>4, <3>1, <3>2, <4>1, <4>2
      <3>3. CASE k # j  BY <2>2, <2>3, <2>4, <3>3 DEF WorkerInv, Paid
      <3> QED BY <3>2, <3>3
    <2> QED BY <2>7, <2>8, <2>9, <2>10 DEF WorkerInv
  <1> QED BY <1>1, <1>3, <1>4, <1>5
\* While the answer of a source is on its way, and when it is there or fails.
LEMMA AnswerInv ==
  ASSUME WorkerInv, NEW w \in Workers, Granted(w) \/ CallFails(w) \/ Page(w)
  PROVE  WorkerInv'
  <1>1. /\ active \in Claims /\ worker[w] \in WorkerRecs /\ job \in [Jobs -> JobRecs]
        /\ mark \in [Jobs -> Marks]
    BY DEF WorkerInv, Typed
  <1>2. /\ worker[w].pc \in Calling /\ active' = active
        /\ UNCHANGED <<lock, stalled, astray, calls>>
    BY DEF Granted, CallFails, Page, AtPc, Calling, jobs, notes, history
  <1>3. worker[w].pc # "out" /\ worker[w].j \in Jobs  BY <1>2 DEF Calling, Resting, WorkerInv, Typed
  <1>4. CASE Granted(w)
    BY <1>1, <1>2, <1>4, GoStep DEF Granted, jobs, notes, Places, Resting, Running, Calling
  <1>5. CASE CallFails(w)
    <2>1. job' = job  BY <1>5 DEF CallFails, jobs
    <2>2. CASE mark' = mark /\ (GoTo(w, "failing") \/ Verdict(w, "failed"))
      <3>1. CASE GoTo(w, "failing")
        BY <1>1, <1>2, <2>1, <2>2, <3>1, GoStep DEF Places, Resting, Running, Calling
      <3>2. CASE Verdict(w, "failed")
        BY <1>1, <1>2, <2>1, <2>2, <3>2, VerdictStep DEF Settled, Resting, Calling
      <3> QED BY <2>2, <3>1, <3>2
    <2>3. CASE /\ GoTo(w, "leaving")
               /\ mark' = [mark EXCEPT ![worker[w].j] =
                    [src |-> worker[w].src, runs |-> worker[w].runs, waits |-> TRUE]]
      <3> DEFINE x == [worker[w] EXCEPT !.pc = "leaving"]
      <3>1. x \in WorkerRecs /\ x.pc = "leaving" /\ worker' = [worker EXCEPT ![w] = x]
        BY <1>1, <2>3 DEF WorkerRecs, GoTo, Places, Resting
      <3> HIDE DEF x
      <3>2. mark' \in [Jobs -> Marks]  BY <1>1, <2>3 DEF WorkerRecs, Marks
      <3>3. worker[w].j \notin astray => worker[w].runs = mark[worker[w].j].runs
        BY <1>2 DEF WorkerInv, Knows, Calling, Running
      <3>4. \A k \in Jobs \ astray : mark'[k].runs = mark[k].runs  BY <1>1, <1>3, <2>3, <3>3
      <3> QED BY <1>1, <1>2, <1>3, <2>1, <3>1, <3>2, <3>4, TickStep DEF Resting, Running
    <2> QED BY <1>5, <2>2, <2>3 DEF CallFails, JobOf
  <1>6. CASE Page(w)
    <2>1. job' \in [Jobs -> JobRecs]  BY <1>1, <1>6 DEF Page, JobRecs
    <2>2. mark' = mark /\ (GoTo(w, "filed") \/ Verdict(w, "failed"))  BY <1>6 DEF Page
    <2>3. CASE GoTo(w, "filed")
      BY <1>1, <1>2, <2>1, <2>2, <2>3, GoStep DEF Places, Resting, Running, Calling
    <2>4. CASE Verdict(w, "failed")
      BY <1>1, <1>2, <2>1, <2>2, <2>4, VerdictStep DEF Settled, Resting, Calling
    <2> QED BY <2>2, <2>3, <2>4
  <1> QED BY <1>4, <1>5, <1>6

\* A checkpoint says of the runs of a job what it said before, unless the worker that
\* writes it outlived its lease.
LEMMA WriteInv ==
  ASSUME WorkerInv, NEW w \in Workers, Checkpoint(w) \/ NextSource(w) \/ Settle(w)
  PROVE  WorkerInv'
  <1> DEFINE j == worker[w].j
  <1>1. /\ active \in Claims /\ worker[w] \in WorkerRecs /\ job \in [Jobs -> JobRecs]
        /\ mark \in [Jobs -> Marks]
    BY DEF WorkerInv, Typed
  <1>2. /\ worker[w].pc \in {"filed", "reading", "settling"} /\ active' = active
        /\ UNCHANGED <<lock, stalled, astray, calls>>
    BY DEF Checkpoint, NextSource, Settle, AtPc, jobs, notes, history
  <1>3. worker[w].pc # "out" /\ j \in Jobs  BY <1>2 DEF Resting, WorkerInv, Typed
  <1>4. ASSUME NEW pc \in {"reading", "leaving"}, NEW s \in Sources, NEW u \in BOOLEAN, GoTo(w, pc),
               worker[w].pc \in {"filed", "reading"}, job' = job,
               mark' = [mark EXCEPT ![j] = [src |-> s, runs |-> worker[w].runs, waits |-> u]]
        PROVE  WorkerInv'
    <2> DEFINE x == [worker[w] EXCEPT !.pc = pc]
    <2>1. /\ x \in WorkerRecs /\ x.pc = pc /\ worker' = [worker EXCEPT ![w] = x]
          /\ x.j = j /\ x.runs = worker[w].runs
      BY <1>1, <1>4 DEF WorkerRecs, GoTo, Places, Resting, Running
    <2> HIDE DEF x
    <2>2. mark' \in [Jobs -> Marks]  BY <1>1, <1>4 DEF WorkerRecs, Marks
    <2>3. j \in astray \/ (w \notin stalled /\ worker[w].runs = mark[j].runs)
      BY <1>4 DEF WorkerInv, Knows, Running
    <2>4. \A k \in Jobs \ astray : mark'[k].runs = mark[k].runs  BY <1>1, <1>3, <1>4, <2>3
    <2> QED BY <1>1, <1>2, <1>3, <1>4, <2>1, <2>2, <2>3, <2>4, TickStep
  <1>5. CASE Checkpoint(w)
    BY <1>1, <1>4, <1>5 DEF Checkpoint, AtPc, JobOf, jobs, WorkerRecs
  <1>6. CASE NextSource(w)
    <2>1. CASE worker[w].src = 0
      <3>1. /\ GoTo(w, "leaving") /\ job' = job /\ worker[w].pc = "reading" /\ 1 \in Sources
            /\ mark' = [mark EXCEPT ![j] = [src |-> 1, runs |-> worker[w].runs, waits |-> mark[j].waits]]
        BY <1>6, <2>1 DEF NextSource, AtPc, JobOf, jobs, Sources
      <3>2. mark[j].waits \in BOOLEAN  BY <1>1, <1>3 DEF Marks
      <3> QED BY <1>4, <3>1, <3>2
    <2>2. CASE worker[w].src # 0
      BY <1>1, <1>2, <1>6, <2>2, VerdictStep DEF NextSource, jobs, Settled, Resting
    <2> QED BY <2>1, <2>2
  <1>7. CASE Settle(w)
    <2>1. /\ job' = job \/ job' = [job EXCEPT ![j] = [state |-> worker[w].verdict, over |-> FALSE]]
          /\ mark' = mark /\ worker[w].pc = "settling" /\ (GoTo(w, "closing") \/ GoTo(w, "leaving"))
      BY <1>7 DEF Settle, AtPc, JobOf, notes
    <2>2. job' \in [Jobs -> JobRecs]
      <3>1. [state |-> worker[w].verdict, over |-> FALSE] \in JobRecs
        BY <1>1 DEF JobRecs, WorkerRecs
      <3> QED BY <1>1, <1>3, <2>1, <3>1
    <2> QED BY <1>1, <1>2, <1>3, <2>1, <2>2, GoStep DEF Places, Resting, Running
  <1> QED BY <1>5, <1>6, <1>7
\* People, the outside world and the clocks: a lease runs out under nobody who is well.
LEMMA OutsideInv ==
  ASSUME WorkerInv, (\E j \in Jobs : Enqueue(j)) \/ ModeTurns \/ Clocks PROVE WorkerInv'
  <1>1. /\ active \in Claims /\ job \in [Jobs -> JobRecs] /\ mark \in [Jobs -> Marks]
        /\ lock \in [owner : Workers \cup {NoOne, Gone}, over : BOOLEAN]
    BY DEF WorkerInv, Typed
  <1>2. /\ worker' = worker /\ stalled' = stalled /\ astray' = astray /\ calls' = calls
    BY DEF Enqueue, ModeTurns, Clocks, LockRunsOut, ActiveRunsOut, JobRunsOut, WaitEnds, history
  <1>3. job' \in [Jobs -> JobRecs] /\ active' \in Claims
    <2>1. ASSUME NEW j \in Jobs, Enqueue(j) \/ JobRunsOut(j)
          PROVE  job' \in [Jobs -> JobRecs] /\ active' \in Claims
      <3>1. job[j] \in JobRecs  BY <1>1
      <3>2. [job[j] EXCEPT !.state = "queued"] \in JobRecs /\ [job[j] EXCEPT !.over = TRUE] \in JobRecs
        BY <3>1 DEF JobRecs
      <3>3. /\ \/ job' = [job EXCEPT ![j] = [job[j] EXCEPT !.state = "queued"]]
               \/ job' = [job EXCEPT ![j] = [job[j] EXCEPT !.over = TRUE]]
            /\ active' = active \/ active' = [active EXCEPT !.over = TRUE]
        BY <1>1, <2>1 DEF Enqueue, JobRunsOut
      <3>4. active' \in Claims  BY <1>1, <3>3 DEF Claims
      <3> QED BY <1>1, <3>2, <3>3, <3>4
    <2>2. CASE ModeTurns \/ LockRunsOut \/ ActiveRunsOut \/ \E j \in Jobs : WaitEnds(j)
      BY <1>1, <2>2 DEF ModeTurns, LockRunsOut, ActiveRunsOut, WaitEnds, Claims, jobs
    <2> QED BY <2>1, <2>2 DEF Clocks
  <1>4. /\ mark' \in [Jobs -> Marks] /\ \A j \in Jobs : mark'[j].runs = mark[j].runs
    <2>1. ASSUME NEW j \in Jobs, WaitEnds(j)
          PROVE  mark' \in [Jobs -> Marks] /\ \A k \in Jobs : mark'[k].runs = mark[k].runs
      <3>1. [mark[j] EXCEPT !.waits = FALSE] \in Marks /\ [mark[j] EXCEPT !.waits = FALSE].runs = mark[j].runs
        BY <1>1 DEF Marks
      <3>2. mark' = [mark EXCEPT ![j] = [mark[j] EXCEPT !.waits = FALSE]]  BY <1>1, <2>1 DEF WaitEnds
      <3> QED BY <1>1, <3>1, <3>2
    <2>2. CASE mark' = mark  BY <1>1, <2>2
    <2> QED BY <2>1, <2>2
        DEF Enqueue, ModeTurns, Clocks, LockRunsOut, ActiveRunsOut, JobRunsOut, notes
  <1>5. lock' = lock \/ (lock' = [lock EXCEPT !.over = TRUE] /\ lock.owner = Gone)
    BY DEF Enqueue, ModeTurns, Clocks, LockRunsOut, ActiveRunsOut, JobRunsOut, WaitEnds
  <1>6. lock' \in [owner : Workers \cup {NoOne, Gone}, over : BOOLEAN] /\ lock'.owner = lock.owner
    BY <1>1, <1>5
  <1>7. Typed'  BY <1>2, <1>3, <1>4, <1>6 DEF WorkerInv, Typed
  <1>8. Leased'  BY <1>1, <1>2, <1>5, <1>6, WorkerAssumption DEF WorkerInv, Leased
  <1>9. Knows'
    <2>1. \A w \in Workers : worker[w].pc \in Running => worker[w].j \in Jobs
      BY DEF WorkerInv, Typed, Running, Resting
    <2> QED BY <1>2, <1>4, <2>1 DEF WorkerInv, Knows
  <1>10. Paid'  BY <1>2, <1>4 DEF WorkerInv, Paid
  <1> QED BY <1>7, <1>8, <1>9, <1>10 DEF WorkerInv

\* Every step keeps the lease, the workers' memory and the checkpoints in agreement.
LEMMA WorkerStep == ASSUME WorkerInv, [WorkerNext]_workerVars PROVE WorkerInv'
  <1>1. CASE UNCHANGED workerVars
    BY <1>1 DEF workerVars, jobs, notes, outside, history, WorkerInv, Typed, Leased, Knows, Paid
  <1>2. ASSUME NEW w \in Workers, Take(w) \/ Tick(w) \/ Dies(w) \/ Stall(w) PROVE WorkerInv'
    BY <1>2, TickInv, ClaimInv, LeaseInv, CheckInv, PayInv, CallInv, AnswerInv, WriteInv
       DEF Tick, Run
  <1> QED BY <1>1, <1>2, OutsideInv DEF WorkerNext

\* The invariant holds whatever processes crash or are suspended.
THEOREM WorkerCorrect == WorkerSpec => []WorkerInv
  <1>1. WorkerInv /\ [WorkerNext]_workerVars => WorkerInv'  BY WorkerStep
  <1> QED BY <1>1, WorkerInitInv, PTL DEF WorkerSpec

\* However many processes tick on the same file, no two of them call a source at once:
\* each of them holds the lease, or outlived it.
THEOREM OneCallerAtATime == WorkerSpec => []OneCaller
  <1>1. WorkerInv => OneCaller  BY DEF WorkerInv, Leased, OneCaller, Calling
  <1> QED BY <1>1, WorkerCorrect, PTL

\* A job whose workers kept their leases reaches its sources no more often than its
\* runtime pays for, over any number of crashes, claims and resumed checkpoints.
THEOREM CallsArePaidFor == WorkerSpec => []CallsArePaid
  <1>1. WorkerInv => CallsArePaid
    <2> SUFFICES ASSUME WorkerInv, NEW j \in Jobs \ astray PROVE calls[j] <= Budget
      BY DEF CallsArePaid
    <2>1. calls[j] \in Nat /\ mark[j].runs \in Nat /\ Budget \in Nat
      BY WorkerAssumption DEF WorkerInv, Typed, Marks
    <2> QED BY <2>1 DEF WorkerInv, Paid
  <1> QED BY <1>1, WorkerCorrect, PTL
-----------------------------------------------------------------------------
(* The response.  RowOK says how the two tables and what was sent hang     *)
(* together, for each proposal; ExecOK says what an executor may rely on   *)
(* about the proposal it is sending.  Alone and OneAttempt are why nothing *)
(* is sent twice: a sealed proposal has one executor, and a goal has one   *)
(* sealed proposal.                                                        *)

Sending == {"sealed", "cleared", "answered", "recorded"}

RowOK(p) ==
  /\ attempt[p] # "none" <=> proposal[p].state \in Written
  /\ posts[p] <= 1 /\ (posts[p] > 0 => attempt[p] # "none")
  /\ p \in acked => posts[p] > 0
  /\ attempt[p] = "accepted_unverified" => p \in acked
  /\ attempt[p] = "unknown_outcome" => p \notin acked
  /\ proposal[p].state \in Results => attempt[p] = proposal[p].state
  /\ proposal[p].report # "none" => proposal[p].state = "reconciled_human_report"

ExecOK(x) ==
  LET p == exec[x].p IN
  /\ exec[x].pc \in Sending => attempt[p] # "none" /\ proposal[p].state \notin Results
  /\ exec[x].pc \in {"sealed", "cleared"} => attempt[p] = "dispatching" /\ posts[p] = 0
  /\ exec[x].pc = "answered" =>
       attempt[p] = "dispatching" /\ (exec[x].result = "accepted_unverified" <=> p \in acked)
  /\ exec[x].pc = "recorded" => attempt[p] = exec[x].result

Alone ==
  \A x, y \in Executors :
    (exec[x].pc \in Sending /\ exec[y].pc \in Sending /\ exec[x].p = exec[y].p) => x = y

OneAttempt ==
  \A p, q \in Proposals :
    (attempt[p] # "none" /\ attempt[q] # "none" /\ proposal[p].goal = proposal[q].goal) => p = q

Barred ==
  \A p \in barred : ~Allowed(p) /\ \A x \in Executors : exec[x].p = p => exec[x].pc # "cleared"

Tables == (\A p \in Proposals : RowOK(p)) /\ (\A x \in Executors : ExecOK(x))

Inv == ResponseTypeOK /\ Tables /\ Alone /\ OneAttempt /\ Barred

-----------------------------------------------------------------------------
(* Type correctness.                                                       *)

LEMMA ExecFacts ==
  ASSUME ResponseTypeOK, NEW x \in Executors
  PROVE  /\ exec[x].pc # "idle" => exec[x].p \in Proposals
         /\ exec[x].pc \in {"checked", "sealed", "cleared"} =>
              exec[x] \in [pc : {"checked", "sealed", "cleared"}, p : Proposals, result : {"none"}]
         /\ exec[x].pc \in {"answered", "recorded"} =>
              exec[x] \in [pc : {"answered", "recorded"}, p : Proposals, result : Results]
         /\ exec[x].p \in Proposals => exec[x].pc # "idle"
  BY ResponseAssumption DEF ResponseTypeOK, Idle

LEMMA RowFacts ==
  ASSUME ResponseTypeOK, NEW p \in Proposals
  PROVE  /\ proposal[p].state # "none" => proposal[p] \in
              [state : {"proposed"} \cup Written, goal : Goals, by : Users,
               report : {"none"} \cup Findings]
         /\ proposal[p].state = "none" => proposal[p] = Unwritten
  BY DEF ResponseTypeOK, Unwritten, Written, Results

LEMMA TypeInit == Init => ResponseTypeOK
  BY DEF Init, ResponseTypeOK, Idle, Nobody, Unwritten

\* A proposal that exists may take any state and report of the tables.
LEMMA StateType ==
  ASSUME ResponseTypeOK, NEW p \in Proposals, proposal[p].state # "none",
         NEW s \in {"proposed"} \cup Written, NEW f \in {"none"} \cup Findings,
         \/ proposal' = [proposal EXCEPT ![p].state = s]
         \/ proposal' = [proposal EXCEPT ![p].state = s, ![p].report = f]
  PROVE  proposal' \in [Proposals -> {Unwritten} \cup
           [state : {"proposed"} \cup Written, goal : Goals, by : Users,
            report : {"none"} \cup Findings]]
<1> DEFINE R == [state : {"proposed"} \cup Written, goal : Goals, by : Users,
                 report : {"none"} \cup Findings]
<1>1. proposal[p] \in R
  BY RowFacts
<1>2. /\ [proposal[p] EXCEPT !.state = s] \in R
      /\ [proposal[p] EXCEPT !.state = s, !.report = f] \in R
  BY <1>1
<1>3. proposal \in [Proposals -> {Unwritten} \cup R]
  BY DEF ResponseTypeOK
<1> QED
  BY <1>2, <1>3

ExecType ==
  {Idle} \cup [pc : {"checked", "sealed", "cleared"}, p : Proposals, result : {"none"}] \cup
              [pc : {"answered", "recorded"}, p : Proposals, result : Results]

\* An executor ends, goes on, or has an answer.
LEMMA ExecStepType ==
  ASSUME ResponseTypeOK, NEW x \in Executors,
         \/ exec' = [exec EXCEPT ![x] = Idle]
         \/ \E p \in Proposals :
              exec' = [exec EXCEPT ![x] = [pc |-> "checked", p |-> p, result |-> "none"]]
         \/ exec[x].pc \in {"checked", "sealed"} /\ (Go(x, "sealed") \/ Go(x, "cleared"))
         \/ exec[x].pc = "answered" /\ Go(x, "recorded")
         \/ exec[x].pc \in {"sealed", "cleared"} /\ \E r \in Results : Answer(x, r)
  PROVE  exec' \in [Executors -> ExecType]
<1>1. exec \in [Executors -> ExecType]
  BY DEF ResponseTypeOK, ExecType
<1>2. CASE exec' = [exec EXCEPT ![x] = Idle]
  BY <1>1, <1>2 DEF ExecType
<1>3. ASSUME NEW p \in Proposals,
             exec' = [exec EXCEPT ![x] = [pc |-> "checked", p |-> p, result |-> "none"]]
      PROVE  exec' \in [Executors -> ExecType]
  BY <1>1, <1>3 DEF ExecType
<1>4. CASE exec[x].pc \in {"checked", "sealed"} /\ (Go(x, "sealed") \/ Go(x, "cleared"))
  <2>1. /\ [exec[x] EXCEPT !.pc = "sealed"] \in ExecType
        /\ [exec[x] EXCEPT !.pc = "cleared"] \in ExecType
    BY <1>4, ExecFacts DEF ExecType
  <2> QED
    BY <1>1, <1>4, <2>1 DEF Go
<1>5. CASE exec[x].pc = "answered" /\ Go(x, "recorded")
  <2>1. [exec[x] EXCEPT !.pc = "recorded"] \in ExecType
    BY <1>5, ExecFacts DEF ExecType
  <2> QED
    BY <1>1, <1>5, <2>1 DEF Go
<1>6. ASSUME exec[x].pc \in {"sealed", "cleared"}, NEW r \in Results, Answer(x, r)
      PROVE  exec' \in [Executors -> ExecType]
  <2>1. [exec[x] EXCEPT !.pc = "answered", !.result = r] \in ExecType
    BY <1>6, ExecFacts DEF ExecType
  <2> QED
    BY <1>1, <1>6, <2>1 DEF Answer
<1> QED
  BY <1>2, <1>3, <1>4, <1>5, <1>6

LEMMA TypeStep == ResponseTypeOK /\ [Next]_vars => ResponseTypeOK'
<1> SUFFICES ASSUME ResponseTypeOK, [Next]_vars PROVE ResponseTypeOK'
  OBVIOUS
<1> USE DEF ResponseTypeOK
<1>1. ASSUME NEW u \in Users, NEW g \in Goals, Reserve(u, g)
      PROVE  ResponseTypeOK'
  BY <1>1 DEF Reserve, Voided, InCase, Short, ledger, Nobody
<1>2. ASSUME NEW p \in Proposals, NEW u \in Users, Challenge(p, u)
      PROVE  ResponseTypeOK'
  BY <1>2 DEF Challenge, ledger, limits
<1>3. ASSUME NEW p \in Proposals, NEW u \in Users, NEW f \in Findings, Reconcile(p, u, f)
      PROVE  ResponseTypeOK'
  <2>1. "reconciled_human_report" \in {"proposed"} \cup Written /\ proposal[p].state # "none"
    BY <1>3 DEF Reconcile, Written
  <2>2. proposal' = [proposal EXCEPT ![p].state = "reconciled_human_report", ![p].report = f]
    BY <1>3 DEF Reconcile
  <2> QED
    BY <1>3, <2>1, <2>2, StateType DEF Reconcile, limits
<1>4. ASSUME NEW p \in Proposals, Propose(p)
      PROVE  ResponseTypeOK'
  <2>1. asking \in [goal : Goals, by : Users]
    BY <1>4 DEF Propose
  <2>2. [state |-> "proposed", goal |-> asking.goal, by |-> asking.by, report |-> "none"] \in
          [state : {"proposed"} \cup Written, goal : Goals, by : Users,
           report : {"none"} \cup Findings]
    BY <2>1
  <2> QED
    BY <1>4, <2>2 DEF Propose, limits
<1>5. ASSUME DropRequest \/ Stop \/ Resume \/ NextDay \/ PolicyEnds
      PROVE  ResponseTypeOK'
  BY <1>5 DEF DropRequest, Stop, Resume, NextDay, PolicyEnds, ledger, limits, Short
<1>6. ASSUME NEW g \in Goals, CaseAdvances(g)
      PROVE  ResponseTypeOK'
  BY <1>6 DEF CaseAdvances, Voided, InCase, Short, ledger
<1>7. ASSUME NEW p \in Proposals, Expire(p)
      PROVE  ResponseTypeOK'
  BY <1>7 DEF Expire, Voided, Short, ledger
<1>8. ASSUME NEW x \in Executors, Execute(x)
      PROVE  ResponseTypeOK'
  <2> DEFINE p == exec[x].p
  <2>1. exec' \in [Executors -> ExecType]
    <3>1. "unknown_outcome" \in Results /\ "accepted_unverified" \in Results
      BY DEF Results
    <3> QED
      BY <1>8, <3>1, ExecStepType DEF Execute, Begin, Seal, SealRefused, GiveUp, Preflight, Post,
         RecordAttempt, RecordProposal, Crash, At
  <2>2. ASSUME \/ \E q \in Proposals, u \in Users : Begin(x, q, u)
               \/ SealRefused(x) \/ GiveUp(x) \/ Preflight(x) \/ Crash(x)
        PROVE  ResponseTypeOK'
    BY <2>1, <2>2 DEF Begin, SealRefused, GiveUp, Preflight, Crash, ledger, limits, ExecType
  <2>3. CASE Seal(x)
    <3>1. p \in Proposals /\ proposal[p].state = "proposed" /\ "dispatching" \in Written
      BY <2>3, ExecFacts DEF Seal, At, SealHolds, Written
    <3>2. proposal' = [proposal EXCEPT ![p].state = "dispatching"]
      BY <2>3 DEF Seal
    <3> QED
      BY <2>1, <2>3, <3>1, <3>2, StateType DEF Seal, limits, ExecType
  <2>4. CASE Post(x)
    <3>1. p \in Proposals /\ posts[p] \in 0..2
      BY <2>4, ExecFacts DEF Post, At
    <3> QED
      BY <2>1, <2>4, <3>1 DEF Post, ledger, limits, ExecType
  <2>5. CASE RecordAttempt(x)
    <3>1. p \in Proposals /\ exec[x].result \in Results
      BY <2>5, ExecFacts DEF RecordAttempt, At
    <3> QED
      BY <2>1, <2>5, <3>1 DEF RecordAttempt, limits, ExecType
  <2>6. CASE RecordProposal(x)
    <3>1. p \in Proposals /\ exec[x].result \in {"proposed"} \cup Written
      BY <2>6, ExecFacts DEF RecordProposal, At, Written
    <3>2. CASE proposal[p].state = "dispatching"
      <4>1. proposal' = [proposal EXCEPT ![p].state = exec[x].result]
        BY <2>6, <3>2 DEF RecordProposal
      <4> QED
        BY <2>1, <2>6, <3>1, <3>2, <4>1, StateType DEF RecordProposal, limits, ExecType
    <3>3. CASE proposal[p].state # "dispatching"
      BY <2>1, <2>6, <3>3 DEF RecordProposal, limits, ExecType
    <3> QED
      BY <3>2, <3>3
  <2> QED
    BY <1>8, <2>2, <2>3, <2>4, <2>5, <2>6 DEF Execute
<1>9. CASE UNCHANGED vars
  BY <1>9 DEF vars, ledger, limits
<1> QED
  BY <1>1, <1>2, <1>3, <1>4, <1>5, <1>6, <1>7, <1>8, <1>9 DEF Next, Main, Outside

\* Type correctness of the ledger and its processes.
THEOREM ResponseTypes == Spec => []ResponseTypeOK
<1> QED
  BY TypeInit, TypeStep, PTL DEF Spec

-----------------------------------------------------------------------------
(* The ledger.                                                             *)

LEMMA InvInit == Init => Inv
<1> SUFFICES ASSUME Init PROVE Inv
  OBVIOUS
<1>1. ResponseTypeOK
  BY TypeInit
<1>2. Tables
  BY DEF Init, Tables, RowOK, ExecOK, Unwritten, Written, Results, Idle, Sending
<1>3. Alone /\ OneAttempt /\ Barred
  BY DEF Init, Alone, OneAttempt, Barred, Idle, Sending
<1> QED
  BY <1>1, <1>2, <1>3 DEF Inv

\* A step that leaves the ledger and the processes alone keeps what relates them.
LEMMA Elsewhere ==
  ASSUME Inv, UNCHANGED <<ledger, exec, posts, acked>>
  PROVE  Tables' /\ Alone' /\ OneAttempt'
  BY DEF Inv, Tables, RowOK, ExecOK, Alone, OneAttempt, ledger

\* So does one that ends an executor's work, or begins it.
LEMMA Unsealed ==
  ASSUME Inv, NEW x \in Executors, NEW e, e.pc \notin Sending,
         exec' = [exec EXCEPT ![x] = e], UNCHANGED <<ledger, posts, acked>>
  PROVE  Tables' /\ Alone' /\ OneAttempt'
<1>1. \A y \in Executors : exec'[y].pc \in Sending => y # x /\ exec'[y] = exec[y]
  BY DEF Inv, ResponseTypeOK
<1>2. Tables'
  BY <1>1 DEF Inv, Tables, RowOK, ExecOK, ledger, Sending
<1>3. Alone' /\ OneAttempt'
  BY <1>1 DEF Inv, Alone, OneAttempt, ledger
<1> QED
  BY <1>2, <1>3

\* A grant that is void, and a closed gate, bar what was short of its last check.
LEMMA BarStep ==
  ASSUME Inv, [Next]_vars
  PROVE  Barred'
<1> USE DEF Inv, Barred, Allowed
<1>1. ASSUME NEW S \in SUBSET Proposals, Voided(S), UNCHANGED <<gate, exec>>
      PROVE  Barred'
  BY <1>1 DEF Voided, Short
<1>2. ASSUME NEW u \in Users, NEW g \in Goals, Reserve(u, g)
      PROVE  Barred'
  BY <1>1, <1>2 DEF Reserve, InCase
<1>3. ASSUME NEW g \in Goals, CaseAdvances(g)
      PROVE  Barred'
  BY <1>1, <1>3 DEF CaseAdvances, InCase
<1>4. ASSUME NEW p \in Proposals, Expire(p)
      PROVE  Barred'
  BY <1>1, <1>4 DEF Expire
<1>5. CASE Stop \/ PolicyEnds \/ Resume
  BY <1>5 DEF Stop, PolicyEnds, Resume, Short
<1>6. ASSUME UNCHANGED <<limits, exec>>
      PROVE  Barred'
  BY <1>6 DEF limits
<1>7. CASE \/ \E p \in Proposals, u \in Users :
                Challenge(p, u) \/ \E f \in Findings : Reconcile(p, u, f)
           \/ \E p \in Proposals : Propose(p)
           \/ DropRequest \/ NextDay \/ UNCHANGED vars
  BY <1>6, <1>7 DEF Challenge, Reconcile, Propose, DropRequest, NextDay, vars
<1>8. ASSUME NEW x \in Executors, Execute(x)
      PROVE  Barred'
  <2>1. exec'[x].pc = "cleared" => exec'[x].p = exec[x].p /\ Allowed(exec[x].p)
    BY <1>8 DEF Execute, Begin, Seal, SealRefused, GiveUp, Preflight, Post, RecordAttempt,
       RecordProposal, Crash, Go, Answer, At, Idle, ResponseTypeOK
  <2>2. UNCHANGED limits /\ \A y \in Executors \ {x} : exec'[y] = exec[y]
    BY <1>8 DEF Execute, Begin, Seal, SealRefused, GiveUp, Preflight, Post, RecordAttempt,
       RecordProposal, Crash, Go, Answer, ResponseTypeOK
  <2> QED
    BY <2>1, <2>2 DEF limits
<1> QED
  BY <1>2, <1>3, <1>4, <1>5, <1>7, <1>8 DEF Next, Main, Outside

LEMMA ProposeStep ==
  ASSUME Inv, NEW p \in Proposals, Propose(p)
  PROVE  Tables' /\ Alone' /\ OneAttempt'
<1>1. attempt[p] = "none" /\ posts[p] = 0 /\ p \notin acked
  BY DEF Propose, Inv, Tables, RowOK, Written, Results, ResponseTypeOK
<1>2. \A x \in Executors : exec[x].pc \in Sending => exec[x].p # p
  BY <1>1 DEF Inv, Tables, ExecOK
<1>3. /\ proposal'[p].state = "proposed" /\ proposal'[p].report = "none"
      /\ \A q \in Proposals \ {p} : proposal'[q] = proposal[q]
      /\ UNCHANGED <<attempt, exec, posts, acked>>
  BY DEF Propose, Inv, ResponseTypeOK
<1>4. \A q \in Proposals : RowOK(q)'
  BY <1>1, <1>3 DEF Inv, Tables, RowOK, Written, Results
<1>5. \A x \in Executors : ExecOK(x)'
  BY <1>2, <1>3, ExecFacts DEF Inv, Tables, ExecOK, Sending
<1>6. Alone' /\ OneAttempt'
  BY <1>1, <1>3 DEF Inv, Alone, OneAttempt
<1> QED
  BY <1>4, <1>5, <1>6 DEF Tables

LEMMA ReconcileStep ==
  ASSUME Inv, NEW p \in Proposals, NEW u \in Users, NEW f \in Findings, Reconcile(p, u, f)
  PROVE  Tables' /\ Alone' /\ OneAttempt'
<1>1. /\ proposal[p].state \in Written /\ proposal[p].state # "none"
      /\ proposal'[p] = [proposal[p] EXCEPT !.state = "reconciled_human_report", !.report = f]
      /\ \A q \in Proposals \ {p} : proposal'[q] = proposal[q]
      /\ UNCHANGED <<attempt, exec, posts, acked>>
  BY DEF Reconcile, Inv, ResponseTypeOK, Written, Results
<1>2. /\ proposal'[p].state = "reconciled_human_report" /\ proposal'[p].goal = proposal[p].goal
  BY <1>1, RowFacts DEF Inv
<1>3. \A q \in Proposals : RowOK(q)'
  <2>1. RowOK(p)'
    <3>1. RowOK(p)
      BY DEF Inv, Tables
    <3> QED
      BY <1>1, <1>2, <3>1 DEF RowOK, Written, Results
  <2>2. ASSUME NEW q \in Proposals \ {p}
        PROVE  RowOK(q)'
    <3>1. RowOK(q) /\ proposal'[q] = proposal[q] /\ UNCHANGED <<attempt, posts, acked>>
      BY <1>1 DEF Inv, Tables
    <3> QED
      BY <3>1 DEF RowOK
  <2> QED
    BY <2>1, <2>2
<1>4. \A x \in Executors : ExecOK(x)'
  BY <1>1, <1>2, ExecFacts DEF Inv, Tables, ExecOK, Sending, Results
<1>5. Alone' /\ OneAttempt'
  <2>1. \A q \in Proposals : proposal'[q].goal = proposal[q].goal
    BY <1>1, <1>2
  <2> QED
    BY <1>1, <2>1 DEF Inv, Alone, OneAttempt
<1> QED
  BY <1>3, <1>4, <1>5 DEF Tables

LEMMA SealStep ==
  ASSUME Inv, NEW x \in Executors, Seal(x)
  PROVE  Tables' /\ Alone' /\ OneAttempt'
<1>0. PICK p \in Proposals : p = exec[x].p
  BY ExecFacts DEF Inv, Seal, At
<1>1. /\ p = exec[x].p /\ proposal[p].state = "proposed" /\ Unattempted(p)
      /\ exec'[x].pc = "sealed" /\ exec'[x].p = p
      /\ \A y \in Executors \ {x} : exec'[y] = exec[y]
  BY <1>0, ExecFacts DEF Inv, Seal, At, SealHolds, Go, ResponseTypeOK
<1>2. attempt[p] = "none" /\ posts[p] = 0 /\ p \notin acked
  BY <1>1 DEF Inv, Tables, RowOK, Written, Results, ResponseTypeOK
<1>3. /\ proposal'[p] = [proposal[p] EXCEPT !.state = "dispatching"]
      /\ attempt'[p] = "dispatching" /\ UNCHANGED <<posts, acked>>
      /\ \A q \in Proposals \ {p} : proposal'[q] = proposal[q] /\ attempt'[q] = attempt[q]
  BY <1>1 DEF Seal, Inv, ResponseTypeOK
<1>4. /\ proposal'[p].state = "dispatching" /\ proposal'[p].goal = proposal[p].goal
      /\ proposal'[p].report = proposal[p].report
  BY <1>1, <1>3, RowFacts DEF Inv
<1>5. \A y \in Executors \ {x} : exec[y].pc \in Sending => exec[y].p # p
  BY <1>2 DEF Inv, Tables, ExecOK
<1>6. \A q \in Proposals : RowOK(q)'
  <2>1. RowOK(p)'
    <3>1. RowOK(p)
      BY <1>1 DEF Inv, Tables
    <3> QED
      BY <1>1, <1>2, <1>3, <1>4, <3>1 DEF RowOK, Written, Results
  <2>2. ASSUME NEW q \in Proposals \ {p}
        PROVE  RowOK(q)'
    <3>1. /\ RowOK(q) /\ proposal'[q] = proposal[q] /\ attempt'[q] = attempt[q]
          /\ UNCHANGED <<posts, acked>>
      BY <1>3 DEF Inv, Tables
    <3> QED
      BY <3>1 DEF RowOK
  <2> QED
    BY <2>1, <2>2
<1>7. \A y \in Executors : ExecOK(y)'
  <2>1. ExecOK(x)'
    BY <1>1, <1>2, <1>3, <1>4 DEF ExecOK, Results
  <2>2. ASSUME NEW y \in Executors \ {x}
        PROVE  ExecOK(y)'
    BY <1>1, <1>3, <1>5, ExecFacts DEF Inv, Tables, ExecOK, Sending
  <2> QED
    BY <2>1, <2>2
<1>8. Alone'
  BY <1>1, <1>5 DEF Inv, Alone
<1>9. OneAttempt'
  <2>1. \A q \in Proposals : /\ proposal'[q].goal = proposal[q].goal
                             /\ q # p => attempt'[q] = attempt[q]
    BY <1>3, <1>4
  <2>2. \A q \in Proposals : attempt[q] # "none" => proposal[q].goal # proposal[p].goal
    BY <1>1 DEF Unattempted
  <2> QED
    BY <1>1, <2>1, <2>2 DEF Inv, OneAttempt
<1> QED
  BY <1>6, <1>7, <1>8, <1>9 DEF Tables

\* The executor's own steps after the seal.
LEMMA SendingStep ==
  ASSUME Inv, NEW x \in Executors,
         GiveUp(x) \/ Preflight(x) \/ Post(x) \/ RecordAttempt(x) \/ RecordProposal(x)
  PROVE  Tables' /\ Alone' /\ OneAttempt'
<1>0. PICK p \in Proposals : p = exec[x].p
  BY ExecFacts DEF Inv, GiveUp, Preflight, Post, RecordAttempt, RecordProposal, At
<1>1. /\ p = exec[x].p /\ exec[x].pc \in Sending
      /\ exec'[x].pc \in Sending => exec'[x].p = p
      /\ \A y \in Executors \ {x} : exec'[y] = exec[y]
  BY <1>0, ExecFacts DEF Inv, GiveUp, Preflight, Post, RecordAttempt, RecordProposal, At, Go, Answer,
     Idle, Sending, ResponseTypeOK
<1>2. \A y \in Executors \ {x} : exec[y].pc \in Sending => exec[y].p # p
  BY <1>1 DEF Inv, Alone
<1>3. Alone'
  BY <1>1, <1>2 DEF Inv, Alone
<1>4. RowOK(p) /\ ExecOK(x)
  BY <1>1 DEF Inv, Tables
<1>5. ASSUME \A q \in Proposals \ {p} : /\ proposal'[q] = proposal[q] /\ attempt'[q] = attempt[q]
                                        /\ posts'[q] = posts[q] /\ (q \in acked' <=> q \in acked),
             proposal'[p].goal = proposal[p].goal, attempt[p] # "none",
             RowOK(p)', ExecOK(x)'
      PROVE  Tables' /\ OneAttempt'
  <2>1. ASSUME NEW q \in Proposals
        PROVE  RowOK(q)'
    <3>1. CASE q = p
      BY <1>5, <3>1
    <3>2. CASE q # p
      <4>1. /\ RowOK(q) /\ proposal'[q] = proposal[q] /\ attempt'[q] = attempt[q]
            /\ posts'[q] = posts[q] /\ (q \in acked' <=> q \in acked)
        BY <1>5, <3>2 DEF Inv, Tables
      <4> QED
        BY <4>1 DEF RowOK
    <3> QED
      BY <3>1, <3>2
  <2>2. ASSUME NEW y \in Executors \ {x}
        PROVE  ExecOK(y)'
    BY <1>1, <1>2, <1>5, ExecFacts DEF Inv, Tables, ExecOK, Sending
  <2>3. OneAttempt'
    BY <1>1, <1>5 DEF Inv, OneAttempt
  <2> QED
    BY <1>5, <2>1, <2>2, <2>3 DEF Tables
<1>6. CASE GiveUp(x) \/ Preflight(x)
  <2>1. UNCHANGED <<proposal, attempt, posts, acked>>
    BY <1>6 DEF GiveUp, Preflight, ledger
  <2>2. /\ exec[x].pc = "sealed" /\ exec'[x].p = p
        /\ exec'[x].pc = "cleared" \/ (exec'[x].pc = "answered" /\ exec'[x].result = "unknown_outcome")
    BY <1>1, <1>6, ExecFacts DEF Inv, GiveUp, Preflight, At, Go, Answer, ResponseTypeOK
  <2>3. p \notin acked
    BY <2>2, <1>1, <1>4 DEF ExecOK, RowOK, Inv, ResponseTypeOK
  <2>4. RowOK(p)' /\ ExecOK(x)'
    BY <1>1, <1>4, <2>1, <2>2, <2>3 DEF RowOK, ExecOK, Sending
  <2> QED
    BY <1>3, <1>4, <1>5, <2>1, <2>2, <2>4 DEF ExecOK, Sending
<1>7. CASE Post(x)
  <2>1. /\ exec[x].pc = "cleared" /\ posts[p] = 0 /\ posts'[p] = 1 /\ UNCHANGED <<proposal, attempt>>
        /\ \A q \in Proposals \ {p} : posts'[q] = posts[q]
    BY <1>1, <1>4, <1>7 DEF Post, At, ExecOK, ledger, Inv, ResponseTypeOK
  <2>2. p \notin acked /\ attempt[p] = "dispatching"
    BY <2>1, <1>1, <1>4 DEF RowOK, ExecOK
  <2>3. /\ exec'[x].pc = "answered" /\ exec'[x].p = p
        /\ \/ acked' = acked \cup {p} /\ exec'[x].result = "accepted_unverified"
           \/ acked' = acked /\ exec'[x].result = "unknown_outcome"
    BY <1>1, <1>7, <2>1, ExecFacts DEF Post, Answer, Inv, ResponseTypeOK
  <2>4. RowOK(p)' /\ ExecOK(x)'
    BY <1>1, <1>4, <2>1, <2>2, <2>3 DEF RowOK, ExecOK, Sending
  <2> QED
    BY <1>3, <1>5, <2>1, <2>2, <2>3, <2>4
<1>8. CASE RecordAttempt(x)
  <2>1. /\ exec[x].pc = "answered" /\ exec'[x].pc = "recorded" /\ exec'[x].p = p
        /\ exec'[x].result = exec[x].result /\ exec[x].result \in Results
    BY <1>1, <1>8, ExecFacts DEF RecordAttempt, At, Go, Inv, ResponseTypeOK
  <2>2. /\ attempt[p] = "dispatching" /\ attempt'[p] = exec[x].result
        /\ \A q \in Proposals \ {p} : attempt'[q] = attempt[q]
        /\ UNCHANGED <<proposal, posts, acked>>
    BY <1>1, <1>4, <1>8, <2>1 DEF RecordAttempt, ExecOK, Inv, ResponseTypeOK
  <2>3. RowOK(p)' /\ ExecOK(x)'
    BY <1>1, <1>4, <2>1, <2>2 DEF RowOK, ExecOK, Sending, Results
  <2> QED
    BY <1>3, <1>5, <2>1, <2>2, <2>3
<1>9. CASE RecordProposal(x)
  <2>1. exec[x].pc = "recorded" /\ exec'[x].pc = "idle" /\ exec[x].result \in Results
    BY <1>1, <1>9, ExecFacts DEF RecordProposal, At, Idle, Inv, ResponseTypeOK
  <2>2. /\ attempt[p] = exec[x].result /\ attempt[p] # "none"
        /\ UNCHANGED <<attempt, posts, acked>>
        /\ \A q \in Proposals \ {p} : proposal'[q] = proposal[q]
        /\ \/ proposal'[p] = proposal[p]
           \/ /\ proposal[p].state = "dispatching"
              /\ proposal'[p] = [proposal[p] EXCEPT !.state = exec[x].result]
    BY <1>1, <1>4, <1>9, <2>1 DEF RecordProposal, ExecOK, Sending, Inv, ResponseTypeOK
  <2>3. /\ proposal'[p].goal = proposal[p].goal /\ proposal'[p].report = proposal[p].report
        /\ proposal'[p].state \in {proposal[p].state, exec[x].result}
        /\ proposal'[p].state # proposal[p].state => proposal[p].state = "dispatching"
    BY <1>1, <2>2, RowFacts DEF Inv
  <2>4. RowOK(p)'
    <3>1. CASE proposal'[p].state = proposal[p].state
      BY <1>4, <2>2, <2>3, <3>1 DEF RowOK
    <3>2. CASE proposal'[p].state # proposal[p].state
      BY <1>4, <2>1, <2>2, <2>3, <3>2 DEF RowOK, Written, Results
    <3> QED
      BY <3>1, <3>2
  <2>5. ExecOK(x)'
    BY <2>1 DEF ExecOK, Sending
  <2> QED
    BY <1>3, <1>5, <2>2, <2>3, <2>4, <2>5
<1> QED
  BY <1>6, <1>7, <1>8, <1>9

LEMMA InvStep == Inv /\ [Next]_vars => Inv'
<1> SUFFICES ASSUME Inv, [Next]_vars PROVE Inv'
  OBVIOUS
<1>1. ResponseTypeOK' /\ Barred'
  BY TypeStep, BarStep DEF Inv
<1>2. CASE \/ \E u \in Users, g \in Goals : Reserve(u, g)
           \/ \E p \in Proposals, u \in Users : Challenge(p, u)
           \/ DropRequest \/ Stop \/ Resume \/ Outside \/ UNCHANGED vars
  <2>1. UNCHANGED <<proposal, attempt, exec, posts, acked>>
    BY <1>2 DEF Reserve, Challenge, DropRequest, Stop, Resume, Outside, CaseAdvances, Expire,
       NextDay, PolicyEnds, vars, ledger
  <2> QED
    BY <1>1, <2>1 DEF Inv, Tables, RowOK, ExecOK, Alone, OneAttempt
<1>3. CASE \E p \in Proposals : Propose(p)
  BY <1>1, <1>3, ProposeStep DEF Inv
<1>4. CASE \E p \in Proposals, u \in Users : \E f \in Findings : Reconcile(p, u, f)
  BY <1>1, <1>4, ReconcileStep DEF Inv
<1>5. ASSUME NEW x \in Executors, Execute(x)
      PROVE  Inv'
  <2>1. CASE (\E p \in Proposals, u \in Users : Begin(x, p, u)) \/ SealRefused(x) \/ Crash(x)
    <3>1. UNCHANGED <<ledger, posts, acked>> /\ exec' = [exec EXCEPT ![x] = exec'[x]]
          /\ exec'[x].pc \notin Sending
      BY <2>1 DEF Begin, SealRefused, Crash, Idle, Sending, Inv, ResponseTypeOK
    <3> QED
      BY <1>1, <3>1, Unsealed DEF Inv
  <2>2. CASE Seal(x)
    BY <1>1, <2>2, SealStep DEF Inv
  <2>3. CASE GiveUp(x) \/ Preflight(x) \/ Post(x) \/ RecordAttempt(x) \/ RecordProposal(x)
    BY <1>1, <2>3, SendingStep DEF Inv
  <2> QED
    BY <1>5, <2>1, <2>2, <2>3 DEF Execute
<1> QED
  BY <1>2, <1>3, <1>4, <1>5 DEF Next, Main

LEMMA Invariance == Spec => []Inv
<1> QED
  BY InvInit, InvStep, PTL DEF Spec

-----------------------------------------------------------------------------
(* The results.                                                            *)

\* However many proposals, executors and crashes there are, the sessions of a user are
\* revoked at most once for a case.
THEOREM RevokedOnceAlways == Spec => []RevokedOnce
<1>1. Inv => RevokedOnce
  BY DEF Inv, Tables, RowOK, OneAttempt, RevokedOnce
<1> QED
  BY <1>1, Invariance, PTL

\* What the two tables say of a proposal is what was sent and answered for it.
THEOREM LedgerIsTrueAlways == Spec => []LedgerIsTrue
<1>1. Inv => LedgerIsTrue
  BY DEF Inv, Tables, RowOK, LedgerIsTrue, ResponseTypeOK, Results
<1> QED
  BY <1>1, Invariance, PTL

\* A reviewer's report is never overwritten, not even by an executor that answers late.
THEOREM ReportsStand == Spec => ReportStands
<1>1. ASSUME Inv, [Next]_vars, NEW p \in Proposals, proposal[p].report # "none"
      PROVE  proposal'[p] = proposal[p]
  <2>1. proposal[p].state = "reconciled_human_report"
    BY <1>1 DEF Inv, Tables, RowOK
  <2>2. CASE UNCHANGED proposal
    BY <2>2
  <2>3. ASSUME NEW q \in Proposals, Propose(q)
        PROVE  proposal'[p] = proposal[p]
    BY <1>1, <2>1, <2>3 DEF Propose, Inv, ResponseTypeOK
  <2>4. ASSUME NEW q \in Proposals, NEW u \in Users, NEW f \in Findings, Reconcile(q, u, f)
        PROVE  proposal'[p] = proposal[p]
    BY <1>1, <2>1, <2>4 DEF Reconcile, Inv, ResponseTypeOK
  <2>5. ASSUME NEW x \in Executors, Seal(x) \/ RecordProposal(x)
        PROVE  proposal'[p] = proposal[p]
    BY <1>1, <2>1, <2>5 DEF Seal, SealHolds, RecordProposal, Inv, ResponseTypeOK
  <2> QED
    BY <1>1, <2>2, <2>3, <2>4, <2>5 DEF Next, Main, Execute, Outside, Reserve, Challenge,
       DropRequest, Stop, Resume, Begin, SealRefused, GiveUp, Preflight, Post, RecordAttempt,
       Crash, CaseAdvances, Expire, NextDay, PolicyEnds, vars, ledger
<1>2. Inv /\ [Next]_vars =>
        [\A p \in Proposals : proposal[p].report # "none" => proposal'[p] = proposal[p]]_vars
  BY <1>1
<1> QED
  BY <1>2, Invariance, PTL DEF Spec, ReportStands

\* A stop, an expiry or a changed case reaches every dispatch that is not past its
\* last check.
THEOREM StopReachesAll == Spec => StopReaches
<1>1. ASSUME Inv, [Next]_vars, NEW p \in barred
      PROVE  posts'[p] = posts[p]
  <2>1. p \in Proposals /\ \A x \in Executors : exec[x].p = p => exec[x].pc # "cleared"
    BY <1>1 DEF Inv, Barred, ResponseTypeOK
  <2>2. ASSUME NEW x \in Executors, Post(x)
        PROVE  posts'[p] = posts[p]
    BY <1>1, <2>1, <2>2 DEF Post, At, Inv, ResponseTypeOK
  <2> QED
    BY <1>1, <2>2 DEF Next, Main, Execute, Outside, Reserve, Propose, Reconcile, Challenge,
       DropRequest, Stop, Resume, Begin, Seal, SealRefused, GiveUp, Preflight, RecordAttempt,
       RecordProposal, Crash, CaseAdvances, Expire, NextDay, PolicyEnds, vars
<1>2. Inv /\ [Next]_vars => [\A p \in barred : posts'[p] = posts[p]]_vars
  BY <1>1
<1> QED
  BY <1>2, Invariance, PTL DEF Spec, StopReaches
================================================================================
