--------------------------- MODULE RecoveryContracts ---------------------------
(***************************************************************************)
(* The recovery contract of a plan: which rehearsal it rests on, what the  *)
(* comparisons of production found since, which evidence is revoked.       *)
(*                                                                         *)
(*   src/src/recovery_contracts.rs       the contract, its file, its journal *)
(*   src/src/app/contracts_panel.rs      the window: comparisons, adoption *)
(*   src/src/recovery_daemon.rs          the scheduled background agent    *)
(*                                                                         *)
(* Window and agent are two processes with one file.  Whoever saves first  *)
(* publishes what restricts the contract in a journal beside the file,     *)
(* without a lock, and then tries to replace the file under one; loaders   *)
(* merge the journal in.  A repair may rely on the contract only while the *)
(* window's copy and the file both call it ready.  Deadlines (a comparison *)
(* or a rehearsal is due) only forbid, and are left out; a contract that   *)
(* is not tracked yet restricts nothing.                                   *)
(***************************************************************************)
EXTENDS Integers, FiniteSets

CONSTANTS
  MaxTime,      \* bound: instants at which something is observed
  MaxOps,       \* bound: operations that publish or save
  MaxProofs,    \* bound: rehearsals that are used, after the first
  MaxPending,   \* the entries that leave no room for another (128 in the code)
  MaxRead,      \* the entries a reader takes: as many, or fewer when they are large
  Faults        \* which failures the instance allows

ASSUME ContractsAssumption ==
  /\ MaxTime \in Nat \ {0} /\ MaxOps \in Nat /\ MaxProofs \in Nat
  /\ MaxPending \in Nat /\ MaxRead \in 0..MaxPending
  /\ Faults \subseteq {"journal", "marker", "write", "crash", "lapse"}

Procs == {"window", "agent"}
Times == 1..MaxTime

VARIABLES
  now,        \* the clock
  used,       \* rehearsals somebody renewed with: each is named by its end (rehearsed_at)
  main,       \* the contract in the file
  pending,    \* the contracts in the restriction journal
  blocked,    \* the marker that bars every load and save
  lock,       \* who holds the lock of the file
  proc,       \* the two processes and the book each has in memory
  error,      \* ContractsState.error: the window's latch
  check,      \* ContractsState.worker: the comparison under way
  ops,        \* how many operations published or saved
  seen,       \* history: when the window last found what, in this life
  found,      \* history: the same of findings that reached the journal
  barred      \* history: evidence whose revocation reached the journal

world == <<now, used>>
files == <<main, pending, blocked, lock>>
panel == <<error, check>>
history == <<ops, seen, found, barred>>
vars  == <<world, files, proc, panel, history>>

-----------------------------------------------------------------------------
(* One contract.                                                           *)

NoCheck == [rev |-> 0, started |-> 0]
First   == [rev |-> 1, proof |-> 1, obs |-> 1, last |-> "none", done |-> 1,
            bad |-> FALSE, at |-> 0, revoked |-> {}]

Later(a, b) == IF a > b THEN a ELSE b

\* invalidate_at: the first reason stays, the latest time counts.
Invalidate(c, t) == [c EXCEPT !.bad = TRUE, !.at = Later(@, t)]

\* validate_at, as far as its parts can disagree.
Accepted(c) ==
  /\ c.proof \notin c.revoked
  /\ c.obs <= c.proof /\ c.obs <= c.done
  /\ c.last = "drift" => c.bad

Ready(c) == ~c.bad /\ Accepted(c) /\ c.last # "failed"

\* apply_check: the answer of a comparison that began after what is known.
ApplyCheck(c, res, t) ==
  LET d == [c EXCEPT !.last = res, !.done = t]
  IN IF res = "drift" THEN Invalidate(d, t) ELSE d

\* A rehearsal that ended at some moment and observed production at or before it.
Rehearsals == {p \in [proof : (2..now) \ used, obs : 1..now] : p.obs <= p.proof}
Use(p)     == Cardinality(used) < MaxProofs /\ used' = used \cup {p.proof}

\* renew: a later rehearsal, observed after everything that was found.
MayRenew(c, p) ==
  /\ p.proof > c.proof /\ p.obs > c.obs
  /\ c.bad => p.obs >= c.at
  /\ c.last # "none" => p.obs >= c.done
  /\ p.proof \notin c.revoked \cup {c.proof}

Renew(c, p) ==
  [rev |-> c.rev + 1, proof |-> p.proof, obs |-> p.obs, last |-> "none", done |-> p.obs,
   bad |-> FALSE, at |-> 0, revoked |-> c.revoked \cup {c.proof}]

-----------------------------------------------------------------------------
(* The restriction journal.                                                *)

\* new_restrictions: what this process found that the file may not know.
Restricts(c, old) ==
  \/ c.bad /\ (~old.bad \/ c.at # old.at)
  \/ c.last = "failed" /\ (c.last # old.last \/ c.done # old.done)
  \/ c.revoked \ old.revoked # {}

\* Later evidence that replaced all a journal entry rests on.
Superseded(c, entry, t) ==
  c.proof > entry.proof /\ c.obs >= t /\ entry.proof \in c.revoked

MergeRevoked(c, entry) ==
  LET d == [c EXCEPT !.revoked = @ \cup (entry.revoked \ {c.proof})]
  IN IF c.proof \in entry.revoked THEN Invalidate(d, now) ELSE d

MergeFailed(c, entry) ==
  IF entry.last # "failed" \/ Superseded(c, entry, entry.done) THEN c
  ELSE [c EXCEPT !.last = "failed", !.done = Later(@, entry.done)]

MergeInvalid(c, entry) ==
  IF ~entry.bad \/ Superseded(c, entry, entry.at) THEN c ELSE Invalidate(c, entry.at)

\* merge_restrictions, for one entry.
Merge(c, entry) == MergeFailed(MergeRevoked(MergeInvalid(c, entry), entry), entry)

\* The journal is a directory: its entries are read in any order.
Merged(c, entries) ==
  LET after[S \in SUBSET entries] ==
        IF S = {} THEN {c} ELSE UNION {{Merge(d, e) : d \in after[S \ {e}]} : e \in S}
  IN after[entries]

\* What loading the file yields now.
Views == Merged(main, pending)

\* read_pending refuses a journal with more entries, or with more in them.
Overfull == Cardinality(pending) > MaxRead

-----------------------------------------------------------------------------
(* Saving and loading.                                                     *)

\* The latest findings, after c has replaced old.
NoFindings == [bad |-> 0, failed |-> 0]
With(f, c, old) ==
  [bad    |-> IF c.bad /\ (~old.bad \/ c.at # old.at) THEN Later(f.bad, c.at) ELSE f.bad,
   failed |-> IF c.last = "failed" /\ (c.last # old.last \/ c.done # old.done)
              THEN Later(f.failed, c.done) ELSE f.failed]

\* A process and its Book: the contract it has (mem), the one it last loaded or saved
\* (source_contracts), whether the file is still the one it knows (source_digest), the
\* journal entries a save read and will remove, and whether that save came too late.
Book(pc, c) == [pc |-> pc, mem |-> c, src |-> c, current |-> TRUE, taken |-> {}, late |-> FALSE]
Away(pc)    == Book(pc, First)

\* A save that fails: the window keeps its book and bars everything, the agent's pass ends.
Stop(p) ==
  IF p = "window"
  THEN error' = TRUE /\ proc' = [proc EXCEPT ![p].pc = "ready", ![p].taken = {}, ![p].late = FALSE]
  ELSE error' = error /\ proc' = [proc EXCEPT ![p] = Away("off")]

Told(p, c) ==
  /\ found' = With(found, c, proc[p].src) /\ barred' = barred \cup (c.revoked \ proc[p].src.revoked)
Goes(p, c, next) == proc' = [proc EXCEPT ![p].mem = c, ![p].pc = next] /\ error' = error

\* How a process goes on once its entry is in the journal.
Written == [saving |-> "published", rereading |-> "reloading"]

\* The journal did not take the entry: a marker bars the contracts for good (if it can
\* be written).
Unpublished(p, c) ==
  /\ blocked' \in {TRUE} \cup (IF "marker" \in Faults THEN {blocked} ELSE {})
  /\ UNCHANGED <<pending, found, barred>>
  /\ IF p = "window" THEN error' = TRUE /\ proc' = [proc EXCEPT ![p].mem = c, ![p].pc = "ready"]
                     ELSE Stop(p)

\* Mutant: the restrictions wait for the file.
Publish_Later(p, c, step) ==
  Goes(p, c, Written[step]) /\ Told(p, c) /\ UNCHANGED <<pending, blocked>>

\* persist_restrictions, before anything else and without the lock: an entry that is not
\* there yet is counted against those that are.
Publish(p, c, step) ==
  \/ /\ ~Restricts(c, proc[p].src) /\ Goes(p, c, Written[step])
     /\ UNCHANGED <<pending, blocked, found, barred>>
  \/ /\ Restricts(c, proc[p].src) /\ c \in pending /\ Goes(p, c, Written[step]) /\ Told(p, c)
     /\ UNCHANGED <<pending, blocked>>
  \/ /\ Restricts(c, proc[p].src) /\ c \notin pending /\ Cardinality(pending) < MaxPending
     /\ Goes(p, c, step) /\ UNCHANGED <<pending, blocked, found, barred>>
  \/ /\ Restricts(c, proc[p].src)
     /\ "journal" \in Faults \/ (c \notin pending /\ Cardinality(pending) >= MaxPending)
     /\ Unpublished(p, c)

\* Then it is written, whatever the journal has in it by now.
WriteEntry(p) ==
  LET c == proc[p].mem IN
  /\ proc[p].pc \in {"saving", "rereading"}
  /\ \/ /\ pending' = pending \cup {c} /\ Goes(p, c, Written[proc[p].pc]) /\ Told(p, c)
        /\ UNCHANGED blocked
     \/ "journal" \in Faults /\ Unpublished(p, c)
  /\ UNCHANGED <<world, main, lock, check, ops, seen>>

Counted == ops < MaxOps /\ ops' = ops + 1   \* bound

\* An operation changes the contract in memory and saves it.
Save(p, c) == Publish(p, c, "saving") /\ Counted

\* Mutant: a stale copy is taken for the file.
Base_Mine(p) == proc[p].mem

\* What a saver starts from: its own copy, or the file when others have changed that.
Base(p) == IF proc[p].current THEN proc[p].mem ELSE main

MaySave(p) == proc[p].current \/ Restricts(proc[p].mem, proc[p].src)

\* save, under the lock: merge the journal, replace the file by a rename.
Commit(p) ==
  /\ proc[p].pc = "published" /\ lock = "free" /\ ~blocked /\ ~Overfull /\ MaySave(p)
  /\ \E c \in Merged(Base(p), pending) :
       /\ Accepted(c) /\ main' = c
       /\ proc' = [q \in Procs |->
            IF q = p THEN [Book("saved", c) EXCEPT !.taken = pending, !.late = ~proc[p].current]
            ELSE IF proc[q].pc \in {"off", "starting"} THEN proc[q] ELSE [proc[q] EXCEPT !.current = FALSE]]
  /\ lock' = p
  /\ UNCHANGED <<world, pending, blocked, panel, history>>

\* The lock is taken (share_mode(0) fails at once), the file was replaced by another,
\* the marker is set, the journal has too much in it, or the write fails.
CommitFails(p) ==
  /\ proc[p].pc = "published"
  /\ \/ lock # "free" \/ blocked \/ Overfull \/ ~MaySave(p) \/ "write" \in Faults
     \/ \E c \in Merged(Base(p), pending) : ~Accepted(c)
  /\ Stop(p)
  /\ UNCHANGED <<world, files, check, history>>

\* Mutant: the whole journal is emptied, not what was read.
Clean_All(p) ==
  /\ proc[p].pc = "saved" /\ lock' = "free" /\ pending' = {}
  /\ IF proc[p].late THEN Stop(p)
     ELSE proc' = [proc EXCEPT ![p].pc = "ready", ![p].taken = {}] /\ error' = error
  /\ UNCHANGED <<world, main, blocked, check, history>>

\* Only what was merged is removed, after the file has it, until the first entry that
\* cannot be; the lock is given back.
Clean(p) ==
  /\ proc[p].pc = "saved" /\ lock' = "free"
  /\ \/ pending' = pending \ proc[p].taken
        /\ IF proc[p].late THEN Stop(p)
           ELSE proc' = [proc EXCEPT ![p].pc = "ready", ![p].taken = {}] /\ error' = error
     \/ "write" \in Faults /\ Stop(p) /\ \E S \in SUBSET proc[p].taken : pending' = pending \ S
  /\ UNCHANGED <<world, main, blocked, check, history>>

\* Book::load, under the lock: file and journal together.
Loads(p) ==
  /\ lock = "free" /\ ~blocked /\ ~Overfull
  /\ \E c \in Views : Accepted(c) /\ proc' = [proc EXCEPT ![p] = Book("ready", c)]
CannotLoad == lock # "free" \/ blocked \/ Overfull \/ \E c \in Views : ~Accepted(c)

-----------------------------------------------------------------------------
(* The window.                                                             *)

Idle == proc["window"].pc = "ready" /\ ~error
Mine == proc["window"].mem

\* "Save intervals".
SetSettings ==
  /\ Idle /\ check = NoCheck
  /\ Save("window", [Mine EXCEPT !.rev = @ + 1])
  /\ UNCHANGED <<world, main, lock, check, seen>>

\* The production profile was edited or removed: poll_contracts notices.
ProfileGone ==
  /\ "lapse" \in Faults /\ Idle /\ ~Mine.bad
  /\ Save("window", Invalidate(Mine, now))
  /\ seen' = [seen EXCEPT !.bad = now]
  /\ UNCHANGED <<world, main, lock, check>>

StartCheck ==
  /\ Idle /\ check = NoCheck /\ check' = [rev |-> Mine.rev, started |-> now]
  /\ UNCHANGED <<world, files, proc, error, history>>

\* The comparison ends: its answer is dropped when the window is barred or the contract
\* was replaced, and counts against the contract when it does not fit what is known.
CheckEnds ==
  /\ proc["window"].pc = "ready" /\ check # NoCheck /\ check' = NoCheck
  /\ \/ /\ error \/ check.rev # Mine.rev
        /\ UNCHANGED <<pending, blocked, proc, error, history>>
     \/ /\ ~error /\ check.rev = Mine.rev
        /\ \E res \in {"same", "drift", "failed"} :
             LET c == IF check.started >= Mine.done THEN ApplyCheck(Mine, res, now)
                      ELSE Invalidate(Mine, now)
             IN Save("window", c) /\ seen' = With(seen, c, Mine)
  /\ UNCHANGED <<world, main, lock>>

\* "Adopt / renew passed rehearsal".
Adopt ==
  /\ Idle /\ check = NoCheck
  /\ \E p \in Rehearsals : MayRenew(Mine, p) /\ Use(p) /\ Save("window", Renew(Mine, p))
  /\ UNCHANGED <<now, main, lock, check, seen>>

\* Mutant: the copy is thrown away without another look at the journal.
Reload_Forgets ==
  /\ proc["window"].pc = "ready" /\ check = NoCheck
  /\ Goes("window", Mine, "reloading") /\ Counted /\ UNCHANGED <<pending, blocked, found, barred>>
  /\ UNCHANGED <<world, main, lock, check, seen>>

\* "Reload saved plans": what was found is published first.
Reload ==
  /\ proc["window"].pc = "ready" /\ check = NoCheck
  /\ Publish("window", Mine, "rereading") /\ Counted
  /\ UNCHANGED <<world, main, lock, check, seen>>

ReloadEnds ==
  /\ proc["window"].pc = "reloading"
  /\ \/ Loads("window") /\ error' = FALSE
     \/ CannotLoad /\ Stop("window")
  /\ UNCHANGED <<world, files, check, history>>

\* The window is closed or dies, and starts again; its locks fall with it.
Restart ==
  /\ "crash" \in Faults /\ proc["window"].pc # "starting"
  /\ proc' = [proc EXCEPT !["window"] = Away("starting")]
  /\ lock' = (IF lock = "window" THEN "free" ELSE lock)
  /\ check' = NoCheck /\ seen' = NoFindings /\ error' = TRUE
  /\ UNCHANGED <<world, main, pending, blocked, ops, found, barred>>

\* ContractsState::default; without a book there is nothing to save or publish.
Start ==
  /\ proc["window"].pc = "starting"
  /\ \/ Loads("window") /\ error' = FALSE
     \/ CannotLoad /\ UNCHANGED <<proc, error>>
  /\ UNCHANGED <<world, files, check, history>>

-----------------------------------------------------------------------------
(* The agent: run_once, for the contract it has consent for.               *)

Pass ==
  /\ proc["agent"].pc = "off" /\ Loads("agent")
  /\ UNCHANGED <<world, files, panel, history>>

\* A comparison when one is due.
AgentChecks ==
  /\ proc["agent"].pc = "ready"
  /\ \E res \in {"same", "drift", "failed"} : Save("agent", ApplyCheck(proc["agent"].mem, res, now))
  /\ UNCHANGED <<world, main, lock, check, seen>>

\* A rehearsal on the clones, when one is due and agreed to.
AgentRenews ==
  /\ proc["agent"].pc = "ready"
  /\ \E p \in Rehearsals : /\ p.proof = now /\ MayRenew(proc["agent"].mem, p) /\ Use(p)
                           /\ Save("agent", Renew(proc["agent"].mem, p))
  /\ UNCHANGED <<now, main, lock, check, seen>>

\* The pass is over, or the process dies in it.
AgentEnds ==
  /\ proc["agent"].pc # "off" /\ (proc["agent"].pc = "ready" \/ "crash" \in Faults)
  /\ proc' = [proc EXCEPT !["agent"] = Away("off")]
  /\ lock' = (IF lock = "agent" THEN "free" ELSE lock)
  /\ UNCHANGED <<world, main, pending, blocked, panel, history>>

-----------------------------------------------------------------------------

Tick ==
  /\ now < MaxTime /\ now' = now + 1
  /\ UNCHANGED <<used, files, proc, panel, history>>

Init ==
  /\ now = 1 /\ used = {} /\ main = First /\ pending = {} /\ blocked = FALSE /\ lock = "free"
  /\ proc = [p \in Procs |-> Away(IF p = "window" THEN "ready" ELSE "off")]
  /\ error = FALSE /\ check = NoCheck /\ ops = 0 /\ seen = NoFindings /\ found = NoFindings /\ barred = {}

Window == SetSettings \/ ProfileGone \/ StartCheck \/ CheckEnds \/ Adopt \/ Reload \/ ReloadEnds
          \/ Restart \/ Start
Agent  == Pass \/ AgentChecks \/ AgentRenews \/ AgentEnds
Saving == \E p \in Procs : WriteEntry(p) \/ Commit(p) \/ CommitFails(p) \/ Clean(p)

Next == Window \/ Agent \/ Saving \/ Tick

Spec == Init /\ [][Next]_vars

-----------------------------------------------------------------------------
(* Properties.                                                             *)

\* What was found is answered: the contract is barred, or rests on a rehearsal
\* observed since, or (a comparison that failed) was compared again since.  What
\* answers the latest finding of a kind answers those before it.
Answered(c, f) ==
  c.bad \/ /\ c.obs >= f.bad
           /\ c.last = "failed" \/ c.done >= f.failed

\* Whoever loads the contracts, at any moment and in whatever order the journal is
\* read, gets a contract the loader accepts, that answers every finding either process
\* has published, and does not rest on revoked evidence: no concurrent save, no failed
\* save, no crash between publishing, replacing and cleaning up loses one.
LoadsAreSafe ==
  \A c \in Views : /\ Accepted(c) /\ Answered(c, found)
                   /\ c.proof \in barred => c.bad

\* contracts_execution_allowed and ensure_execution_allowed: a repair with the
\* evidence e may be approved now.
Allows(e, c) ==
  /\ Idle /\ check = NoCheck /\ Ready(Mine) /\ e \notin Mine.revoked
  /\ lock = "free" /\ ~blocked /\ ~Overfull /\ Ready(c) /\ e \notin c.revoked

\* A repair is only approved while every finding the window made or the journal took
\* is answered in the window's copy and in the file, and never on evidence whose
\* revocation was published: a finding that could not be stored still bars approvals.
AllowedIsClean ==
  \A e \in 1..now, c \in Views :
    Allows(e, c) =>
      e \notin barred /\ Answered(Mine, seen) /\ Answered(c, seen) /\ Answered(c, found)
=============================================================================
