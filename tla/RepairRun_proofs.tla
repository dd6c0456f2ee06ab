--------------------------- MODULE RepairRun_proofs ---------------------------
(***************************************************************************)
(* What the execution engine guarantees for any number of runs, targets,   *)
(* process lifetimes and any choice of faults.                             *)
(*                                                                         *)
(* A journal is in order (Order) when every run went through its targets   *)
(* one by one, and it tells the truth (Told) when the phase of each target *)
(* agrees with what was sent to that host.  The file always does both; the *)
(* journal in memory does, too, until a save fails: then nothing more is   *)
(* sent or written, and what the process still believes dies with it.      *)
(***************************************************************************)
EXTENDS RepairRun, TLAPS

-----------------------------------------------------------------------------
(* The invariant.                                                          *)

\* Runs are handed out one after the other.
Filled(b) == \E n \in 0..MaxRuns : \A r \in Runs : b.run[r].kind # "none" <=> r <= n

\* A run passed the targets before its current one, and did not come to those after it.
Path(b, r) ==
  /\ \A t \in Targets :
       /\ t < b.run[r].cur => b.tgt[<<r, t>>].phase = "Passed"
       /\ t > b.run[r].cur => b.tgt[<<r, t>>].phase \in {"Capture", "Unknown"}
       /\ t > b.run[r].cur /\ Unfinished(b, r) => b.tgt[<<r, t>>].phase = "Capture"
       /\ b.run[r].kind = "none" => b.tgt[<<r, t>>].phase = "Capture"
  /\ b.run[r].fin => b.run[r].kind # "none" /\ Cur(b, r).phase \in Settled

\* An open run has something left to do.
Pending(b, r) == Unfinished(b, r) => Cur(b, r).phase \notin Settled

Order(b) == Filled(b) /\ \A r \in Runs : Path(b, r) /\ Pending(b, r)

\* What the phase of a target says of the changes (a) and restores (u) sent to it.
\* z: a restart plan, which changes a host whatever state it is in.
Tally(z, c, a, u) ==
  /\ a \in {0, 1} /\ u \in {0, 1} /\ u <= a
  /\ c.phase \in {"Capture", "Baseline", "Review", "Failed"} => a = 0
  /\ c.phase \in {"Apply", "Verify", "Passed"} => u = 0
  /\ c.phase \in {"Verify", "Passed"} => (a = 1 <=> (z \/ c.before # "desired"))
  /\ c.phase \in {"Apply", "Restore"} => (z \/ c.before # "desired")
  /\ c.phase \in {"Restore", "Restored"} => a = 1

Told(z, b, n) ==
  \A r \in Runs, t \in Targets : Tally(z, b.tgt[<<r, t>>], n[<<r, t, "Apply">>], n[<<r, t, "Restore">>])

\* What a handler has in hand belongs to the open run, and to the step it is in.
Hands == [book : Book, reviewed : BOOLEAN, receipt : Receipts, job : Jobs,
          health : {"idle", "running", "pass", "fail"}]

Fit(m, r) ==
  /\ m \in Hands /\ Order(m.book) /\ Consistent(m.book)
  /\ \A q \in Runs : Unfinished(m.book, q) => q = r
  /\ m.job # NoJob => /\ r \in Runs /\ Unfinished(m.book, r) /\ m.health = "idle"
                      /\ m.job.run = r /\ m.job.tgt = m.book.run[r].cur
                      /\ m.job.op = Cur(m.book, r).phase
  /\ m.health # "idle" => /\ r \in Runs /\ Unfinished(m.book, r)
                          /\ Cur(m.book, r).phase \in {"Baseline", "Verify"}

\* A step that was sent is the one a job is out for, and the other way round.
InHand(m, r, n) ==
  (r \in Runs /\ Unfinished(m.book, r)) =>
    LET t == m.book.run[r].cur IN
    /\ Cur(m.book, r).phase = "Apply"   => n[<<r, t, "Apply">>] = (IF m.job = NoJob THEN 0 ELSE 1)
    /\ Cur(m.book, r).phase = "Restore" => n[<<r, t, "Restore">>] = (IF m.job = NoJob THEN 0 ELSE 1)

True(z, m, r, n) == Told(z, m.book, n) /\ InHand(m, r, n)

\* A journal that may be in the file.
Filing(z, b, n) == b \in Book /\ Order(b) /\ Consistent(b) /\ Told(z, b, n)
Filed == Filing(restart, disk, sent)

Synced == ~error => True(restart, Now, selected, sent) /\ (book = disk \/ book = Interrupt(disk))

Outer ==
  /\ restart \in BOOLEAN /\ error \in BOOLEAN /\ selected \in Runs \cup {NoRun} /\ gen \in Nat
  /\ ghosts \in Nat /\ sent \in [Runs \X Targets \X Mutation -> 0..2]
  /\ aged \subseteq Slots /\ void \subseteq Runs
  /\ profileOk \in BOOLEAN /\ handoffOk \in BOOLEAN /\ boots \in 1..MaxBoots

RunInv == Outer /\ Fit(Now, selected) /\ Filed /\ Synced
-----------------------------------------------------------------------------
(* What the transitions do to a journal.                                   *)

Put(b, r, c)   == [b EXCEPT !.tgt[<<r, b.run[r].cur>>] = c]
Moved(b, r, c) == Advance(Put(b, r, c), r)

RunRecs == [kind : {"none", "rehearsal", "production", "lab"}, team : BOOLEAN,
            cur : Targets, fin : BOOLEAN]

\* What was approved, attempted and reported of a target stays as it was.
SameClaims(c, d) ==
  /\ c.approval = d.approval /\ c.attempted = d.attempted
  /\ c.event = d.event /\ c.delivered = d.delivered

\* The current target of a run is one of its targets.
LEMMA CurrentSlot ==
  ASSUME NEW b \in Book, NEW r \in Runs
  PROVE  /\ b.run[r].cur \in Targets /\ <<r, b.run[r].cur>> \in Slots
         /\ Cur(b, r) = b.tgt[<<r, b.run[r].cur>>] /\ Cur(b, r) \in TargetRec
         /\ b.tgt \in [Slots -> TargetRec] /\ b.run[r].fin \in BOOLEAN /\ b.run[r].team \in BOOLEAN
  BY DEF Book, Slots, Cur

\* Writing down the current target touches no other and nothing of the runs.
LEMMA PutIsLocal ==
  ASSUME NEW b \in Book, NEW r \in Runs, NEW c \in TargetRec
  PROVE  /\ Put(b, r, c) \in Book /\ Put(b, r, c).run = b.run /\ Put(b, r, c).team = b.team
         /\ Put(b, r, c).tgt = [b.tgt EXCEPT ![<<r, b.run[r].cur>>] = c]
         /\ Cur(Put(b, r, c), r) = c
         /\ \A s \in Slots : s # <<r, b.run[r].cur>> => Put(b, r, c).tgt[s] = b.tgt[s]
  <1> DEFINE p == Put(b, r, c)
  <1>1. <<r, b.run[r].cur>> \in Slots /\ b.tgt \in [Slots -> TargetRec]  BY CurrentSlot
  <1>2. p.tgt = [b.tgt EXCEPT ![<<r, b.run[r].cur>>] = c] /\ p.run = b.run /\ p.team = b.team
    BY DEF Put, Book
  <1>3. p.tgt \in [Slots -> TargetRec]  BY <1>1, <1>2
  <1>4. p \in Book  BY <1>3 DEF Put, Book
  <1> HIDE DEF p
  <1>5. Cur(p, r) = c  BY <1>1, <1>2 DEF Cur
  <1>6. \A s \in Slots : s # <<r, b.run[r].cur>> => p.tgt[s] = b.tgt[s]  BY <1>1, <1>2
  <1> QED BY <1>2, <1>4, <1>5, <1>6 DEF p

\* Setting a phase is writing down the target with that phase.
LEMMA SetPhaseIsPut ==
  ASSUME NEW b \in Book, NEW r \in Runs, NEW ph \in Phases
  PROVE  /\ SetPhase(b, r, ph) = Put(b, r, [Cur(b, r) EXCEPT !.phase = ph])
         /\ [Cur(b, r) EXCEPT !.phase = ph] \in TargetRec
         /\ [Cur(b, r) EXCEPT !.phase = ph].phase = ph
         /\ [Cur(b, r) EXCEPT !.phase = ph].before = Cur(b, r).before
         /\ [Cur(b, r) EXCEPT !.phase = ph].baseline = Cur(b, r).baseline
         /\ SameClaims([Cur(b, r) EXCEPT !.phase = ph], Cur(b, r))
  <1>1. Cur(b, r) \in TargetRec  BY CurrentSlot
  <1>2. SetPhase(b, r, ph) = Put(b, r, [Cur(b, r) EXCEPT !.phase = ph])
    BY CurrentSlot DEF SetPhase, Put, Cur, Book
  <1> QED BY <1>1, <1>2 DEF TargetRec, SameClaims

\* What Advance does: the run goes on to the next target, or ends, or stays.
LEMMA AdvanceSteps ==
  ASSUME NEW b \in Book, NEW r \in Runs
  PROVE  /\ Advance(b, r) \in Book /\ Advance(b, r).tgt = b.tgt /\ Advance(b, r).team = b.team
         /\ \A q \in Runs : /\ q # r => Advance(b, r).run[q] = b.run[q]
                            /\ Advance(b, r).run[q].kind = b.run[q].kind
                            /\ Advance(b, r).run[q].team = b.run[q].team
         /\ LET n == b.run[r].cur
                ph == Cur(b, r).phase
                e == Advance(b, r).run[r] IN
            \/ ph = "Passed" /\ n < NTargets /\ e.cur = n + 1 /\ n + 1 \in Targets /\ e.fin = b.run[r].fin
            \/ /\ \/ ph = "Passed" /\ n = NTargets
                  \/ ph \in {"Failed", "Restored", "Unknown"}
               /\ e.cur = n /\ e.fin = TRUE
            \/ ph \notin Settled /\ Advance(b, r) = b
  <1> DEFINE n == b.run[r].cur
             ph == Cur(b, r).phase
             Go(e) == [b EXCEPT !.run[r] = e]
  <1>1. n \in Targets /\ n \in Nat /\ NTargets \in Nat /\ n <= NTargets
    <2>1. n \in Targets  BY CurrentSlot
    <2>2. NTargets \in Nat  BY RunAssumption
    <2> QED BY <2>1, <2>2 DEF Targets
  <1>2. b.run \in [Runs -> RunRecs] /\ b.run[r] \in RunRecs  BY DEF Book, RunRecs
  <1>3. ASSUME NEW e \in RunRecs, e.kind = b.run[r].kind, e.team = b.run[r].team
        PROVE  /\ Go(e) \in Book /\ Go(e).tgt = b.tgt /\ Go(e).team = b.team
               /\ \A q \in Runs : /\ q # r => Go(e).run[q] = b.run[q]
                                  /\ Go(e).run[q].kind = b.run[q].kind
                                  /\ Go(e).run[q].team = b.run[q].team
               /\ Go(e).run[r] = e
    <2>1. /\ Go(e).run = [b.run EXCEPT ![r] = e] /\ Go(e).tgt = b.tgt /\ Go(e).team = b.team
      BY DEF Book
    <2>2. Go(e).run \in [Runs -> RunRecs]  BY <1>2, <1>3, <2>1
    <2>3. Go(e) \in Book  BY <2>1, <2>2 DEF Book, RunRecs
    <2> QED BY <1>2, <1>3, <2>1, <2>3
  <1>4. CASE ph = "Passed" /\ n < NTargets
    <2> DEFINE e == [b.run[r] EXCEPT !.cur = n + 1]
    <2>1. Advance(b, r) = Go(e)
      <3>1. Advance(b, r) = [b EXCEPT !.run[r].cur = @ + 1]  BY <1>1, <1>4 DEF Advance
      <3> QED BY <1>2, <3>1 DEF Book, RunRecs
    <2>2. n + 1 \in Targets  BY <1>1, <1>4 DEF Targets
    <2>3. /\ e \in RunRecs /\ e.kind = b.run[r].kind /\ e.team = b.run[r].team /\ e.cur = n + 1
          /\ e.fin = b.run[r].fin
      BY <1>2, <2>2 DEF RunRecs
    <2> HIDE DEF e, Go
    <2> QED BY <1>3, <1>4, <2>1, <2>2, <2>3
  <1>5. CASE \/ ph = "Passed" /\ n = NTargets
             \/ ph \in {"Failed", "Restored", "Unknown"}
    <2> DEFINE e == [b.run[r] EXCEPT !.fin = TRUE]
    <2>1. Advance(b, r) = Go(e)
      <3>1. Advance(b, r) = [b EXCEPT !.run[r].fin = TRUE]  BY <1>1, <1>5 DEF Advance
      <3> QED BY <1>2, <3>1 DEF Book, RunRecs
    <2>2. /\ e \in RunRecs /\ e.kind = b.run[r].kind /\ e.team = b.run[r].team /\ e.cur = n
          /\ e.fin = TRUE
      BY <1>2 DEF RunRecs
    <2> HIDE DEF e, Go
    <2> QED BY <1>3, <1>5, <2>1, <2>2
  <1>6. CASE ph \notin Settled
    <2>1. Advance(b, r) = b  BY <1>6 DEF Advance, Settled
    <2> QED BY <1>6, <2>1
  <1>7. n < NTargets \/ n = NTargets  BY <1>1
  <1> QED BY <1>4, <1>5, <1>6, <1>7 DEF Settled

\* A target is attempted only with an approval, in a team-controlled production run.
Claimed(b, r, c) ==
  \/ SameClaims(c, Cur(b, r))
  \/ Production(b, r) /\ b.run[r].team /\ c.attempted /\ c.approval # NoApproval

\* A transition writes down the current target of an open run and advances the run:
\* that keeps the journal in order and readable, and opens nothing.
LEMMA MovedGood ==
  ASSUME NEW b \in Book, Order(b), Consistent(b), NEW r \in Runs, Unfinished(b, r),
         NEW c \in TargetRec, Claimed(b, r, c)
  PROVE  /\ Moved(b, r, c) \in Book /\ Order(Moved(b, r, c)) /\ Consistent(Moved(b, r, c))
         /\ Moved(b, r, c).tgt = [b.tgt EXCEPT ![<<r, b.run[r].cur>>] = c]
         /\ \A q \in Runs : /\ Moved(b, r, c).run[q].kind = b.run[q].kind
                            /\ Moved(b, r, c).run[q].team = b.run[q].team
                            /\ Unfinished(Moved(b, r, c), q) => Unfinished(b, q)
         /\ c.phase \notin Settled => Moved(b, r, c) = Put(b, r, c)
         /\ c.phase \in Settled /\ Unfinished(Moved(b, r, c), r) =>
              Cur(Moved(b, r, c), r).phase = "Capture"
  <1> DEFINE p == Put(b, r, c)
             d == Moved(b, r, c)
             n == b.run[r].cur
             s == <<r, n>>
  <1>1. /\ p \in Book /\ p.run = b.run /\ p.team = b.team /\ p.tgt = [b.tgt EXCEPT ![s] = c]
        /\ Cur(p, r) = c
    BY PutIsLocal
  <1>2. n \in Targets /\ s \in Slots /\ b.tgt \in [Slots -> TargetRec] /\ Cur(b, r) = b.tgt[s]
    BY CurrentSlot
  <1>3. /\ d \in Book /\ d.tgt = p.tgt /\ d.team = p.team
        /\ \A q \in Runs : /\ q # r => d.run[q] = p.run[q]
                           /\ d.run[q].kind = p.run[q].kind /\ d.run[q].team = p.run[q].team
    BY <1>1, AdvanceSteps DEF Moved
  <1>4. \/ c.phase = "Passed" /\ n < NTargets /\ d.run[r].cur = n + 1 /\ n + 1 \in Targets
           /\ d.run[r].fin = b.run[r].fin
        \/ c.phase \in Settled /\ d.run[r].cur = n /\ d.run[r].fin = TRUE
        \/ c.phase \notin Settled /\ d = p
    <2>1. p.run[r] = b.run[r] /\ Advance(p, r) = d  BY <1>1 DEF Moved
    <2> HIDE DEF p, d
    <2>2. \/ Cur(p, r).phase = "Passed" /\ p.run[r].cur < NTargets
             /\ Advance(p, r).run[r].cur = p.run[r].cur + 1
             /\ p.run[r].cur + 1 \in Targets /\ Advance(p, r).run[r].fin = p.run[r].fin
          \/ /\ \/ Cur(p, r).phase = "Passed" /\ p.run[r].cur = NTargets
                \/ Cur(p, r).phase \in {"Failed", "Restored", "Unknown"}
             /\ Advance(p, r).run[r].cur = p.run[r].cur /\ Advance(p, r).run[r].fin = TRUE
          \/ Cur(p, r).phase \notin Settled /\ Advance(p, r) = p
      BY <1>1, AdvanceSteps
    <2> QED BY <1>1, <2>1, <2>2 DEF Settled
  <1> HIDE DEF p, d
  <1>5. \A q \in Runs : d.run[q].kind = b.run[q].kind /\ d.run[q].team = b.run[q].team
    BY <1>1, <1>3
  <1>6. \A q \in Runs, t \in Targets : <<q, t>> # s => d.tgt[<<q, t>>] = b.tgt[<<q, t>>]
    BY <1>1, <1>2, <1>3 DEF Slots
  <1>7. d.tgt[s] = c  BY <1>1, <1>2, <1>3
  <1>8. Filled(d)  BY <1>5 DEF Order, Filled
  <1>9. \A q \in Runs : q # r => Path(d, q) /\ Pending(d, q)
    <2> SUFFICES ASSUME NEW q \in Runs, q # r PROVE Path(d, q) /\ Pending(d, q)
      OBVIOUS
    <2>1. d.run[q] = b.run[q] /\ \A t \in Targets : d.tgt[<<q, t>>] = b.tgt[<<q, t>>]
      BY <1>1, <1>3, <1>6
    <2>2. b.run[q].cur \in Targets  BY CurrentSlot
    <2> QED BY <2>1, <2>2 DEF Order, Path, Pending, Unfinished, Cur
  <1>10. Path(d, r) /\ Pending(d, r)
    <2>1. Path(b, r) /\ Pending(b, r) /\ b.run[r].kind # "none" /\ ~b.run[r].fin
      BY DEF Order, Unfinished
    <2>2. \A t \in Targets : t # n => d.tgt[<<r, t>>] = b.tgt[<<r, t>>]  BY <1>6
    <2>3. \A t \in Targets : /\ t < n => d.tgt[<<r, t>>].phase = "Passed"
                             /\ t > n => d.tgt[<<r, t>>].phase = "Capture"
      <3>1. n \in Nat /\ Targets \subseteq Nat  BY <1>2 DEF Targets
      <3> QED BY <2>1, <2>2, <3>1 DEF Path, Unfinished
    <2>4. d.run[r].kind # "none"  BY <1>5, <2>1
    <2>5. CASE c.phase = "Passed" /\ n < NTargets /\ d.run[r].cur = n + 1 /\ n + 1 \in Targets
               /\ d.run[r].fin = b.run[r].fin
      <3>1. \A t \in Targets : /\ t < n + 1 => t < n \/ t = n
                               /\ t > n + 1 => t > n
        BY <1>2 DEF Targets
      <3>2. n + 1 > n  BY <1>2 DEF Targets
      <3> QED BY <1>7, <2>1, <2>3, <2>4, <2>5, <3>1, <3>2 DEF Path, Pending, Unfinished, Cur, Settled
    <2>6. CASE c.phase \in Settled /\ d.run[r].cur = n /\ d.run[r].fin = TRUE
      BY <1>7, <2>3, <2>4, <2>6 DEF Path, Pending, Unfinished, Cur
    <2>7. CASE c.phase \notin Settled /\ d = p
      <3>1. d.run[r] = b.run[r]  BY <1>1, <2>7
      <3> QED BY <1>7, <2>1, <2>3, <2>7, <3>1 DEF Path, Pending, Unfinished, Cur
    <2> QED BY <1>4, <2>5, <2>6, <2>7
  <1>11. Consistent(d)
    <2>1. \A q \in Runs : d.run[q].team => d.team  BY <1>1, <1>3, <1>5 DEF Consistent
    <2>2. ASSUME NEW v \in Slots
          PROVE  \/ /\ ~d.tgt[v].attempted /\ d.tgt[v].approval = NoApproval /\ d.tgt[v].event = NoEvent
                 \/ /\ Production(d, v[1]) /\ d.run[v[1]].team
                    /\ d.tgt[v].attempted /\ d.tgt[v].approval # NoApproval
      <3>1. v[1] \in Runs /\ v = <<v[1], v[2]>> /\ v[2] \in Targets  BY DEF Slots
      <3>2. Production(d, v[1]) <=> Production(b, v[1])  BY <1>5, <3>1 DEF Production
      <3>3. CASE v # s
        <4>1. d.tgt[v] = b.tgt[v]  BY <1>6, <3>1, <3>3
        <4> QED BY <1>5, <3>1, <3>2, <4>1 DEF Consistent
      <3>4. CASE v = s
        <4>1. v[1] = r /\ d.tgt[v] = c  BY <1>7, <3>4
        <4> QED BY <1>2, <1>5, <3>2, <3>4, <4>1 DEF Consistent, Claimed, SameClaims
      <3> QED BY <3>3, <3>4
    <2> QED BY <2>1, <2>2 DEF Consistent
  <1>12. \A q \in Runs : Unfinished(d, q) => Unfinished(b, q)
    <2>1. \A q \in Runs : q # r => d.run[q] = b.run[q]  BY <1>1, <1>3
    <2> QED BY <2>1 DEF Unfinished
  <1>13. c.phase \in Settled /\ Unfinished(d, r) => Cur(d, r).phase = "Capture"
    <2> SUFFICES ASSUME c.phase \in Settled, Unfinished(d, r) PROVE Cur(d, r).phase = "Capture"
      OBVIOUS
    <2>1. d.run[r].cur = n + 1 /\ n + 1 \in Targets  BY <1>4 DEF Unfinished
    <2>2. n + 1 > n /\ <<r, n + 1>> # s  BY <1>2 DEF Targets
    <2>3. b.tgt[<<r, n + 1>>].phase = "Capture"  BY <2>1, <2>2 DEF Order, Path
    <2> QED BY <1>6, <2>1, <2>2, <2>3 DEF Cur
  <1>14. Order(d)  BY <1>8, <1>9, <1>10 DEF Order
  <1>15. c.phase \notin Settled => d = p  BY <1>4 DEF Settled
  <1> QED BY <1>1, <1>3, <1>5, <1>11, <1>12, <1>13, <1>14, <1>15 DEF p, d

\* Giving a run up is a transition to "Unknown".
LEMMA FailMoves ==
  ASSUME NEW b \in Book, NEW r \in Runs
  PROVE  FailCurrent(b, r) = Moved(b, r, [Cur(b, r) EXCEPT !.phase = "Unknown"])
  BY SetPhaseIsPut DEF FailCurrent, Moved, Phases, Settled

\* A verdict that is written down stays.
Onward(b, d) == \A s \in Slots : b.tgt[s].phase \in Settled => d.tgt[s].phase = b.tgt[s].phase

\* A handler takes the open run one transition on; what it then has in hand belongs to
\* that run, and no verdict is changed.
LEMMA StepFits ==
  ASSUME NEW m, NEW r \in Runs, Fit(m, r), Unfinished(m.book, r),
         NEW c \in TargetRec, Claimed(m.book, r, c),
         NEW k \in Hands, k.book = Moved(m.book, r, c),
         k.job # NoJob => /\ c.phase \notin Settled /\ k.health = "idle" /\ k.job.run = r
                          /\ k.job.tgt = m.book.run[r].cur /\ k.job.op = c.phase,
         k.health # "idle" => c.phase \in {"Baseline", "Verify"}
  PROVE  Fit(k, r) /\ Onward(m.book, k.book)
  <1> DEFINE b == m.book
             d == Moved(b, r, c)
  <1>1. b \in Book /\ Order(b) /\ Consistent(b) /\ \A q \in Runs : Unfinished(b, q) => q = r
    BY DEF Fit, Hands
  <1>2. /\ d \in Book /\ Order(d) /\ Consistent(d) /\ d.tgt = [b.tgt EXCEPT ![<<r, b.run[r].cur>>] = c]
        /\ \A q \in Runs : Unfinished(d, q) => Unfinished(b, q)
        /\ c.phase \notin Settled => d = Put(b, r, c)
    BY <1>1, MovedGood
  <1>3. c.phase \notin Settled => Cur(d, r) = c /\ d.run = b.run
    BY <1>1, <1>2, PutIsLocal
  <1>4. c.phase \notin Settled => Unfinished(d, r)  BY <1>3 DEF Unfinished
  <1>5. Onward(b, d)
    <2>1. /\ b.tgt \in [Slots -> TargetRec] /\ <<r, b.run[r].cur>> \in Slots
          /\ b.tgt[<<r, b.run[r].cur>>].phase \notin Settled
      BY <1>1, CurrentSlot DEF Order, Pending
    <2> QED BY <1>2, <2>1 DEF Onward
  <1> HIDE DEF d
  <1>6. Fit(k, r)
    <2>1. k.book = d  BY DEF d
    <2>2. {"Baseline", "Verify"} \cap Settled = {}  BY DEF Settled
    <2> QED BY <1>1, <1>2, <1>3, <1>4, <2>1, <2>2 DEF Fit
  <1> QED BY <1>5, <1>6 DEF d

\* And what it has in hand tells the truth, if the new phase of the target does.
LEMMA StepTellsTrue ==
  ASSUME NEW m, NEW r \in Runs, Fit(m, r), Unfinished(m.book, r),
         NEW c \in TargetRec, Claimed(m.book, r, c),
         NEW k \in Hands, k.book = Moved(m.book, r, c),
         NEW z, NEW n, Told(z, m.book, n), NEW x,
         \A q \in Runs, t \in Targets : <<q, t>> # <<r, m.book.run[r].cur>> =>
           x[<<q, t, "Apply">>] = n[<<q, t, "Apply">>] /\ x[<<q, t, "Restore">>] = n[<<q, t, "Restore">>],
         Tally(z, c, x[<<r, m.book.run[r].cur, "Apply">>], x[<<r, m.book.run[r].cur, "Restore">>]),
         c.phase = "Apply" => x[<<r, m.book.run[r].cur, "Apply">>] = (IF k.job = NoJob THEN 0 ELSE 1),
         c.phase = "Restore" => x[<<r, m.book.run[r].cur, "Restore">>] = (IF k.job = NoJob THEN 0 ELSE 1)
  PROVE  True(z, k, r, x)
  <1> DEFINE b == m.book
             d == Moved(b, r, c)
  <1>1. b \in Book /\ Order(b) /\ Consistent(b)  BY DEF Fit, Hands
  <1>2. /\ d.tgt = [b.tgt EXCEPT ![<<r, b.run[r].cur>>] = c]
        /\ c.phase \notin Settled => d = Put(b, r, c)
        /\ c.phase \in Settled /\ Unfinished(d, r) => Cur(d, r).phase = "Capture"
    BY <1>1, MovedGood
  <1>3. c.phase \notin Settled => Cur(d, r) = c /\ d.run = b.run
    <2>1. Cur(Put(b, r, c), r) = c /\ Put(b, r, c).run = b.run  BY <1>1, PutIsLocal
    <2> HIDE DEF d
    <2> QED BY <1>2, <2>1
  <1>4. /\ b.tgt \in [Slots -> TargetRec] /\ <<r, b.run[r].cur>> \in Slots /\ b.run[r].cur \in Targets
    BY <1>1, CurrentSlot
  <1> HIDE DEF d
  <1>5. k.book = d  BY DEF d
  <1>6. Told(z, d, x)
    <2> SUFFICES ASSUME NEW q \in Runs, NEW t \in Targets
                 PROVE  Tally(z, d.tgt[<<q, t>>], x[<<q, t, "Apply">>], x[<<q, t, "Restore">>])
      BY DEF Told
    <2>1. CASE <<q, t>> = <<r, b.run[r].cur>>  BY <1>2, <1>4, <2>1
    <2>2. CASE <<q, t>> # <<r, b.run[r].cur>>
      <3>1. d.tgt[<<q, t>>] = b.tgt[<<q, t>>]  BY <1>2, <1>4, <2>2 DEF Slots
      <3> QED BY <2>2, <3>1 DEF Told
    <2> QED BY <2>1, <2>2
  <1>7. InHand(k, r, x)
    <2>1. CASE c.phase \in Settled  BY <1>2, <1>5, <2>1 DEF InHand
    <2>2. CASE c.phase \notin Settled  BY <1>3, <1>5, <2>2 DEF InHand
    <2> QED BY <2>1, <2>2
  <1> QED BY <1>5, <1>6, <1>7 DEF True
Results == {"none", "desired", "other", "unclear", "verified", "rolledback"}

\* The answer of a job is a transition, and tells what the host was left with.
LEMMA AfterJobMoves ==
  ASSUME NEW b \in Book, NEW r \in Runs, NEW res \in Results, NEW z, NEW a, NEW u,
         Cur(b, r).phase = "Apply" => a = 1
  PROVE  \E c \in TargetRec : /\ AfterJob(b, r, res) = Moved(b, r, c) /\ SameClaims(c, Cur(b, r))
                              /\ Tally(z, Cur(b, r), a, u) => Tally(z, c, a, u)
                              /\ c.phase \in {"Baseline", "Restored", "Verify", "Unknown"}
  <1> DEFINE c == Cur(b, r)
             With(ph) == [c EXCEPT !.phase = ph]
  <1>1. c \in TargetRec  BY CurrentSlot
  <1>2. CASE c.phase = "Capture" /\ res \in {"desired", "other"}
    <2> DEFINE e == [c EXCEPT !.before = res, !.phase = "Baseline"]
    <2>1. /\ e \in TargetRec /\ SameClaims(e, c) /\ e.phase = "Baseline" /\ e.before = res
      BY <1>1, <1>2 DEF TargetRec, SameClaims, Phases, Settled
    <2>2. AfterJob(b, r, res) = Put(b, r, e)  BY <1>2 DEF AfterJob, Put
    <2> HIDE DEF e
    <2>3. Cur(Put(b, r, e), r).phase = "Baseline"  BY <2>1, PutIsLocal
    <2>4. Advance(Put(b, r, e), r) = Put(b, r, e)  BY <2>3 DEF Advance
    <2>5. Tally(z, c, a, u) => Tally(z, e, a, u)  BY <1>2, <2>1 DEF Tally
    <2> QED BY <2>1, <2>2, <2>4, <2>5 DEF Moved
  <1>3. CASE c.phase = "Apply" /\ res = "verified"
    <2>1. AfterJob(b, r, res) = Put(b, r, With("Verify"))
      BY <1>3, SetPhaseIsPut DEF AfterJob, Phases
    <2>2. /\ With("Verify") \in TargetRec /\ With("Verify").phase = "Verify"
          /\ With("Verify").before = c.before /\ SameClaims(With("Verify"), c)
      BY SetPhaseIsPut DEF Phases
    <2>3. Tally(z, c, a, u) => Tally(z, With("Verify"), a, u)  BY <1>3, <2>2 DEF Tally
    <2> HIDE DEF With
    <2>4. Cur(Put(b, r, With("Verify")), r).phase = "Verify"  BY <2>2, PutIsLocal
    <2>5. Advance(Put(b, r, With("Verify")), r) = Put(b, r, With("Verify"))  BY <2>4 DEF Advance
    <2> QED BY <2>1, <2>2, <2>3, <2>5 DEF Moved
  <1>4. CASE (c.phase = "Restore" /\ res = "verified") \/ (c.phase = "Apply" /\ res = "rolledback")
    <2>0. "Restored" \in Phases  BY DEF Phases, Settled
    <2>1. AfterJob(b, r, res) = Moved(b, r, With("Restored"))
      <3>1. AfterJob(b, r, res) = Advance(SetPhase(b, r, "Restored"), r)  BY <1>4 DEF AfterJob
      <3> QED BY <2>0, <3>1, SetPhaseIsPut DEF Moved
    <2>2. /\ With("Restored") \in TargetRec /\ With("Restored").phase = "Restored"
          /\ With("Restored").before = c.before /\ SameClaims(With("Restored"), c)
      BY <2>0, SetPhaseIsPut
    <2>3. Tally(z, c, a, u) => Tally(z, With("Restored"), a, u)  BY <1>4, <2>2 DEF Tally
    <2> QED BY <2>1, <2>2, <2>3
  <1>5. CASE ~ \/ c.phase = "Capture" /\ res \in {"desired", "other"}
               \/ c.phase = "Apply" /\ res = "verified"
               \/ (c.phase = "Restore" /\ res = "verified") \/ (c.phase = "Apply" /\ res = "rolledback")
    <2>1. AfterJob(b, r, res) = FailCurrent(b, r)  BY <1>5 DEF AfterJob
    <2>2. AfterJob(b, r, res) = Moved(b, r, With("Unknown"))  BY <2>1, FailMoves
    <2>3. /\ With("Unknown") \in TargetRec /\ With("Unknown").phase = "Unknown"
          /\ SameClaims(With("Unknown"), c)
      BY SetPhaseIsPut DEF Phases, Settled
    <2>4. Tally(z, c, a, u) => Tally(z, With("Unknown"), a, u)  BY <2>3 DEF Tally
    <2> QED BY <2>2, <2>3, <2>4
  <1> QED BY <1>2, <1>3, <1>4, <1>5

\* The answer of a check is a transition: a host that was changed and does not pass is
\* put back, one that was not changed has failed.
LEMMA AfterHealthMoves ==
  ASSUME NEW b \in Book, NEW r \in Runs, NEW passed \in BOOLEAN, NEW a, NEW u,
         Cur(b, r).phase \in {"Baseline", "Verify"},
         restart \in BOOLEAN
  PROVE  \E c \in TargetRec : /\ AfterHealth(b, r, passed) = Moved(b, r, c)
                              /\ SameClaims(c, Cur(b, r))
                              /\ c.phase \in {"Review", "Passed", "Failed", "Restore"}
                              /\ Tally(restart, Cur(b, r), a, u) =>
                                   Tally(restart, c, a, u) /\ (c.phase = "Restore" => u = 0)
  <1> DEFINE c == Cur(b, r)
             With(ph) == [c EXCEPT !.phase = ph]
  <1>1. c \in TargetRec  BY CurrentSlot
  <1>2. CASE c.phase = "Baseline"
    <2> DEFINE e == [c EXCEPT !.baseline = IF passed THEN "pass" ELSE "fail", !.phase = "Review"]
    <2>1. /\ e \in TargetRec /\ SameClaims(e, c) /\ e.phase = "Review" /\ e.before = c.before
      BY <1>1, <1>2 DEF TargetRec, SameClaims, Phases, Settled
    <2>2. AfterHealth(b, r, passed) = Put(b, r, e)  BY <1>2 DEF AfterHealth, Put
    <2> HIDE DEF e
    <2>3. Cur(Put(b, r, e), r).phase = "Review"  BY <2>1, PutIsLocal
    <2>4. Advance(Put(b, r, e), r) = Put(b, r, e)  BY <2>3 DEF Advance
    <2>5. Tally(restart, c, a, u) => Tally(restart, e, a, u)  BY <1>2, <2>1 DEF Tally
    <2> QED BY <2>1, <2>2, <2>4, <2>5 DEF Moved
  <1>3. CASE c.phase = "Verify"
    <2> DEFINE ph == IF passed THEN "Passed"
                     ELSE IF c.before = "desired" /\ ~restart THEN "Failed" ELSE "Restore"
    <2>1. ph \in Phases /\ ph \in {"Passed", "Failed", "Restore"}  BY DEF Phases, Settled
    <2>2. AfterHealth(b, r, passed) = Advance(SetPhase(b, r, ph), r)  BY <1>3 DEF AfterHealth
    <2>3. Tally(restart, c, a, u) =>
            u = 0 /\ a \in {0, 1} /\ (a = 1 <=> (restart \/ c.before # "desired"))
      BY <1>3 DEF Tally
    <2>4. Tally(restart, c, a, u) =>
            /\ ph = "Failed" => a = 0
            /\ ph = "Restore" => a = 1 /\ (restart \/ c.before # "desired")
      BY <2>3
    <2> HIDE DEF ph
    <2>5. /\ SetPhase(b, r, ph) = Put(b, r, With(ph)) /\ With(ph) \in TargetRec
          /\ With(ph).phase = ph /\ With(ph).before = c.before /\ SameClaims(With(ph), c)
      BY <2>1, SetPhaseIsPut
    <2>6. Tally(restart, c, a, u) => Tally(restart, With(ph), a, u)
      BY <2>1, <2>3, <2>4, <2>5 DEF Tally
    <2> QED BY <2>1, <2>2, <2>3, <2>5, <2>6 DEF Moved
  <1> QED BY <1>2, <1>3
-----------------------------------------------------------------------------
(* What the driver does.                                                   *)

Counts == [Runs \X Targets \X Mutation -> 0..2]

\* What a handler leaves behind: its hands fit the run, the file is a good one, and
\* unless the save failed both say the same and tell what was sent.
Result(r) ==
  /\ Fit(Now', r) /\ Filing(restart, disk', sent') /\ error' \in BOOLEAN
  /\ ~error' => True(restart, Now', r, sent') /\ book' = disk'

\* A handler ends by taking over what it has in hand, saved or not.
LEMMA Closing ==
  ASSUME NEW r, NEW k, Fit(k, r), Become(k), NEW d,
         \/ SaveOk(k.book) /\ True(restart, k, r, sent')
         \/ SaveFails(d) /\ Filing(restart, d, sent')
  PROVE  Result(r)
  <1>1. k \in Hands  BY DEF Fit
  <1>2. Now' = k  BY <1>1 DEF Now, Become, Hands
  <1>3. book' = k.book  BY DEF Become
  <1>4. CASE SaveOk(k.book) /\ True(restart, k, r, sent')
    BY <1>1, <1>2, <1>3, <1>4 DEF SaveOk, True, Result, Filing, Fit, Hands
  <1>5. CASE SaveFails(d) /\ Filing(restart, d, sent')
    BY <1>2, <1>5 DEF SaveFails, Result
  <1> QED BY <1>4, <1>5

\* Giving the run up, whatever it waits for.
LEMMA GivesUp ==
  ASSUME NEW m, NEW r \in Runs, Fit(m, r), Unfinished(m.book, r), m.job = NoJob,
         m.health = "idle", ~error => Told(restart, m.book, sent),
         NEW d, Filing(restart, d, sent), Fail(m, d, r), sent' = sent
  PROVE  Result(r) /\ (disk' = d \/ Onward(m.book, disk'))
  <1> DEFINE b == m.book
             c == [Cur(b, r) EXCEPT !.phase = "Unknown"]
             k == [m EXCEPT !.book = FailCurrent(b, r)]
  <1>1. m \in Hands /\ b \in Book /\ Order(b) /\ Consistent(b)  BY DEF Fit, Hands
  <1>2. FailCurrent(b, r) = Moved(b, r, c)  BY <1>1, FailMoves
  <1>3. "Unknown" \in Phases /\ "Unknown" \in Settled  BY DEF Phases, Settled
  <1>4. c \in TargetRec /\ c.phase = "Unknown" /\ Claimed(b, r, c)
    BY <1>1, <1>3, SetPhaseIsPut DEF Claimed
  <1>5. Moved(b, r, c) \in Book  BY <1>1, <1>4, MovedGood
  <1>6. Become(k) /\ Save(k.book, d) /\ k.book = Moved(b, r, c)
    <2>1. Become(k) /\ Save(FailCurrent(b, r), d)  BY DEF Fail
    <2>2. k.book = FailCurrent(b, r)  BY <1>1 DEF Hands
    <2> QED BY <1>2, <2>1, <2>2
  <1>7. k \in Hands /\ k.job = NoJob /\ k.health = "idle"
    BY <1>1, <1>2, <1>5 DEF Hands
  <1> HIDE DEF c, k
  <1>8. Fit(k, r) /\ Onward(b, k.book)  BY <1>4, <1>6, <1>7, StepFits
  <1>9. CASE SaveOk(k.book)
    <2>1. Told(restart, b, sent)  BY <1>9 DEF SaveOk
    <2>2. Tally(restart, c, sent[<<r, b.run[r].cur, "Apply">>], sent[<<r, b.run[r].cur, "Restore">>])
      <3>1. Tally(restart, Cur(b, r), sent[<<r, b.run[r].cur, "Apply">>], sent[<<r, b.run[r].cur, "Restore">>])
        BY <1>1, <2>1, CurrentSlot DEF Told
      <3> QED BY <1>4, <3>1 DEF Tally
    <2>3. True(restart, k, r, sent)  BY <1>4, <1>6, <1>7, <2>1, <2>2, StepTellsTrue
    <2>4. disk' = k.book  BY <1>9 DEF SaveOk
    <2>5. Result(r)  BY <1>6, <1>8, <1>9, <2>3, Closing
    <2> QED BY <1>8, <2>4, <2>5
  <1>10. CASE SaveFails(d)
    <2>1. Result(r)  BY <1>6, <1>8, <1>10, Closing
    <2> QED BY <1>10, <2>1 DEF SaveFails
  <1> QED BY <1>6, <1>9, <1>10 DEF Save

\* Nothing changes by writing down what is written.
LEMMA PutSame ==
  ASSUME NEW b \in Book, NEW r \in Runs
  PROVE  Put(b, r, Cur(b, r)) = b
  <1>1. b.tgt \in [Slots -> TargetRec] /\ <<r, b.run[r].cur>> \in Slots  BY CurrentSlot
  <1>2. [b.tgt EXCEPT ![<<r, b.run[r].cur>>] = Cur(b, r)] = b.tgt  BY <1>1 DEF Cur
  <1> QED BY <1>2 DEF Put, Book

\* The target as it is journalled when its step is sent.
Signed(m, r) ==
  IF NeedsReceipt(m.book, r)
  THEN [Cur(m.book, r) EXCEPT !.approval = m.receipt.approval, !.attempted = TRUE]
  ELSE Cur(m.book, r)

\* A target is signed only under the receipt it needs, and only where one may be.
LEMMA SignedClaims ==
  ASSUME NEW m, NEW r \in Runs, Fit(m, r), NeedsReceipt(m.book, r) => ReceiptMatches(m, r)
  PROVE  /\ Signed(m, r) \in TargetRec /\ Claimed(m.book, r, Signed(m, r))
         /\ Signed(m, r).phase = Cur(m.book, r).phase
         /\ Signed(m, r).before = Cur(m.book, r).before
         /\ Signed(m, r).baseline = Cur(m.book, r).baseline
         /\ AfterUse(m, r) \in Receipts
  <1> DEFINE c == Cur(m.book, r)
             e == Signed(m, r)
  <1>1. m \in Hands /\ m.book \in Book /\ m.receipt \in Receipts  BY DEF Fit, Hands
  <1>2. c \in TargetRec  BY <1>1, CurrentSlot
  <1>3. AfterUse(m, r) \in Receipts  BY <1>1 DEF AfterUse, Receipts
  <1>4. CASE ~NeedsReceipt(m.book, r)
    BY <1>2, <1>3, <1>4 DEF Signed, Claimed, SameClaims
  <1>5. CASE NeedsReceipt(m.book, r)
    <2>1. /\ m.receipt # NoReceipt /\ Production(m.book, r) /\ m.book.run[r].team
      BY <1>5 DEF ReceiptMatches, Bindable, NeedsReceipt
    <2>2. m.receipt.approval \in Approvals /\ m.receipt.approval # NoApproval
      BY <1>1, <2>1, RunAssumption DEF Receipts
    <2>3. e = [c EXCEPT !.approval = m.receipt.approval, !.attempted = TRUE]
      BY <1>5 DEF Signed
    <2>4. /\ e \in TargetRec /\ e.phase = c.phase /\ e.before = c.before /\ e.baseline = c.baseline
          /\ e.attempted = TRUE /\ e.approval = m.receipt.approval
      BY <1>2, <2>2, <2>3 DEF TargetRec
    <2>5. Claimed(m.book, r, e)  BY <2>1, <2>2, <2>4 DEF Claimed
    <2> QED BY <1>3, <2>4, <2>5
  <1> QED BY <1>4, <1>5

\* The step a run is in is sent: once, and as journalled.
Sent(b, r) ==
  \E op \in Mutation : LET s == <<r, b.run[r].cur, op>> IN
    /\ Cur(b, r).phase = op /\ sent[s] = 0 /\ sent' = [sent EXCEPT ![s] = 1]
    /\ ~error' /\ disk'.run = b.run
    /\ \A v \in Slots : /\ disk'.tgt[v].phase = b.tgt[v].phase
                        /\ disk'.tgt[v].before = b.tgt[v].before
                        /\ disk'.tgt[v].baseline = b.tgt[v].baseline

\* Dispatch journals the step, sends it once, and waits for it; or it gives the run up.
LEMMA DispatchStep ==
  ASSUME sent \in Counts, NEW m, NEW r \in Runs, Fit(m, r), True(restart, m, r, sent),
         Unfinished(m.book, r), m.job = NoJob, m.health = "idle", Cur(m.book, r).phase \in Ops,
         NeedsReceipt(m.book, r) => ReceiptMatches(m, r), Dispatch(m, m.book, r)
  PROVE  /\ Result(r) /\ Onward(m.book, disk') /\ sent' \in Counts
         /\ sent' = sent \/ Sent(m.book, r)
  <1> DEFINE b == m.book
             t == b.run[r].cur
             c == Cur(b, r)
             e == Signed(m, r)
             d == Put(b, r, e)
             A(n) == n[<<r, t, "Apply">>]
             U(n) == n[<<r, t, "Restore">>]
             Step == [run |-> r, tgt |-> t, op |-> c.phase, res |-> "none"]
             k1 == [m EXCEPT !.book = d, !.receipt = NoReceipt]
             k2 == [m EXCEPT !.book = d, !.receipt = AfterUse(m, r),
                             !.reviewed = @ /\ c.phase # "Apply", !.job = Step]
             k3 == [m EXCEPT !.book = d, !.receipt = AfterUse(m, r)]
  <1>1. m \in Hands /\ b \in Book /\ Order(b) /\ Consistent(b) /\ Told(restart, b, sent)
    BY DEF Fit, Hands, True
  <1>2. /\ e \in TargetRec /\ Claimed(b, r, e) /\ e.phase = c.phase /\ e.before = c.before
        /\ e.baseline = c.baseline /\ AfterUse(m, r) \in Receipts
    BY SignedClaims
  <1>3. c.phase \notin Settled /\ c.phase \notin {"Baseline", "Verify"}  BY DEF Ops, Settled
  <1>4. d \in Book /\ d.run = b.run /\ d.tgt = [b.tgt EXCEPT ![<<r, t>>] = e] /\ d = Moved(b, r, e)
    BY <1>1, <1>2, <1>3, PutIsLocal, MovedGood
  <1>5. t \in Targets /\ <<r, t>> \in Slots /\ c = b.tgt[<<r, t>>] /\ b.tgt \in [Slots -> TargetRec]
    BY <1>1, CurrentSlot
  <1>6. \A v \in Slots : /\ d.tgt[v].phase = b.tgt[v].phase /\ d.tgt[v].before = b.tgt[v].before
                         /\ d.tgt[v].baseline = b.tgt[v].baseline
    BY <1>2, <1>4, <1>5
  <1>7. d = IF NeedsReceipt(b, r)
            THEN [b EXCEPT !.tgt[<<r, t>>] =
                   [c EXCEPT !.approval = m.receipt.approval, !.attempted = TRUE]]
            ELSE b
    BY <1>1, PutSame DEF Put, Signed
  <1>8. \/ SaveFails(b) /\ Become(k1) /\ sent' = sent
        \/ /\ SaveOk(d) /\ Become(k2)
           /\ sent' = IF c.phase \in Mutation /\ sent[<<r, t, c.phase>>] < 2
                      THEN [sent EXCEPT ![<<r, t, c.phase>>] = @ + 1] ELSE sent
        \/ ~error /\ Fail(k3, d, r) /\ sent' = sent
    BY <1>7 DEF Dispatch
  <1>9. Tally(restart, c, A(sent), U(sent))  BY <1>1, <1>5 DEF Told
  <1>10. Tally(restart, e, A(sent), U(sent))  BY <1>2, <1>9 DEF Tally
  <1>11. c.phase = "Apply" => A(sent) = 0  BY DEF True, InHand
  <1>12. c.phase = "Restore" => U(sent) = 0  BY DEF True, InHand
  <1>13. NoReceipt \in Receipts  BY DEF Receipts
  <1>14. /\ k1 \in Hands /\ k1.book = d /\ k1.job = NoJob /\ k1.health = "idle"
         /\ k3 \in Hands /\ k3.book = d /\ k3.job = NoJob /\ k3.health = "idle"
    BY <1>1, <1>2, <1>4, <1>13 DEF Hands
  <1>15. Step \in Jobs /\ Step # NoJob  BY <1>5 DEF Jobs, NoJob, Ops
  <1>16. /\ k2 \in Hands /\ k2.book = d /\ k2.job = Step /\ k2.health = "idle"
    <2>1. (m.reviewed /\ c.phase # "Apply") \in BOOLEAN  OBVIOUS
    <2> HIDE DEF Step, d, c
    <2> QED BY <1>1, <1>2, <1>4, <1>15, <2>1 DEF Hands
  <1>17. Step.run = r /\ Step.tgt = t /\ Step.op = e.phase  BY <1>2
  <1> HIDE DEF d, e, k1, k2, k3, Step
  <1>18. CASE SaveFails(b) /\ Become(k1) /\ sent' = sent
    <2>1. Fit(k1, r)  BY <1>2, <1>4, <1>14, StepFits
    <2>2. Filing(restart, b, sent')  BY <1>1, <1>18 DEF Filing
    <2>3. Result(r)  BY <1>18, <2>1, <2>2, Closing
    <2>4. disk' = b  BY <1>18 DEF SaveFails
    <2> QED BY <1>18, <2>3, <2>4 DEF Onward
  <1>19. CASE /\ SaveOk(d) /\ Become(k2)
              /\ sent' = IF c.phase \in Mutation /\ sent[<<r, t, c.phase>>] < 2
                         THEN [sent EXCEPT ![<<r, t, c.phase>>] = @ + 1] ELSE sent
    <2>1. Fit(k2, r) /\ Onward(b, k2.book)
      BY <1>2, <1>3, <1>4, <1>16, <1>17, StepFits
    <2>2. disk' = d /\ ~error'  BY <1>19 DEF SaveOk
    <2>3. CASE c.phase = "Capture"
      <3>1. sent' = sent  BY <1>19, <2>3 DEF Mutation
      <3>2. True(restart, k2, r, sent')
        BY <1>1, <1>2, <1>4, <1>10, <1>16, <2>3, <3>1, StepTellsTrue
      <3>3. Result(r)  BY <1>16, <1>19, <2>1, <3>2, Closing
      <3> QED BY <1>16, <2>1, <2>2, <3>1, <3>3
    <2>4. ASSUME NEW op \in Mutation, c.phase = op
          PROVE  /\ Result(r) /\ Onward(b, disk') /\ sent' \in Counts /\ Sent(b, r)
      <3> DEFINE s == <<r, t, op>>
      <3>1. s \in Runs \X Targets \X Mutation  BY <1>5, <2>4
      <3>2. sent[s] = 0  BY <1>11, <1>12, <2>4 DEF Mutation
      <3>3. sent' = [sent EXCEPT ![s] = 1]  BY <1>19, <2>4, <3>1, <3>2 DEF Counts
      <3>4. sent' \in Counts  BY <3>1, <3>3 DEF Counts
      <3>5. \A q \in Runs, v \in Targets : <<q, v>> # <<r, t>> =>
              /\ sent'[<<q, v, "Apply">>] = sent[<<q, v, "Apply">>]
              /\ sent'[<<q, v, "Restore">>] = sent[<<q, v, "Restore">>]
        BY <3>1, <3>3 DEF Counts, Mutation
      <3>6. ASSUME op = "Apply" PROVE True(restart, k2, r, sent')
        <4>1. A(sent') = 1 /\ U(sent') = U(sent)
          BY <1>5, <3>1, <3>3, <3>6 DEF Counts, Mutation
        <4>2. Tally(restart, e, A(sent'), U(sent'))
          <5>1. U(sent) = 0  BY <1>9, <2>4, <3>6 DEF Tally
          <5> QED BY <1>2, <1>10, <2>4, <3>6, <4>1, <5>1 DEF Tally
        <4>3. True(restart, k2, r, sent')
          BY <1>1, <1>2, <1>4, <1>15, <1>16, <2>4, <3>5, <3>6, <4>1, <4>2, StepTellsTrue
        <4> QED BY <4>3
      <3>7. ASSUME op = "Restore" PROVE True(restart, k2, r, sent')
        <4>1. U(sent') = 1 /\ A(sent') = A(sent)
          BY <1>5, <3>1, <3>3, <3>7 DEF Counts, Mutation
        <4>2. Tally(restart, e, A(sent'), U(sent'))
          <5>1. A(sent) = 1  BY <1>9, <2>4, <3>7 DEF Tally
          <5> QED BY <1>2, <1>10, <2>4, <3>7, <4>1, <5>1 DEF Tally
        <4>3. True(restart, k2, r, sent')
          BY <1>1, <1>2, <1>4, <1>15, <1>16, <2>4, <3>5, <3>7, <4>1, <4>2, StepTellsTrue
        <4> QED BY <4>3
      <3>8. True(restart, k2, r, sent')  BY <2>4, <3>6, <3>7 DEF Mutation
      <3>9. Result(r)  BY <1>16, <1>19, <2>1, <3>8, Closing
      <3>10. Sent(b, r)  BY <1>4, <1>6, <2>2, <2>4, <3>2, <3>3 DEF Sent
      <3> QED BY <1>16, <2>1, <2>2, <3>4, <3>9, <3>10
    <2> QED BY <2>3, <2>4 DEF Ops, Mutation
  <1>20. CASE ~error /\ Fail(k3, d, r) /\ sent' = sent
    <2>1. Fit(k3, r) /\ Onward(b, d)  BY <1>2, <1>4, <1>14, StepFits
    <2>2. True(restart, k3, r, sent)
      BY <1>1, <1>2, <1>4, <1>10, <1>11, <1>12, <1>14, StepTellsTrue
    <2>3. Filing(restart, d, sent)  BY <1>14, <2>1, <2>2 DEF Filing, Fit, Hands, True
    <2>4. Unfinished(k3.book, r)  BY <1>4, <1>14 DEF Unfinished
    <2>5. Result(r) /\ (disk' = d \/ Onward(d, disk'))
      BY <1>14, <1>20, <2>1, <2>2, <2>3, <2>4, GivesUp DEF True
    <2>6. Onward(b, disk')  BY <2>1, <2>5 DEF Onward
    <2> QED BY <1>20, <2>5, <2>6
  <1> QED BY <1>8, <1>18, <1>19, <1>20

\* What must hold when a host is changed.
Due(b, r) ==
  Cur(b, r).phase = "Apply" =>
    /\ handoffOk /\ profileOk /\ Fresh(b, r) /\ RestartReady(b, r)
    /\ Production(b, r) => HasProof(b, r)

Sends(b, r) == Sent(b, r) /\ Unfinished(b, r) /\ Due(b, r)

\* The driver, started on a journal that is saved, leaves a good result, changes no
\* verdict, and sends what it sends on current evidence.
LEMMA DriveStep ==
  ASSUME sent \in Counts, error \in BOOLEAN, ~error, NEW m, NEW r \in Runs, Fit(m, r),
         True(restart, m, r, sent), m.book.run[r].kind # "none", Drive(m, m.book, r)
  PROVE  /\ Result(r) /\ Onward(m.book, disk') /\ sent' \in Counts
         /\ sent' = sent \/ Sends(m.book, r)
  <1> DEFINE b == m.book
             c == Cur(b, r)
  <1>1. /\ m \in Hands /\ b \in Book /\ Order(b) /\ Consistent(b) /\ Told(restart, b, sent)
        /\ Filing(restart, b, sent)
    BY DEF Fit, Hands, True, Filing
  <1>2. Onward(b, b)  BY DEF Onward
  <1>3. CASE DriveStops(m, r) /\ Become(m) /\ disk' = b /\ error' = error /\ sent' = sent
    <2>1. SaveOk(b)  BY <1>3 DEF SaveOk
    <2>2. Result(r)  BY <1>3, <2>1, Closing
    <2> QED BY <1>2, <1>3, <2>2
  <1>4. ASSUME ~DriveStops(m, r)
        PROVE  /\ m.job = NoJob /\ m.health = "idle" /\ Unfinished(b, r)
               /\ c.phase \in {"Capture", "Apply"} => handoffOk
    BY <1>4 DEF DriveStops, Unfinished
  <1>5. CASE ~DriveStops(m, r) /\ Fail(m, b, r) /\ sent' = sent
    <2>1. Result(r) /\ (disk' = b \/ Onward(b, disk'))  BY <1>1, <1>4, <1>5, GivesUp
    <2> QED BY <1>2, <1>5, <2>1
  <1>6. ASSUME ~DriveStops(m, r), NeedsReceipt(b, r), sent' = sent,
               Become([m EXCEPT !.book = SetPhase(b, r, "Review"), !.receipt = NoReceipt]),
               Save(SetPhase(b, r, "Review"), b)
        PROVE  Result(r) /\ Onward(b, disk')
    <2> DEFINE e == [c EXCEPT !.phase = "Review"]
               k == [m EXCEPT !.book = SetPhase(b, r, "Review"), !.receipt = NoReceipt]
    <2>1. "Review" \in Phases /\ "Review" \notin Settled  BY DEF Phases, Settled
    <2>2. /\ SetPhase(b, r, "Review") = Put(b, r, e) /\ e \in TargetRec /\ e.phase = "Review"
          /\ e.before = c.before /\ Claimed(b, r, e)
      BY <1>1, <2>1, SetPhaseIsPut DEF Claimed
    <2>0. Unfinished(b, r)  BY <1>4, <1>6
    <2> HIDE DEF e
    <2>3. Put(b, r, e) = Moved(b, r, e) /\ Put(b, r, e) \in Book
      <3>1. Moved(b, r, e) \in Book /\ (e.phase \notin Settled => Moved(b, r, e) = Put(b, r, e))
        BY <1>1, <2>0, <2>2, MovedGood
      <3> QED BY <2>1, <2>2, <3>1
    <2>4. c.phase = "Apply"  BY <1>6 DEF NeedsReceipt
    <2>5. Become(k) /\ Save(SetPhase(b, r, "Review"), b)  BY <1>6
    <2>6. NoReceipt \in Receipts  BY DEF Receipts
    <2>7. k \in Hands /\ k.book = Moved(b, r, e) /\ k.job = NoJob /\ k.health = "idle"
      BY <1>1, <1>4, <1>6, <2>2, <2>3, <2>6 DEF Hands
    <2>8. Save(k.book, b)  BY <2>2, <2>3, <2>5, <2>7
    <2> HIDE DEF k
    <2>9. Fit(k, r) /\ Onward(b, k.book)  BY <1>4, <1>6, <2>2, <2>7, StepFits
    <2>10. Tally(restart, e, sent[<<r, b.run[r].cur, "Apply">>], sent[<<r, b.run[r].cur, "Restore">>])
      <3>1. Tally(restart, c, sent[<<r, b.run[r].cur, "Apply">>], sent[<<r, b.run[r].cur, "Restore">>])
        BY <1>1, CurrentSlot DEF Told
      <3>2. sent[<<r, b.run[r].cur, "Apply">>] = 0
        BY <1>4, <1>6, <2>4 DEF True, InHand
      <3> QED BY <2>2, <3>1, <3>2 DEF Tally
    <2>11. True(restart, k, r, sent)
      BY <1>1, <1>4, <1>6, <2>2, <2>7, <2>10, StepTellsTrue
    <2>12. CASE SaveOk(k.book)
      <3>1. Result(r)  BY <1>6, <2>5, <2>9, <2>11, <2>12, Closing
      <3> QED BY <2>9, <2>12, <3>1 DEF SaveOk
    <2>13. CASE SaveFails(b)
      <3>1. Result(r)  BY <1>1, <1>6, <2>5, <2>9, <2>13, Closing
      <3> QED BY <1>2, <2>13, <3>1 DEF SaveFails
    <2> QED BY <2>8, <2>12, <2>13 DEF Save
  <1>7. ASSUME ~DriveStops(m, r), c.phase \in {"Baseline", "Verify"}, Probe(m, b), sent' = sent
        PROVE  Result(r) /\ Onward(b, disk')
    <2> DEFINE k == [m EXCEPT !.health = "running"]
    <2>1. /\ k \in Hands /\ k.book = b /\ k.job = NoJob /\ k.receipt = m.receipt
      BY <1>1, <1>4, <1>7 DEF Hands
    <2>2. CASE SaveOk(b) /\ Become(k)
      <3> HIDE DEF k
      <3>1. Fit(k, r)  BY <1>4, <1>7, <2>1 DEF Fit
      <3>2. True(restart, k, r, sent)  BY <1>4, <1>7, <2>1 DEF True, InHand
      <3>3. Result(r)  BY <1>7, <2>1, <2>2, <3>1, <3>2, Closing
      <3> QED BY <1>2, <2>2, <3>3 DEF SaveOk
    <2>3. CASE SaveFails(b) /\ Become(m)
      <3>1. Result(r)  BY <1>1, <1>7, <2>3, Closing
      <3> QED BY <1>2, <2>3, <3>1 DEF SaveFails
    <2> QED BY <1>7, <2>2, <2>3 DEF Probe
  <1>8. CASE /\ ~DriveStops(m, r) /\ ~DriveRefuses(b, r) /\ c.phase \in Ops
             /\ NeedsReceipt(b, r) => ReceiptMatches(m, r)
             /\ Dispatch(m, b, r)
    <2>1. /\ Result(r) /\ Onward(b, disk') /\ sent' \in Counts
          /\ sent' = sent \/ Sent(b, r)
      BY <1>4, <1>8, DispatchStep
    <2>2. Due(b, r)  BY <1>4, <1>8 DEF Due, DriveRefuses
    <2> QED BY <1>4, <1>8, <2>1, <2>2 DEF Sends
  <1> QED BY <1>3, <1>5, <1>6, <1>7, <1>8 DEF Drive

\* A handler that saves, and goes on only if that worked.
LEMMA SaveThenDriveStep ==
  ASSUME sent \in Counts, error \in BOOLEAN, Filed, NEW m, NEW r \in Runs, Fit(m, r),
         ~error => True(restart, m, r, sent), m.book.run[r].kind # "none", SaveThenDrive(m, r)
  PROVE  /\ Result(r) /\ sent' \in Counts
         /\ sent' = sent \/ Sends(m.book, r)
         /\ disk' = disk \/ (~error /\ Onward(m.book, disk'))
         /\ error => disk' = disk /\ sent' = sent
  <1>1. CASE ~error /\ Drive(m, m.book, r)
    BY <1>1, DriveStep
  <1>2. CASE SaveFails(disk) /\ Become(m) /\ sent' = sent
    <2>1. Filing(restart, disk, sent')  BY <1>2 DEF Filed
    <2>2. Result(r)  BY <1>2, <2>1, Closing
    <2>3. disk' = disk  BY <1>2 DEF SaveFails
    <2> QED BY <1>2, <2>2, <2>3
  <1> QED BY <1>1, <1>2 DEF SaveThenDrive
-----------------------------------------------------------------------------
(* What each action does.                                                  *)

\* A journal that was taken one transition on: the other runs and targets stay as they
\* were, and if the run is about to change a host, it is the host it was at before.
Near(b, d, r) ==
  LET s == <<r, b.run[r].cur>> IN
  /\ \A q \in Runs : d.run[q].kind = b.run[q].kind /\ (q # r => d.run[q] = b.run[q])
  /\ \A v \in Slots : v # s => d.tgt[v] = b.tgt[v]
  /\ Cur(d, r).phase \in Mutation => d.run = b.run /\ d.tgt[s].phase \notin Settled

\* What a step does to the file, and what it sends: verdicts stay; with a latched error
\* there is nothing to see; and a host is changed or put back by the one open run.
Follows(b, r) ==
  /\ Unfinished(book, r) /\ book = disk /\ Near(book, b, r) /\ b \in Book
  /\ Order(b) /\ Told(restart, b, sent)

Effect ==
  /\ Onward(disk, disk') /\ restart' = restart
  /\ error => disk' = disk /\ sent' = sent
  /\ sent' = sent \/ \E r \in Runs, b \in Book : Sends(b, r) /\ Follows(b, r)

\* A transition of the current target leaves the rest of the journal alone.
LEMMA MovedNear ==
  ASSUME NEW b \in Book, Order(b), Consistent(b), NEW r \in Runs, Unfinished(b, r),
         NEW c \in TargetRec, Claimed(b, r, c)
  PROVE  Near(b, Moved(b, r, c), r)
  <1> DEFINE d == Moved(b, r, c)
             s == <<r, b.run[r].cur>>
  <1>1. /\ d \in Book /\ d.tgt = [b.tgt EXCEPT ![s] = c]
        /\ \A q \in Runs : d.run[q].kind = b.run[q].kind
        /\ c.phase \notin Settled => d = Put(b, r, c)
        /\ c.phase \in Settled /\ Unfinished(d, r) => Cur(d, r).phase = "Capture"
        /\ Order(d)
    BY MovedGood
  <1>2. /\ Put(b, r, c) \in Book /\ Put(b, r, c).run = b.run /\ Cur(Put(b, r, c), r) = c
    BY PutIsLocal
  <1>3. \A q \in Runs : q # r => d.run[q] = b.run[q]
    <2>1. \A q \in Runs : q # r => Advance(Put(b, r, c), r).run[q] = Put(b, r, c).run[q]
      BY <1>2, AdvanceSteps
    <2> QED BY <1>2, <2>1 DEF Moved
  <1>4. b.tgt \in [Slots -> TargetRec] /\ s \in Slots  BY CurrentSlot
  <1> HIDE DEF d
  <1>5. \A v \in Slots : v # s => d.tgt[v] = b.tgt[v]  BY <1>1, <1>4
  <1>6. d.tgt[s] = c  BY <1>1, <1>4
  <1>7. ASSUME Cur(d, r).phase \in Mutation
        PROVE  d.run = b.run /\ d.tgt[s].phase \notin Settled
    <2>1. Mutation \cap Settled = {} /\ "Capture" \notin Mutation  BY DEF Mutation, Settled
    <2>2. d.run[r].fin \/ Unfinished(d, r)
      <3>1. d.run[r].kind # "none"  BY <1>1 DEF Unfinished
      <3> QED BY <3>1 DEF Unfinished
    <2>3. ~d.run[r].fin  BY <1>1, <1>7, <2>1 DEF Order, Path
    <2>4. c.phase \notin Settled  BY <1>1, <1>7, <2>1, <2>2, <2>3
    <2> QED BY <1>1, <1>2, <1>6, <2>4
  <1> QED BY <1>1, <1>3, <1>5, <1>7 DEF Near, d

\* Interrupting a journal, field by field: every run is over, every target decided.
LEMMA InterruptRuns ==
  ASSUME NEW b \in Book
  PROVE  /\ Interrupt(b).team = b.team
         /\ Interrupt(b).run = [r \in Runs |-> [b.run[r] EXCEPT !.fin = b.run[r].kind # "none"]]
         /\ Interrupt(b).tgt = [s \in Slots |->
               IF Unfinished(b, s[1]) /\ b.tgt[s].phase \notin {"Passed", "Restored", "Failed"}
               THEN [b.tgt[s] EXCEPT !.phase = "Unknown"] ELSE b.tgt[s]]
         /\ \A r \in Runs :
              /\ Interrupt(b).run[r].fin = (b.run[r].kind # "none")
              /\ Interrupt(b).run[r].kind = b.run[r].kind
              /\ Interrupt(b).run[r].team = b.run[r].team
              /\ Interrupt(b).run[r].cur = b.run[r].cur
              /\ ~Unfinished(Interrupt(b), r)
         /\ Interrupt(b) \in Book
  <1> DEFINE R == [r \in Runs |-> [b.run[r] EXCEPT !.fin = b.run[r].kind # "none"]]
             T == [s \in Slots |->
               IF Unfinished(b, s[1]) /\ b.tgt[s].phase \notin {"Passed", "Restored", "Failed"}
               THEN [b.tgt[s] EXCEPT !.phase = "Unknown"] ELSE b.tgt[s]]
             d == Interrupt(b)
  <1>1. d.team = b.team /\ d.run = R /\ d.tgt = T /\ d = [team |-> b.team, run |-> R, tgt |-> T]
    <2>1. d = [b EXCEPT !.run = R, !.tgt = T]  BY DEF Interrupt
    <2> HIDE DEF R, T, d
    <2> QED BY <2>1 DEF Book
  <1>2. \A r \in Runs : b.run[r] \in RunRecs  BY DEF Book, RunRecs
  <1>3. \A r \in Runs : /\ R[r].fin = (b.run[r].kind # "none") /\ R[r].kind = b.run[r].kind
                        /\ R[r].team = b.run[r].team /\ R[r].cur = b.run[r].cur
                        /\ R[r] \in RunRecs
    BY <1>2 DEF RunRecs
  <1>4. T \in [Slots -> TargetRec]
    <2>1. ASSUME NEW s \in Slots PROVE T[s] \in TargetRec
      <3>1. b.tgt[s] \in TargetRec /\ "Unknown" \in Phases  BY DEF Book, Phases, Settled
      <3>2. [b.tgt[s] EXCEPT !.phase = "Unknown"] \in TargetRec  BY <3>1 DEF TargetRec
      <3> QED BY <3>1, <3>2
    <2> QED BY <2>1
  <1>5. R \in [Runs -> RunRecs]  BY <1>3
  <1> HIDE DEF R, T, d
  <1>6. d \in Book  BY <1>1, <1>4, <1>5 DEF Book, RunRecs
  <1>7. \A r \in Runs : ~Unfinished(d, r)  BY <1>1, <1>3 DEF Unfinished
  <1>8. \A r \in Runs : /\ d.run[r].fin = (b.run[r].kind # "none")
                        /\ d.run[r].kind = b.run[r].kind /\ d.run[r].team = b.run[r].team
                        /\ d.run[r].cur = b.run[r].cur
    BY <1>1, <1>3
  <1>9. d.team = b.team /\ d.run = R /\ d.tgt = T  BY <1>1
  <1> USE DEF d
  <1>10. Interrupt(b).run = R /\ Interrupt(b).tgt = T  BY <1>9
  <1> HIDE DEF d
  <1> QED BY <1>6, <1>7, <1>8, <1>9, <1>10, Zenon DEF R, T, d

\* While a run is open and no save has failed, the file is what is in memory.
LEMMA OpenIsSaved ==
  ASSUME RunInv, ~error, NEW q \in Runs, Unfinished(book, q)
  PROVE  book = disk
  <1>1. disk \in Book /\ (book = disk \/ book = Interrupt(disk))
    BY DEF RunInv, Filed, Filing, Synced
  <1>2. ~Unfinished(Interrupt(disk), q)  BY <1>1, InterruptRuns
  <1> QED BY <1>1, <1>2

\* A good result is a good state.
LEMMA ResultKeeps ==
  ASSUME RunInv, NEW r \in Runs, selected' = r, sent' \in Counts, ghosts' \in Nat,
         UNCHANGED <<gen, envVars>>, Result(r)
  PROVE  RunInv'
  <1>1. Outer'  BY DEF RunInv, Outer, Result, Counts, envVars
  <1>2. Filed'  BY DEF Result, Filed, envVars
  <1>3. Fit(Now, selected)'  BY DEF Result
  <1>4. Synced'  BY DEF Result, Synced, envVars
  <1> QED BY <1>1, <1>2, <1>3, <1>4 DEF RunInv

\* A handler that takes the open run one transition on, saves, and drives.
LEMMA HandlerStep ==
  ASSUME RunInv, NEW r, r = selected, r \in Runs, Unfinished(book, r),
         UNCHANGED <<selected, ghosts, gen, envVars>>,
         NEW c \in TargetRec, Claimed(book, r, c), NEW m \in Hands, m.book = Moved(book, r, c),
         m.job = NoJob, m.health = "idle",
         ~error => LET a == sent[<<r, book.run[r].cur, "Apply">>]
                       u == sent[<<r, book.run[r].cur, "Restore">>] IN
                   /\ Tally(restart, c, a, u)
                   /\ c.phase = "Apply" => a = 0
                   /\ c.phase = "Restore" => u = 0,
         SaveThenDrive(m, r)
  PROVE  RunInv' /\ Effect
  <1>1. /\ Now.book = book /\ Fit(Now, r) /\ book \in Book /\ Order(book) /\ Consistent(book)
        /\ Filed /\ sent \in Counts /\ error \in BOOLEAN
    BY DEF RunInv, Now, Fit, Hands, Outer, Counts
  <1>2. Fit(m, r) /\ Onward(book, m.book)  BY <1>1, StepFits
  <1>3. ~error => Told(restart, book, sent)  BY <1>1 DEF RunInv, Synced, True
  <1>4. ASSUME ~error PROVE True(restart, m, r, sent)
    BY <1>1, <1>3, <1>4, StepTellsTrue
  <1>5. m.book \in Book /\ Near(book, m.book, r)
    <2>1. Moved(book, r, c) \in Book  BY <1>1, MovedGood
    <2>2. Near(book, Moved(book, r, c), r)  BY <1>1, MovedNear
    <2> QED BY <2>1, <2>2
  <1>6. m.book.run[r].kind # "none"  BY <1>5 DEF Near, Unfinished
  <1>7. /\ Result(r) /\ sent' \in Counts
        /\ sent' = sent \/ Sends(m.book, r)
        /\ disk' = disk \/ (~error /\ Onward(m.book, disk'))
        /\ error => disk' = disk /\ sent' = sent
    BY <1>1, <1>2, <1>4, <1>6, SaveThenDriveStep
  <1>8. RunInv'
    <2>1. ghosts' \in Nat  BY DEF RunInv, Outer
    <2> QED BY <1>7, <2>1, ResultKeeps
  <1>9. ~error => book = disk  BY OpenIsSaved
  <1>10. Onward(disk, disk')  BY <1>2, <1>7, <1>9 DEF Onward
  <1>11. ASSUME sent' # sent PROVE Sends(m.book, r) /\ Follows(m.book, r)
    <2>1. ~error  BY <1>7, <1>11
    <2>2. Order(m.book)  BY <1>2 DEF Fit
    <2> QED BY <1>4, <1>5, <1>7, <1>9, <1>11, <2>1, <2>2 DEF Follows, True
  <1>12. restart' = restart  BY DEF envVars
  <1> QED BY <1>5, <1>7, <1>8, <1>10, <1>11, <1>12 DEF Effect

\* An interrupted journal is in order, readable, and says nothing wrong of any host.
LEMMA InterruptGood ==
  ASSUME NEW b \in Book, Order(b), Consistent(b)
  PROVE  /\ Order(Interrupt(b)) /\ Consistent(Interrupt(b)) /\ Onward(b, Interrupt(b))
         /\ \A z, n : Told(z, b, n) => Told(z, Interrupt(b), n)
  <1> DEFINE d == Interrupt(b)
  <1>1. /\ d.team = b.team /\ d \in Book
        /\ \A r \in Runs : /\ d.run[r].fin = (b.run[r].kind # "none")
                           /\ d.run[r].kind = b.run[r].kind /\ d.run[r].team = b.run[r].team
                           /\ d.run[r].cur = b.run[r].cur /\ ~Unfinished(d, r)
    BY InterruptRuns
  <1>2. ASSUME NEW s \in Slots
        PROVE  /\ SameClaims(d.tgt[s], b.tgt[s]) /\ d.tgt[s].before = b.tgt[s].before
               /\ d.tgt[s].phase = (IF Unfinished(b, s[1])
                                       /\ b.tgt[s].phase \notin {"Passed", "Restored", "Failed"}
                                    THEN "Unknown" ELSE b.tgt[s].phase)
    <2>1. b.tgt[s] \in TargetRec  BY DEF Book
    <2>2. d.tgt[s] = IF Unfinished(b, s[1]) /\ b.tgt[s].phase \notin {"Passed", "Restored", "Failed"}
                     THEN [b.tgt[s] EXCEPT !.phase = "Unknown"] ELSE b.tgt[s]
      <3>1. d.tgt = [v \in Slots |->
               IF Unfinished(b, v[1]) /\ b.tgt[v].phase \notin {"Passed", "Restored", "Failed"}
               THEN [b.tgt[v] EXCEPT !.phase = "Unknown"] ELSE b.tgt[v]]
        BY InterruptRuns
      <3> QED BY <3>1
    <2> HIDE DEF d
    <2> QED BY <2>1, <2>2 DEF TargetRec, SameClaims
  <1> HIDE DEF d
  <1>3. \A r \in Runs, t \in Targets : <<r, t>> \in Slots /\ <<r, t>>[1] = r  BY DEF Slots
  <1>4. Filled(d)  BY <1>1 DEF Order, Filled
  <1>5. ASSUME NEW r \in Runs PROVE Path(d, r) /\ Pending(d, r)
    <2>1. Path(b, r)  BY DEF Order
    <2>2. b.run[r].cur \in Targets  BY CurrentSlot
    <2>3. \A t \in Targets :
            /\ t < d.run[r].cur => d.tgt[<<r, t>>].phase = "Passed"
            /\ t > d.run[r].cur => d.tgt[<<r, t>>].phase \in {"Capture", "Unknown"}
            /\ d.run[r].kind = "none" => d.tgt[<<r, t>>].phase = "Capture"
      BY <1>1, <1>2, <1>3, <2>1 DEF Path, Unfinished
    <2>4. d.run[r].fin => d.run[r].kind # "none" /\ Cur(d, r).phase \in Settled
      <3>1. CASE Unfinished(b, r)
        BY <1>1, <1>2, <1>3, <2>2, <3>1 DEF Unfinished, Cur, Settled
      <3>2. CASE ~Unfinished(b, r)
        <4>1. <<r, b.run[r].cur>> \in Slots /\ <<r, b.run[r].cur>>[1] = r  BY <1>3, <2>2
        <4>2. Cur(d, r).phase = Cur(b, r).phase  BY <1>1, <1>2, <3>2, <4>1 DEF Cur
        <4>3. d.run[r].fin => b.run[r].fin  BY <1>1, <3>2 DEF Unfinished
        <4> QED BY <1>1, <2>1, <4>2, <4>3 DEF Path
      <3> QED BY <3>1, <3>2
    <2> QED BY <1>1, <2>3, <2>4 DEF Path, Pending
  <1>6. Consistent(d)
    <2>1. \A r \in Runs : d.run[r].team => d.team  BY <1>1 DEF Consistent
    <2>2. ASSUME NEW s \in Slots
          PROVE  \/ ~d.tgt[s].attempted /\ d.tgt[s].approval = NoApproval /\ d.tgt[s].event = NoEvent
                 \/ /\ Production(d, s[1]) /\ d.run[s[1]].team
                    /\ d.tgt[s].attempted /\ d.tgt[s].approval # NoApproval
      <3>1. s[1] \in Runs  BY DEF Slots
      <3>2. SameClaims(d.tgt[s], b.tgt[s])  BY <1>2
      <3>3. d.run[s[1]].kind = b.run[s[1]].kind /\ d.run[s[1]].team = b.run[s[1]].team
        BY <1>1, <3>1
      <3> QED BY <3>2, <3>3 DEF SameClaims, Consistent, Production
    <2> QED BY <2>1, <2>2 DEF Consistent
  <1>7. Onward(b, d)  BY <1>2 DEF Onward, Settled
  <1>8. ASSUME NEW z, NEW n, Told(z, b, n) PROVE Told(z, d, n)
    <2> SUFFICES ASSUME NEW r \in Runs, NEW t \in Targets
                 PROVE  Tally(z, d.tgt[<<r, t>>], n[<<r, t, "Apply">>], n[<<r, t, "Restore">>])
      BY DEF Told
    <2>1. Tally(z, b.tgt[<<r, t>>], n[<<r, t, "Apply">>], n[<<r, t, "Restore">>])
      BY <1>8 DEF Told
    <2>2. /\ d.tgt[<<r, t>>].before = b.tgt[<<r, t>>].before
          /\ d.tgt[<<r, t>>].phase \in {"Unknown", b.tgt[<<r, t>>].phase}
      BY <1>2, <1>3
    <2> QED BY <2>1, <2>2 DEF Tally
  <1>9. Order(d)  BY <1>4, <1>5 DEF Order
  <1> QED BY <1>6, <1>7, <1>8, <1>9 DEF d

\* An empty journal is in order, and nothing is known of any host.
LEMMA EmptyGood ==
  ASSUME NEW team \in BOOLEAN, NEW b,
         b = [team |-> team, run |-> [r \in Runs |-> NoRunYet], tgt |-> [s \in Slots |-> NewTarget]]
  PROVE  /\ b \in Book /\ Order(b) /\ Consistent(b) /\ \A r \in Runs : ~Unfinished(b, r)
         /\ \A s \in Slots : b.tgt[s].phase = "Capture"
         /\ \A r \in Runs : b.run[r].kind = "none"
  <1>1. 1 \in Targets /\ MaxRuns \in Nat /\ 0 \in 0..MaxBoots  BY RunAssumption DEF Targets
  <1>2. /\ NewTarget \in TargetRec /\ NewTarget.phase = "Capture" /\ ~NewTarget.attempted
        /\ NewTarget.approval = NoApproval /\ NewTarget.event = NoEvent
    BY <1>1 DEF NewTarget, TargetRec, NoEvent, Phases
  <1>3. /\ NoRunYet \in RunRecs /\ NoRunYet.kind = "none" /\ ~NoRunYet.fin /\ ~NoRunYet.team
        /\ NoRunYet.cur = 1
    BY <1>1 DEF NoRunYet, RunRecs
  <1> HIDE DEF NewTarget, NoRunYet
  <1>4. /\ b.team = team /\ b.run = [r \in Runs |-> NoRunYet]
        /\ b.tgt = [s \in Slots |-> NewTarget]
    OBVIOUS
  <1>5. b \in Book  BY <1>2, <1>3, <1>4 DEF Book, RunRecs
  <1>6. \A r \in Runs : b.run[r] = NoRunYet  BY <1>4
  <1>7. \A s \in Slots : b.tgt[s] = NewTarget  BY <1>4
  <1>8. \A r \in Runs, t \in Targets : <<r, t>> \in Slots  BY DEF Slots
  <1>9. Filled(b)
    <2>1. 0 \in 0..MaxRuns /\ \A r \in Runs : ~(r <= 0)  BY <1>1 DEF Runs
    <2> QED BY <1>3, <1>6, <2>1 DEF Filled
  <1>10. \A r \in Runs : Path(b, r) /\ Pending(b, r)
    <2> TAKE r \in Runs
    <2>1. \A t \in Targets : b.tgt[<<r, t>>].phase = "Capture"  BY <1>2, <1>7, <1>8
    <2>2. \A t \in Targets : ~(t < 1)  BY DEF Targets
    <2> QED BY <1>3, <1>6, <2>1, <2>2 DEF Path, Pending, Unfinished
  <1>11. Consistent(b)  BY <1>2, <1>3, <1>6, <1>7 DEF Consistent
  <1> QED BY <1>2, <1>3, <1>5, <1>6, <1>7, <1>9, <1>10, <1>11 DEF Order, Unfinished

\* The newest run is one of the runs, if there is one.
LEMMA NewestRun ==
  ASSUME NEW b, Filled(b)
  PROVE  Newest(b) \in Runs \cup {NoRun}
  <1>1. PICK n \in 0..MaxRuns : \A r \in Runs : b.run[r].kind # "none" <=> r <= n
    BY DEF Filled
  <1>2. CASE n = 0
    <2>1. \A r \in Runs : ~(r <= 0)  BY RunAssumption DEF Runs
    <2> QED BY <1>1, <1>2, <2>1 DEF Newest
  <1>3. CASE n # 0
    <2>1. n \in Runs /\ n <= n  BY <1>3, RunAssumption DEF Runs
    <2>2. b.run[n].kind # "none" /\ \A q \in Runs : b.run[q].kind # "none" => q <= n
      BY <1>1, <2>1
    <2>3. Newest(b) = CHOOSE r \in Runs : b.run[r].kind # "none"
                                        /\ \A q \in Runs : b.run[q].kind # "none" => q <= r
      BY <2>1, <2>2 DEF Newest
    <2> QED BY <2>1, <2>2, <2>3
  <1> QED BY <1>2, <1>3

\* Where every history starts.
LEMMA InitGood == Init => RunInv
  <1> SUFFICES ASSUME Init PROVE RunInv
    OBVIOUS
  <1>1. /\ TeamBook \in BOOLEAN
        /\ book = [team |-> TeamBook, run |-> [r \in Runs |-> NoRunYet],
                   tgt |-> [s \in Slots |-> NewTarget]]
    BY RunAssumption DEF Init, Empty
  <1>2. /\ book \in Book /\ Order(book) /\ Consistent(book) /\ \A r \in Runs : ~Unfinished(book, r)
        /\ \A s \in Slots : book.tgt[s].phase = "Capture"
    BY <1>1, EmptyGood
  <1>3. sent \in Counts /\ \A x \in Runs \X Targets \X Mutation : sent[x] = 0
    BY DEF Init, Counts
  <1>4. \A r \in Runs, t \in Targets :
          /\ <<r, t>> \in Slots /\ <<r, t, "Apply">> \in Runs \X Targets \X Mutation
          /\ <<r, t, "Restore">> \in Runs \X Targets \X Mutation
    BY DEF Slots, Mutation
  <1>5. Told(restart, book, sent)
    <2>1. ASSUME NEW r \in Runs, NEW t \in Targets
          PROVE  Tally(restart, book.tgt[<<r, t>>], sent[<<r, t, "Apply">>], sent[<<r, t, "Restore">>])
      <3>1. /\ book.tgt[<<r, t>>].phase = "Capture" /\ sent[<<r, t, "Apply">>] = 0
            /\ sent[<<r, t, "Restore">>] = 0
        BY <1>2, <1>3, <1>4
      <3> QED BY <3>1 DEF Tally
    <2> QED BY <2>1 DEF Told
  <1>6. Outer
    <2>1. restart \in BOOLEAN /\ 1 \in 1..MaxBoots  BY RunAssumption DEF Init
    <2> QED BY <1>3, <2>1 DEF Init, Outer, Counts
  <1>7. Filed  BY <1>2, <1>5 DEF Init, Filed, Filing
  <1>8. Fit(Now, selected)
    <2>1. Now \in Hands /\ Now.book = book /\ Now.job = NoJob /\ Now.health = "idle"
      BY <1>2 DEF Init, Now, Hands, Receipts, Jobs
    <2> QED BY <1>2, <2>1 DEF Fit
  <1>9. Synced
    <2>1. Now.book = book  BY DEF Now
    <2>2. InHand(Now, selected, sent)  BY <1>2, <2>1 DEF InHand
    <2> QED BY <1>5, <2>1, <2>2 DEF Init, Synced, True
  <1> QED BY <1>6, <1>7, <1>8, <1>9 DEF RunInv

\* What the operator, the threads and the world do beside the journal.
LEMMA QuietStep ==
  ASSUME RunInv, UNCHANGED <<journalVars, restart, sent>>, Outer',
         Fit(Now', selected'), ~error => InHand(Now', selected', sent)
  PROVE  RunInv' /\ Effect
  <1>1. Filed'  BY DEF RunInv, Filed, journalVars
  <1>2. ~error => Told(restart, book, sent) /\ (book = disk \/ book = Interrupt(disk))
    BY DEF RunInv, Synced, True, Now
  <1>3. Synced'
    <2>1. Now'.book = book  BY DEF Now, journalVars
    <2>2. ~error => True(restart, Now', selected', sent)  BY <1>2, <2>1 DEF True
    <2> QED BY <1>2, <2>2 DEF Synced, journalVars
  <1>4. Effect  BY DEF Effect, Onward, journalVars
  <1> QED BY <1>1, <1>3, <1>4 DEF RunInv

\* What is known in a state, in one place.
LEMMA Known ==
  ASSUME RunInv
  PROVE  /\ book \in Book /\ Order(book) /\ Consistent(book) /\ disk \in Book /\ Order(disk)
         /\ Consistent(disk) /\ Told(restart, disk, sent) /\ sent \in Counts
         /\ error \in BOOLEAN /\ restart \in BOOLEAN /\ selected \in Runs \cup {NoRun}
         /\ reviewed \in BOOLEAN /\ receipt \in Receipts /\ job \in Jobs
         /\ health \in {"idle", "running", "pass", "fail"}
         /\ Now \in Hands /\ Now.book = book /\ Now.job = job /\ Now.health = health
         /\ \A q \in Runs : Unfinished(book, q) => q = selected
         /\ job # NoJob => /\ SelectedOpen /\ selected \in Runs /\ health = "idle"
                           /\ job.run = selected /\ job.tgt = book.run[selected].cur
                           /\ job.op = Cur(book, selected).phase
         /\ health # "idle" => /\ SelectedOpen /\ selected \in Runs
                               /\ Cur(book, selected).phase \in {"Baseline", "Verify"}
         /\ SelectedOpen => selected \in Runs /\ Unfinished(book, selected)
         /\ ~error => Told(restart, book, sent) /\ (book = disk \/ book = Interrupt(disk))
  <1>1. Now.book = book /\ Now.job = job /\ Now.health = health /\ Now.receipt = receipt
        /\ Now.reviewed = reviewed
    BY DEF Now
  <1>2. Now \in Hands  BY DEF RunInv, Fit
  <1>3. NoRun \notin Runs  BY DEF NoRun, Runs
  <1>4. /\ book \in Book /\ reviewed \in BOOLEAN /\ receipt \in Receipts /\ job \in Jobs
        /\ health \in {"idle", "running", "pass", "fail"}
    BY <1>1, <1>2 DEF Hands
  <1>5. selected \in Runs \cup {NoRun} /\ sent \in Counts /\ error \in BOOLEAN /\ restart \in BOOLEAN
    BY DEF RunInv, Outer, Counts
  <1>6. SelectedOpen <=> selected \in Runs /\ Unfinished(book, selected)
    BY <1>3, <1>5 DEF SelectedOpen
  <1>7. /\ disk \in Book /\ Order(disk) /\ Consistent(disk) /\ Told(restart, disk, sent)
    BY DEF RunInv, Filed, Filing
  <1>8. ~error => Told(restart, book, sent) /\ (book = disk \/ book = Interrupt(disk))
    BY <1>1 DEF RunInv, Synced, True
  <1> QED BY <1>1, <1>2, <1>4, <1>5, <1>6, <1>7, <1>8 DEF RunInv, Fit

\* An answer comes back: from the queue, from the cancelled jobs, from a check.
LEMMA JobEndsStep ==
  ASSUME RunInv, JobEnds PROVE RunInv' /\ Effect
  <1> USE Known
  <1>1. PICK res \in Answers(job.op) : job' = [job EXCEPT !.res = res]  BY DEF JobEnds
  <1>2. job \in Jobs /\ job # NoJob /\ job.op \in Ops  BY DEF JobEnds, Jobs
  <1>3. res \in Results  BY <1>1, <1>2 DEF Answers, Ops, Results
  <1>4. /\ job' \in Jobs /\ job'.run = job.run /\ job'.tgt = job.tgt /\ job'.op = job.op
    BY <1>1, <1>2, <1>3 DEF Jobs, Results
  <1>5. job' # NoJob  BY <1>2, <1>4 DEF NoJob, Ops
  <1>6. UNCHANGED <<journalVars, selected, reviewed, receipt, health, restart, sent>>
    BY DEF JobEnds, uiVars, envVars
  <1>7. /\ Now' \in Hands /\ Now'.book = book /\ Now'.job = job' /\ Now'.health = health
    BY <1>4, <1>6 DEF Now, Hands, journalVars
  <1>8. Fit(Now', selected')  BY <1>2, <1>4, <1>6, <1>7 DEF Fit
  <1>9. ~error => InHand(Now', selected', sent)
    BY <1>2, <1>5, <1>6, <1>7 DEF InHand, RunInv, Synced, True
  <1>10. Outer'  BY DEF JobEnds, RunInv, Outer, journalVars, uiVars, envVars
  <1> QED BY <1>6, <1>8, <1>9, <1>10, QuietStep

\* A cancelled job ends and nobody takes its answer.
LEMMA GhostEndsStep ==
  ASSUME RunInv, GhostEnds PROVE RunInv' /\ Effect
  <1>1. Outer'  BY DEF GhostEnds, RunInv, Outer, journalVars, uiVars, envVars
  <1>2. Now' = Now /\ selected' = selected /\ restart' = restart
    BY DEF GhostEnds, Now, journalVars, uiVars, envVars
  <1>3. ~error => InHand(Now, selected, sent)  BY DEF RunInv, Synced, True
  <1>4. UNCHANGED <<journalVars, restart, sent>>  BY <1>2 DEF GhostEnds
  <1> QED BY <1>1, <1>2, <1>3, <1>4, QuietStep DEF RunInv

\* A health check ends, one way or the other.
LEMMA HealthEndsStep ==
  ASSUME RunInv, HealthEnds PROVE RunInv' /\ Effect
  <1> USE Known
  <1>1. UNCHANGED <<journalVars, selected, reviewed, receipt, job, restart, sent>>
    BY DEF HealthEnds, uiVars, envVars
  <1>2. health' \in {"pass", "fail"} /\ health # "idle"  BY DEF HealthEnds
  <1>3. /\ Now' \in Hands /\ Now'.book = book /\ Now'.job = job /\ Now'.health = health'
    BY <1>1, <1>2 DEF Now, Hands, journalVars
  <1>4. Fit(Now', selected')  BY <1>1, <1>2, <1>3 DEF Fit, SelectedOpen
  <1>5. ~error => InHand(Now', selected', sent)
    BY <1>1, <1>3 DEF InHand, RunInv, Synced, True
  <1>6. Outer'  BY DEF HealthEnds, RunInv, Outer, journalVars, uiVars, envVars
  <1> QED BY <1>1, <1>4, <1>5, <1>6, QuietStep

\* The world around: the clock, the proofs, the profile, the handoff.
LEMMA WorldStep ==
  ASSUME RunInv, Age \/ (\E r \in Runs : Void(r)) \/ EditProfile \/ ChangeHandoff
  PROVE  RunInv' /\ Effect
  <1>1. UNCHANGED <<journalVars, uiVars, workVars, restart, boots>>
    BY DEF Age, Void, EditProfile, ChangeHandoff
  <1>2. aged' \subseteq Slots /\ void' \subseteq Runs /\ profileOk' \in BOOLEAN /\ handoffOk' \in BOOLEAN
    <2> USE DEF RunInv, Outer
    <2>1. CASE Age
      <3>1. <<selected, book.run[selected].cur>> \in Slots  BY <2>1, Known, CurrentSlot DEF Age
      <3> QED BY <2>1, <3>1 DEF Age
    <2>2. CASE \E r \in Runs : Void(r)  BY <2>2 DEF Void
    <2>3. CASE EditProfile  BY <2>3 DEF EditProfile
    <2>4. CASE ChangeHandoff  BY <2>4 DEF ChangeHandoff
    <2> QED BY <2>1, <2>2, <2>3, <2>4
  <1>3. Outer'  BY <1>1, <1>2 DEF RunInv, Outer, journalVars, uiVars, workVars
  <1>4. Now' = Now /\ selected' = selected /\ UNCHANGED <<restart, sent>>
    BY <1>1 DEF Now, journalVars, uiVars, workVars
  <1>5. ~error => InHand(Now, selected, sent)  BY DEF RunInv, Synced, True
  <1> QED BY <1>1, <1>3, <1>4, <1>5, QuietStep DEF RunInv

\* The review checkbox, and another run on the screen.
LEMMA ToggleReviewedStep ==
  ASSUME RunInv, ToggleReviewed PROVE RunInv' /\ Effect
  <1> USE Known
  <1>1. UNCHANGED <<journalVars, selected, receipt, job, health, restart, sent>>
    BY DEF ToggleReviewed, workVars, envVars
  <1>2. reviewed' \in BOOLEAN  BY DEF ToggleReviewed
  <1>3. /\ Now' \in Hands /\ Now'.book = book /\ Now'.job = job /\ Now'.health = health
    BY <1>1, <1>2 DEF Now, Hands, journalVars
  <1>4. Fit(Now', selected')  BY <1>1, <1>3 DEF Fit, SelectedOpen
  <1>5. ~error => InHand(Now', selected', sent)
    BY <1>1, <1>3 DEF InHand, RunInv, Synced, True
  <1>6. Outer'  BY DEF ToggleReviewed, RunInv, Outer, journalVars, workVars, envVars
  <1> QED BY <1>1, <1>4, <1>5, <1>6, QuietStep

\* Another run is shown.
LEMMA SelectRecoveryStep ==
  ASSUME RunInv, NEW r \in Runs, SelectRecovery(r) PROVE RunInv' /\ Effect
  <1> USE Known
  <1>1. UNCHANGED <<journalVars, receipt, job, health, restart, sent>> /\ reviewed' = FALSE
    BY DEF SelectRecovery, workVars, envVars
  <1>2. selected' = r /\ job = NoJob /\ health = "idle" /\ \A q \in Runs : ~Unfinished(book, q)
    BY DEF SelectRecovery
  <1>3. /\ Now' \in Hands /\ Now'.book = book /\ Now'.job = job /\ Now'.health = health
    BY <1>1 DEF Now, Hands, journalVars
  <1>4. Fit(Now', selected')  BY <1>2, <1>3 DEF Fit
  <1>5. InHand(Now', selected', sent)  BY <1>2, <1>3 DEF InHand
  <1>6. Outer'
    BY <1>1, <1>2 DEF SelectRecovery, RunInv, Outer, journalVars, workVars, envVars
  <1> QED BY <1>1, <1>4, <1>5, <1>6, QuietStep

\* The process dies and starts again, on a journal it can read or on an empty one.
LEMMA RebootStep ==
  ASSUME RunInv, Reboot PROVE RunInv' /\ Effect
  <1>1. /\ UNCHANGED <<disk, sent, gen, restart, aged, void, profileOk, handoffOk>>
        /\ selected' = Newest(book') /\ reviewed' = FALSE /\ receipt' = NoReceipt
        /\ job' = NoJob /\ ghosts' = 0 /\ health' = "idle" /\ boots' \in 1..MaxBoots
    <2>1. boots \in 1..MaxBoots /\ boots < MaxBoots /\ boots' = boots + 1 /\ MaxBoots \in Nat
      BY RunAssumption DEF Reboot, RunInv, Outer
    <2> QED BY <2>1 DEF Reboot
  <1>2. /\ book' \in Book /\ Order(book') /\ Consistent(book') /\ error' \in BOOLEAN
        /\ \A r \in Runs : ~Unfinished(book', r)
        /\ ~error' => Told(restart, book', sent) /\ book' = Interrupt(disk)
    <2>1. CASE book' = Interrupt(disk) /\ error' = FALSE
      BY <2>1, Known, InterruptRuns, InterruptGood
    <2>2. CASE book' = Empty /\ error' = TRUE
      BY <2>2, EmptyGood DEF Empty
    <2> QED BY <2>1, <2>2 DEF Reboot
  <1>3. selected' \in Runs \cup {NoRun}  BY <1>1, <1>2, NewestRun DEF Order
  <1>4. /\ Now' \in Hands /\ Now'.book = book' /\ Now'.job = NoJob /\ Now'.health = "idle"
    BY <1>1, <1>2 DEF Now, Hands, Receipts, Jobs
  <1>5. Fit(Now', selected')  BY <1>2, <1>4 DEF Fit
  <1>6. InHand(Now', selected', sent)  BY <1>2, <1>4 DEF InHand
  <1>7. Outer'  BY <1>1, <1>2, <1>3 DEF RunInv, Outer
  <1>8. Filed'  BY <1>1 DEF RunInv, Filed
  <1>9. Synced'  BY <1>1, <1>2, <1>4, <1>6 DEF Synced, True
  <1>10. Effect  BY <1>1 DEF Effect, Onward
  <1> QED BY <1>5, <1>7, <1>8, <1>9, <1>10 DEF RunInv

\* The answer of a job is taken, journalled, and the run goes on.
LEMMA PollJobStep ==
  ASSUME RunInv, PollJob PROVE RunInv' /\ Effect
  <1> USE Known
  <1> DEFINE r == selected
             a == sent[<<r, book.run[r].cur, "Apply">>]
             u == sent[<<r, book.run[r].cur, "Restore">>]
             m == [Now EXCEPT !.job = NoJob, !.book = AfterJob(book, selected, job.res)]
  <1>1. SaveThenDrive(m, r) /\ UNCHANGED <<selected, ghosts, gen, envVars>>  BY DEF PollJob
  <1>2. job # NoJob /\ job.res \in Results  BY DEF PollJob, NoJob, Jobs, Results
  <1>3. r \in Runs /\ Unfinished(book, r) /\ health = "idle"  BY <1>2
  <1>4. ASSUME ~error
        PROVE  Tally(restart, Cur(book, r), a, u) /\ (Cur(book, r).phase = "Apply" => a = 1)
    <2>1. Tally(restart, Cur(book, r), a, u)  BY <1>3, <1>4, CurrentSlot DEF Told
    <2>2. Cur(book, r).phase = "Apply" => a = 1
      BY <1>2, <1>3, <1>4 DEF RunInv, Synced, True, InHand
    <2> QED BY <2>1, <2>2
  <1>5. \E c \in TargetRec :
          /\ AfterJob(book, r, job.res) = Moved(book, r, c) /\ SameClaims(c, Cur(book, r))
          /\ ~error => Tally(restart, c, a, u)
          /\ c.phase \in {"Baseline", "Restored", "Verify", "Unknown"}
    <2>1. CASE error
      <3>1. \E c \in TargetRec :
              /\ AfterJob(book, r, job.res) = Moved(book, r, c) /\ SameClaims(c, Cur(book, r))
              /\ Tally(restart, Cur(book, r), 1, 0) => Tally(restart, c, 1, 0)
              /\ c.phase \in {"Baseline", "Restored", "Verify", "Unknown"}
        BY <1>2, <1>3, AfterJobMoves
      <3> QED BY <2>1, <3>1
    <2>2. CASE ~error
      <3>1. \E c \in TargetRec :
              /\ AfterJob(book, r, job.res) = Moved(book, r, c) /\ SameClaims(c, Cur(book, r))
              /\ Tally(restart, Cur(book, r), a, u) => Tally(restart, c, a, u)
              /\ c.phase \in {"Baseline", "Restored", "Verify", "Unknown"}
        <4> HIDE DEF a, u
        <4> QED BY <1>2, <1>3, <1>4, <2>2, AfterJobMoves
      <3> QED BY <1>4, <2>2, <3>1
    <2> QED BY <2>1, <2>2
  <1>6. PICK c \in TargetRec :
          /\ AfterJob(book, r, job.res) = Moved(book, r, c) /\ SameClaims(c, Cur(book, r))
          /\ ~error => Tally(restart, c, a, u)
          /\ c.phase \in {"Baseline", "Restored", "Verify", "Unknown"}
    BY <1>5
  <1>7. Claimed(book, r, c)  BY <1>6 DEF Claimed
  <1>8. Moved(book, r, c) \in Book  BY <1>3, <1>7, MovedGood
  <1>9. m \in Hands /\ m.book = Moved(book, r, c) /\ m.job = NoJob /\ m.health = "idle"
    BY <1>3, <1>6, <1>8 DEF Hands, Jobs
  <1> HIDE DEF m
  <1> QED BY <1>1, <1>3, <1>6, <1>7, <1>9, HandlerStep

\* The answer of a check is taken, journalled, and the run goes on.
LEMMA PollHealthStep ==
  ASSUME RunInv, PollHealth PROVE RunInv' /\ Effect
  <1> USE Known
  <1> DEFINE r == selected
             a == sent[<<r, book.run[r].cur, "Apply">>]
             u == sent[<<r, book.run[r].cur, "Restore">>]
             ok == health = "pass"
             m == [Now EXCEPT !.health = "idle", !.reviewed = FALSE,
                              !.book = AfterHealth(book, selected, ok)]
  <1>1. SaveThenDrive(m, r) /\ UNCHANGED <<selected, ghosts, gen, envVars>>  BY DEF PollHealth
  <1>2. job = NoJob /\ health # "idle"  BY DEF PollHealth
  <1>3. /\ r \in Runs /\ Unfinished(book, r) /\ Cur(book, r).phase \in {"Baseline", "Verify"}
        /\ ok \in BOOLEAN
    BY <1>2
  <1>4. ~error => Tally(restart, Cur(book, r), a, u)  BY <1>3, CurrentSlot DEF Told
  <1>5. \E c \in TargetRec :
          /\ AfterHealth(book, r, ok) = Moved(book, r, c)
          /\ SameClaims(c, Cur(book, r))
          /\ c.phase \in {"Review", "Passed", "Failed", "Restore"}
          /\ Tally(restart, Cur(book, r), a, u) =>
               Tally(restart, c, a, u) /\ (c.phase = "Restore" => u = 0)
    <2> HIDE DEF a, u, ok
    <2> QED BY <1>3, AfterHealthMoves
  <1>6. PICK c \in TargetRec :
          /\ AfterHealth(book, r, ok) = Moved(book, r, c)
          /\ SameClaims(c, Cur(book, r))
          /\ c.phase \in {"Review", "Passed", "Failed", "Restore"}
          /\ Tally(restart, Cur(book, r), a, u) =>
               Tally(restart, c, a, u) /\ (c.phase = "Restore" => u = 0)
    BY <1>5
  <1>7. Claimed(book, r, c)  BY <1>6 DEF Claimed
  <1>8. Moved(book, r, c) \in Book  BY <1>3, <1>7, MovedGood
  <1>9. m \in Hands /\ m.book = Moved(book, r, c) /\ m.job = NoJob /\ m.health = "idle"
    BY <1>2, <1>6, <1>8 DEF Hands
  <1> HIDE DEF m, ok
  <1> QED BY <1>1, <1>3, <1>4, <1>6, <1>7, <1>9, HandlerStep

\* A reviewed target that needs no team approval goes on.
LEMMA ApproveStep ==
  ASSUME RunInv, Approve PROVE RunInv' /\ Effect
  <1> USE Known
  <1> DEFINE r == selected
             ph == IF Change(book, r) THEN "Apply" ELSE "Verify"
             a == sent[<<r, book.run[r].cur, "Apply">>]
             u == sent[<<r, book.run[r].cur, "Restore">>]
             c == [Cur(book, r) EXCEPT !.phase = ph]
             m == [Now EXCEPT !.book = SetPhase(book, r, ph), !.reviewed = FALSE]
  <1>1. SaveThenDrive(m, r) /\ UNCHANGED <<selected, ghosts, gen, envVars>>  BY DEF Approve
  <1>2. r \in Runs /\ Unfinished(book, r) /\ Cur(book, r).phase = "Review"  BY DEF Approve
  <1>3. job = NoJob /\ health = "idle"
    <2>1. job = NoJob  BY <1>2 DEF Jobs, Ops
    <2> QED BY <1>2, <2>1
  <1>4. ph \in Phases /\ ph \notin Settled  BY DEF Phases, Settled
  <1>5. ph = "Apply" <=> (restart \/ Cur(book, r).before # "desired")  BY DEF Change
  <1>6. ph \in {"Apply", "Verify"}  OBVIOUS
  <1> HIDE DEF ph
  <1>7. /\ SetPhase(book, r, ph) = Put(book, r, c) /\ c \in TargetRec /\ c.phase = ph
        /\ c.before = Cur(book, r).before /\ SameClaims(c, Cur(book, r))
    BY <1>2, <1>4, SetPhaseIsPut
  <1> HIDE DEF c
  <1>8. Claimed(book, r, c)  BY <1>7 DEF Claimed
  <1>9. Moved(book, r, c) \in Book /\ (c.phase \notin Settled => Moved(book, r, c) = Put(book, r, c))
    BY <1>2, <1>7, <1>8, MovedGood
  <1>10. m \in Hands /\ m.book = Moved(book, r, c) /\ m.job = NoJob /\ m.health = "idle"
    BY <1>3, <1>4, <1>7, <1>9 DEF Hands
  <1>11. ASSUME ~error PROVE Tally(restart, c, a, u) /\ a = 0 /\ u = 0
    <2>1. Tally(restart, Cur(book, r), a, u)  BY <1>2, <1>11, CurrentSlot DEF Told
    <2>2. a = 0 /\ u = 0  BY <1>2, <2>1 DEF Tally
    <2> HIDE DEF a, u
    <2> QED BY <1>5, <1>6, <1>7, <2>2 DEF Tally
  <1> HIDE DEF m
  <1> QED BY <1>1, <1>2, <1>7, <1>8, <1>10, <1>11, HandlerStep

\* A cancelled run is given up; its job is no longer waited for.
LEMMA CancelStep ==
  ASSUME RunInv, Cancel PROVE RunInv' /\ Effect
  <1> USE Known
  <1> DEFINE r == selected
             m == [Now EXCEPT !.job = NoJob, !.health = "idle"]
  <1>1. /\ Fail(m, disk, r) /\ r \in Runs /\ Unfinished(book, r) /\ sent' = sent
        /\ UNCHANGED <<selected, gen, envVars>>
    BY DEF Cancel
  <1>2. ghosts' \in Nat  BY DEF Cancel, RunInv, Outer
  <1>3. m \in Hands /\ m.book = book /\ m.job = NoJob /\ m.health = "idle"
    BY DEF Hands, Jobs
  <1> HIDE DEF m
  <1>4. Fit(m, r)  BY <1>3 DEF Fit
  <1>5. Filing(restart, disk, sent)  BY DEF RunInv, Filed
  <1>6. Result(r) /\ (disk' = disk \/ Onward(book, disk'))
    BY <1>1, <1>3, <1>4, <1>5, GivesUp
  <1>7. RunInv'  BY <1>1, <1>2, <1>6, ResultKeeps
  <1>8. error => disk' = disk  BY <1>1 DEF Fail, Save, SaveOk, SaveFails
  <1>9. ~error => book = disk  BY <1>1, OpenIsSaved
  <1>10. Onward(disk, disk')  BY <1>6, <1>8, <1>9 DEF Onward
  <1>11. restart' = restart  BY <1>1 DEF envVars
  <1> QED BY <1>1, <1>7, <1>8, <1>10, <1>11 DEF Effect

\* A frame without news: the open run goes on if it can.
LEMMA PollDriveStep ==
  ASSUME RunInv, PollDrive PROVE RunInv' /\ Effect
  <1> USE Known
  <1> DEFINE r == selected
  <1>1. /\ Drive(Now, disk, r) /\ r \in Runs /\ Unfinished(book, r) /\ ~error
        /\ UNCHANGED <<selected, ghosts, gen, envVars>>
    BY DEF PollDrive
  <1>2. book = disk  BY <1>1, OpenIsSaved
  <1>3. Drive(Now, Now.book, r)  BY <1>1, <1>2
  <1>4. Fit(Now, r) /\ True(restart, Now, r, sent)  BY <1>1 DEF RunInv, Synced
  <1>5. Now.book.run[r].kind # "none"  BY <1>1 DEF Unfinished
  <1>6. Result(r) /\ Onward(Now.book, disk') /\ sent' \in Counts /\ (sent' = sent \/ Sends(Now.book, r))
    BY <1>1, <1>3, <1>4, <1>5, DriveStep
  <1>7. RunInv'
    <2>1. ghosts' \in Nat  BY <1>1 DEF RunInv, Outer
    <2> QED BY <1>1, <1>6, <2>1, ResultKeeps
  <1>8. Near(book, book, r)
    <2>1. Mutation \cap Settled = {}  BY DEF Mutation, Settled
    <2> QED BY <2>1 DEF Near, Cur
  <1>9. Follows(book, r)  BY <1>1, <1>2, <1>8 DEF Follows
  <1>10. restart' = restart  BY <1>1 DEF envVars
  <1> QED BY <1>1, <1>2, <1>6, <1>7, <1>9, <1>10 DEF Effect

\* A run is opened: the next one, when no other is open.
LEMMA OpenStep ==
  ASSUME RunInv, NEW r \in Runs, NEW kind, Open(r, kind) PROVE RunInv' /\ Effect
  <1> USE Known
  <1> DEFINE e == [kind |-> kind, team |-> book.team, cur |-> 1, fin |-> FALSE]
             d == Opened(r, kind)
             m == [Now EXCEPT !.book = d, !.reviewed = FALSE]
  <1>1. /\ SaveThenDrive(m, r) /\ selected' = r /\ UNCHANGED <<ghosts, gen, envVars>>
        /\ ~error /\ ~SelectedOpen /\ book.run[r].kind = "none"
        /\ \A q \in Runs : q < r => book.run[q].kind # "none"
    BY DEF Open
  <1>2. kind \in {"rehearsal", "production", "lab"}  BY RunAssumption DEF Open
  <1>3. job = NoJob /\ health = "idle" /\ \A q \in Runs : ~Unfinished(book, q)
    BY <1>1 DEF SelectedOpen, NoRun, Runs
  <1>4. e \in RunRecs /\ e.kind # "none"
    <2>1. 1 \in Targets /\ book.team \in BOOLEAN  BY RunAssumption DEF Targets, Book
    <2> QED BY <1>2, <2>1 DEF RunRecs
  <1>5. /\ d.team = book.team /\ d.tgt = book.tgt /\ d.run = [book.run EXCEPT ![r] = e]
        /\ d \in Book
    <2>1. d = [book EXCEPT !.run[r] = e]  BY DEF Opened
    <2> HIDE DEF d, e
    <2>2. /\ d.team = book.team /\ d.tgt = book.tgt /\ d.run = [book.run EXCEPT ![r] = e]
          /\ d = [team |-> d.team, run |-> d.run, tgt |-> d.tgt]
      BY <2>1 DEF Book
    <2>3. d.run \in [Runs -> RunRecs]  BY <1>4, <2>2 DEF Book, RunRecs
    <2> QED BY <2>2, <2>3 DEF Book, RunRecs
  <1>6. d.run[r] = e /\ \A q \in Runs : q # r => d.run[q] = book.run[q]
    <2> HIDE DEF d, e
    <2> QED BY <1>5 DEF Book
  <1>7. e.kind = kind /\ e.team = book.team /\ e.cur = 1 /\ e.fin = FALSE  OBVIOUS
  <1>8. m \in Hands /\ m.book = d /\ m.job = NoJob /\ m.health = "idle"
    <2> HIDE DEF d
    <2> QED BY <1>3, <1>5 DEF Hands
  <1> HIDE DEF d, e, m
  <1>9. \A q \in Runs, t \in Targets : <<q, t>> \in Slots /\ <<q, t>>[1] = q  BY DEF Slots
  <1>10. \A t \in Targets : book.tgt[<<r, t>>].phase = "Capture"
    BY <1>1 DEF Order, Path
  <1>11. 1 \in Targets /\ Cur(d, r).phase = "Capture"
    BY <1>4, <1>5, <1>6, <1>7, <1>10 DEF Cur, RunRecs
  <1>12. Filled(d)
    <2>1. PICK n \in 0..MaxRuns : \A q \in Runs : book.run[q].kind # "none" <=> q <= n
      BY DEF Order, Filled
    <2>2. r = n + 1
      <3>1. ~(r <= n) /\ \A q \in Runs : q < r => q <= n  BY <1>1, <2>1
      <3>2. r \in 1..MaxRuns /\ MaxRuns \in Nat  BY RunAssumption DEF Runs
      <3>3. r > 1 => r - 1 \in Runs /\ r - 1 < r  BY <3>2 DEF Runs
      <3> QED BY <2>1, <3>1, <3>2, <3>3
    <2>3. r \in 0..MaxRuns /\ \A q \in Runs : q <= r <=> q <= n \/ q = r
      BY <2>1, <2>2, RunAssumption DEF Runs
    <2> QED BY <1>4, <1>6, <2>1, <2>3 DEF Filled
  <1>13. \A q \in Runs : Path(d, q) /\ Pending(d, q)
    <2> TAKE q \in Runs
    <2>1. CASE q = r
      <3>1. \A t \in Targets : ~(t < 1)  BY DEF Targets
      <3>2. \A t \in Targets : d.tgt[<<r, t>>].phase = "Capture"  BY <1>5, <1>10
      <3> QED BY <1>6, <1>7, <1>11, <2>1, <3>1, <3>2 DEF Path, Pending, Settled
    <2>2. CASE q # r
      <3>1. d.run[q] = book.run[q] /\ d.tgt = book.tgt  BY <1>5, <1>6, <2>2
      <3> QED BY <3>1 DEF Order, Path, Pending, Unfinished, Cur
    <2> QED BY <2>1, <2>2
  <1>14. Consistent(d)
    <2>1. \A q \in Runs : d.run[q].team => d.team  BY <1>5, <1>6, <1>7 DEF Consistent
    <2>2. ASSUME NEW s \in Slots
          PROVE  \/ ~d.tgt[s].attempted /\ d.tgt[s].approval = NoApproval /\ d.tgt[s].event = NoEvent
                 \/ /\ Production(d, s[1]) /\ d.run[s[1]].team
                    /\ d.tgt[s].attempted /\ d.tgt[s].approval # NoApproval
      <3>1. s[1] \in Runs /\ d.tgt[s] = book.tgt[s]  BY <1>5 DEF Slots
      <3>2. CASE s[1] = r
        BY <1>1, <3>1, <3>2 DEF Consistent, Production
      <3>3. CASE s[1] # r
        BY <1>6, <3>1, <3>3 DEF Consistent, Production
      <3> QED BY <3>2, <3>3
    <2> QED BY <2>1, <2>2 DEF Consistent
  <1>15. \A q \in Runs : Unfinished(d, q) => q = r
    BY <1>3, <1>6 DEF Unfinished
  <1>16. Fit(m, r)  BY <1>5, <1>8, <1>12, <1>13, <1>14, <1>15 DEF Fit, Order
  <1>17. True(restart, m, r, sent)
    <2>1. Told(restart, d, sent)  BY <1>1, <1>5 DEF Told
    <2>2. InHand(m, r, sent)  BY <1>8, <1>11 DEF InHand
    <2> QED BY <1>8, <2>1, <2>2 DEF True
  <1>18. m.book.run[r].kind # "none"  BY <1>4, <1>6, <1>8
  <1>19. Filed  BY DEF RunInv
  <1>20. /\ Result(r) /\ sent' \in Counts
         /\ sent' = sent \/ Sends(m.book, r)
         /\ disk' = disk \/ (~error /\ Onward(m.book, disk'))
         /\ error => disk' = disk /\ sent' = sent
    BY <1>1, <1>16, <1>17, <1>18, <1>19, SaveThenDriveStep
  <1>21. RunInv'
    <2>1. ghosts' \in Nat  BY <1>1 DEF RunInv, Outer
    <2> QED BY <1>1, <1>20, <2>1, ResultKeeps
  <1>22. sent' = sent
    <2>1. "Capture" \notin Mutation  BY DEF Mutation
    <2> QED BY <1>8, <1>11, <1>20, <2>1 DEF Sends, Sent
  <1>23. Onward(disk, disk')
    <2>1. Onward(disk, book)
      <3>1. Onward(disk, Interrupt(disk))  BY InterruptGood
      <3>2. Onward(disk, disk)  BY DEF Onward
      <3> QED BY <1>1, <3>1, <3>2
    <2> QED BY <1>5, <1>8, <1>20, <2>1 DEF Onward
  <1>24. restart' = restart  BY <1>1 DEF envVars
  <1> QED BY <1>1, <1>21, <1>22, <1>23, <1>24 DEF Effect

\* Every step keeps the invariant and does nothing but what Effect allows.
LEMMA NextStep == ASSUME RunInv, [Next]_vars PROVE RunInv' /\ Effect
  <1>1. CASE Operator
    <2>1. ASSUME NEW r \in Runs, StartRehearsal(r) \/ StartProduction(r) \/ PrepareLabProduction(r)
          PROVE  RunInv' /\ Effect
      BY <2>1, OpenStep DEF StartRehearsal, StartProduction, PrepareLabProduction
    <2>2. ASSUME NEW r \in Runs, SelectRecovery(r) PROVE RunInv' /\ Effect
      BY <2>2, SelectRecoveryStep
    <2> QED BY <1>1, <2>1, <2>2, ToggleReviewedStep, ApproveStep, CancelStep DEF Operator
  <1>2. CASE Frame
    BY <1>2, PollJobStep, PollHealthStep, PollDriveStep DEF Frame
  <1>3. CASE Threads
    BY <1>3, JobEndsStep, GhostEndsStep, HealthEndsStep DEF Threads
  <1>4. CASE World
    BY <1>4, WorldStep, RebootStep DEF World
  <1>5. CASE UNCHANGED vars
    <2>1. UNCHANGED <<journalVars, uiVars, workVars, envVars>>  BY <1>5 DEF vars
    <2>2. Outer'  BY <2>1 DEF RunInv, Outer, journalVars, uiVars, workVars, envVars
    <2>3. Now' = Now /\ selected' = selected /\ UNCHANGED <<restart, sent>>
      BY <2>1 DEF Now, journalVars, uiVars, workVars, envVars
    <2>4. ~error => InHand(Now, selected, sent)  BY DEF RunInv, Synced, True
    <2> QED BY <2>1, <2>2, <2>3, <2>4, QuietStep DEF RunInv
  <1> QED BY <1>1, <1>2, <1>3, <1>4, <1>5 DEF Next

-----------------------------------------------------------------------------
(* The theorems.                                                           *)

\* In every reachable state, of any number of runs, targets and process lifetimes: the
\* file is in order and tells what was sent; so does the memory until a save fails; and
\* what a thread is out for is the step of the one open run.
THEOREM RunCorrect == Spec => []RunInv
  <1>1. Init => RunInv  BY InitGood
  <1>2. RunInv /\ [Next]_vars => RunInv'  BY NextStep
  <1> QED BY <1>1, <1>2, PTL DEF Spec

\* Every variable holds a value of the type the program gives it.
THEOREM RunTypeCorrect == Spec => []TypeOK
  <1>1. RunInv => TypeOK
    <2> SUFFICES ASSUME RunInv PROVE TypeOK
      OBVIOUS
    <2> QED BY Known DEF TypeOK, RunInv, Outer
  <1> QED BY <1>1, RunCorrect, PTL

\* A change that was sent is in the journal file, past its review.
THEOREM ChangesAreJournalled == Spec => []JournalledFirst
  <1>1. RunInv => JournalledFirst
    <2> SUFFICES ASSUME RunInv, NEW s \in Slots, sent[<<s[1], s[2], "Apply">>] > 0
                 PROVE  /\ disk.run[s[1]].kind # "none"
                        /\ disk.tgt[s].phase \notin {"Capture", "Baseline", "Review"}
      BY DEF JournalledFirst
    <2>1. s[1] \in Runs /\ s[2] \in Targets /\ s = <<s[1], s[2]>>  BY DEF Slots
    <2>2. Tally(restart, disk.tgt[s], sent[<<s[1], s[2], "Apply">>], sent[<<s[1], s[2], "Restore">>])
      BY <2>1, Known DEF Told
    <2>3. disk.tgt[s].phase \notin {"Capture", "Baseline", "Review"}  BY <2>2 DEF Tally
    <2>4. Path(disk, s[1])  BY <2>1, Known DEF Order
    <2> QED BY <2>1, <2>3, <2>4 DEF Path
  <1> QED BY <1>1, RunCorrect, PTL

\* At most one run is open, and an answer that is awaited is for the step it is in.
THEOREM OneRunIsOpen == Spec => []OneOpenRun
  <1>1. RunInv => OneOpenRun
    <2> SUFFICES ASSUME RunInv PROVE OneOpenRun
      OBVIOUS
    <2> QED BY Known DEF OneOpenRun
  <1> QED BY <1>1, RunCorrect, PTL

\* The journal file can always be read back.
THEOREM JournalIsReadable == Spec => []JournalLoads
  <1>1. RunInv => JournalLoads  BY Known DEF JournalLoads
  <1> QED BY <1>1, RunCorrect, PTL

\* While the error latch is set nothing is sent and nothing is written.
THEOREM ErrorsFreeze == Spec => LatchedErrorFreezes
  <1>1. RunInv /\ [Next]_vars => [error => disk' = disk /\ sent' = sent]_vars
    BY NextStep DEF Effect
  <1> QED BY <1>1, RunCorrect, PTL DEF Spec, LatchedErrorFreezes

\* What was sent to a host is one of three things, told by two counts.
LEMMA DoneIs ==
  ASSUME RunInv, NEW s \in Slots
  PROVE  /\ sent[<<s[1], s[2], "Apply">>] \in {0, 1} /\ sent[<<s[1], s[2], "Restore">>] \in {0, 1}
         /\ sent[<<s[1], s[2], "Apply">>] = 0 => DoneTo(s) = "nothing"
         /\ sent[<<s[1], s[2], "Apply">>] = 1 /\ sent[<<s[1], s[2], "Restore">>] = 0
              => DoneTo(s) = "changed"
         /\ sent[<<s[1], s[2], "Apply">>] = 1 /\ sent[<<s[1], s[2], "Restore">>] = 1
              => DoneTo(s) = "undone"
         /\ DoneTo(s) = "nothing" => sent[<<s[1], s[2], "Apply">>] = 0
         /\ Tally(restart, disk.tgt[s], sent[<<s[1], s[2], "Apply">>], sent[<<s[1], s[2], "Restore">>])
  <1> DEFINE a == sent[<<s[1], s[2], "Apply">>]
             u == sent[<<s[1], s[2], "Restore">>]
  <1>1. s[1] \in Runs /\ s[2] \in Targets /\ s = <<s[1], s[2]>>  BY DEF Slots
  <1>2. Tally(restart, disk.tgt[s], a, u)  BY <1>1, Known DEF Told
  <1>3. a \in {0, 1} /\ u \in {0, 1} /\ u <= a  BY <1>2 DEF Tally
  <1>4. DoneTo(s) = CASE a = 0 /\ u = 0 -> "nothing"
                      [] a = 1 /\ u = 0 -> "changed"
                      [] a = 1 /\ u = 1 -> "undone"
                      [] OTHER -> "more than once"
    BY DEF DoneTo
  <1> HIDE DEF a, u
  <1>5. /\ a = 0 => DoneTo(s) = "nothing"
        /\ a = 1 /\ u = 0 => DoneTo(s) = "changed"
        /\ a = 1 /\ u = 1 => DoneTo(s) = "undone"
    <2>1. CASE a = 0
      <3>1. u = 0  BY <1>3, <2>1
      <3> QED BY <1>4, <2>1, <3>1
    <2>2. CASE a = 1 /\ u = 0  BY <1>4, <2>2
    <2>3. CASE a = 1 /\ u = 1  BY <1>4, <2>3
    <2> QED BY <1>3, <2>1, <2>2, <2>3
  <1> QED BY <1>2, <1>3, <1>5 DEF a, u

\* What follows when a host is changed or put back: it is the current target of the one
\* open run, the file says so before and after, and every other host is decided or
\* untouched.
LEMMA SendsInOrder ==
  ASSUME RunInv, NEW r \in Runs, NEW b \in Book, Sends(b, r), Follows(b, r)
  PROVE  LET s == <<r, book.run[r].cur>> IN
         /\ s \in Slots /\ b.run = disk.run /\ disk'.run = disk.run
         /\ disk.tgt[s].phase \notin Settled /\ disk'.tgt[s].phase \notin Settled
         /\ \A v \in Slots : v # s => disk'.tgt[v].phase = disk.tgt[v].phase
         /\ \A t \in Targets : t < book.run[r].cur => disk.tgt[<<r, t>>].phase = "Passed"
         /\ \A v \in Slots : v # s => /\ disk.tgt[v].phase \in Settled
                                      \/ disk.tgt[v].phase = "Capture"
         /\ \E op \in Mutation :
              /\ Cur(b, r).phase = op /\ sent[<<r, book.run[r].cur, op>>] = 0
              /\ sent' = [sent EXCEPT ![<<r, book.run[r].cur, op>>] = 1]
  <1> DEFINE s == <<r, book.run[r].cur>>
  <1> USE Known
  <1>1. /\ Unfinished(book, r) /\ book = disk /\ Near(book, b, r)  BY DEF Follows
  <1>2. PICK op \in Mutation :
          /\ Cur(b, r).phase = op /\ sent[<<r, b.run[r].cur, op>>] = 0
          /\ sent' = [sent EXCEPT ![<<r, b.run[r].cur, op>>] = 1]
          /\ disk'.run = b.run
          /\ \A v \in Slots : disk'.tgt[v].phase = b.tgt[v].phase
    BY DEF Sends, Sent
  <1>3. b.run = book.run /\ b.tgt[s].phase \notin Settled  BY <1>1, <1>2 DEF Near
  <1>4. s \in Slots /\ book.run[r].cur \in Targets  BY CurrentSlot
  <1>5. Path(book, r) /\ Pending(book, r)  BY DEF Order
  <1>6. book.tgt[s].phase \notin Settled  BY <1>1, <1>5 DEF Pending, Cur
  <1>7. \A v \in Slots : v # s => disk'.tgt[v].phase = disk.tgt[v].phase
    BY <1>1, <1>2 DEF Near
  <1>8. ASSUME NEW v \in Slots, v # s
        PROVE  disk.tgt[v].phase \in Settled \/ disk.tgt[v].phase = "Capture"
    <2>1. v[1] \in Runs /\ v[2] \in Targets /\ v = <<v[1], v[2]>>  BY DEF Slots
    <2>2. Path(book, v[1])  BY <2>1 DEF Order
    <2>3. book.run[v[1]].cur \in Targets  BY <2>1, CurrentSlot
    <2>4. /\ v[2] \in Nat /\ book.run[v[1]].cur \in Nat  BY <2>1, <2>3 DEF Targets
    <2>5. CASE v[2] # book.run[v[1]].cur
      <3>1. v[2] < book.run[v[1]].cur \/ v[2] > book.run[v[1]].cur  BY <2>4, <2>5
      <3> QED BY <1>1, <2>1, <2>2, <3>1 DEF Path, Settled
    <2>6. CASE v[2] = book.run[v[1]].cur
      <3>1. v[1] # r  BY <1>8, <2>1, <2>6
      <3>2. ~Unfinished(book, v[1])  BY <1>1, <2>1, <3>1
      <3>3. CASE book.run[v[1]].kind = "none"  BY <1>1, <2>1, <2>2, <3>3 DEF Path
      <3>4. CASE book.run[v[1]].fin
        BY <1>1, <2>1, <2>2, <2>6, <3>4 DEF Path, Cur
      <3> QED BY <3>2, <3>3, <3>4 DEF Unfinished
    <2> QED BY <2>5, <2>6
  <1> QED BY <1>1, <1>2, <1>3, <1>4, <1>5, <1>6, <1>7, <1>8 DEF Path

\* The evidence CurrentEvidence asks for.
Evidence(s) ==
  /\ Production(book', s[1]) =>
       /\ IF book'.run[s[1]].kind = "lab" THEN s[1] \notin void
          ELSE \E p \in Runs \ void :
                 /\ disk.run[p].kind = "rehearsal" /\ disk.run[p].fin
                 /\ \A t \in Targets : /\ disk.tgt[<<p, t>>].phase = "Passed"
                                      /\ sent[<<p, t, "Apply">>] = 1
       /\ s \notin aged /\ profileOk /\ handoffOk
  /\ restart => /\ disk'.tgt[s].before = "desired"
                /\ disk'.tgt[s].baseline = "fail"

\* A host is changed only on evidence that is current when the change is sent.
LEMMA EvidenceStep ==
  ASSUME RunInv, RunInv', Effect, NEW s \in Slots,
         sent'[<<s[1], s[2], "Apply">>] > sent[<<s[1], s[2], "Apply">>]
  PROVE  Evidence(s)
  <1> USE Known
  <1>1. s[1] \in Runs /\ s[2] \in Targets /\ s = <<s[1], s[2]>>  BY DEF Slots
  <1>2. sent' # sent
    <2>1. sent[<<s[1], s[2], "Apply">>] \in {0, 1}  BY DoneIs
    <2> QED BY <2>1
  <1>3. PICK r \in Runs, b \in Book : Sends(b, r) /\ Follows(b, r)  BY <1>2 DEF Effect
  <1> DEFINE h == <<r, book.run[r].cur>>
  <1>4. /\ h \in Slots /\ b.run = disk.run /\ disk'.run = disk.run
        /\ \E op \in Mutation :
              /\ Cur(b, r).phase = op /\ sent[<<r, book.run[r].cur, op>>] = 0
              /\ sent' = [sent EXCEPT ![<<r, book.run[r].cur, op>>] = 1]
    BY <1>3, SendsInOrder
  <1>5. PICK op \in Mutation : /\ Cur(b, r).phase = op
                               /\ sent' = [sent EXCEPT ![<<r, book.run[r].cur, op>>] = 1]
    BY <1>4
  <1>6. <<s[1], s[2], "Apply">> = <<r, book.run[r].cur, op>>
    <2>1. <<s[1], s[2], "Apply">> \in Runs \X Targets \X Mutation  BY <1>1 DEF Mutation
    <2>2. sent[<<s[1], s[2], "Apply">>] \in {0, 1}  BY DoneIs
    <2>3. ~(sent[<<s[1], s[2], "Apply">>] > sent[<<s[1], s[2], "Apply">>])  BY <2>2
    <2> QED BY <1>5, <2>1, <2>3 DEF Counts
  <1>7. s[1] = r /\ s = h /\ Cur(b, r).phase = "Apply"  BY <1>1, <1>5, <1>6
  <1>8. book = disk /\ Near(book, b, r) /\ b.tgt[s] = Cur(b, r)
    BY <1>3, <1>4, <1>7 DEF Follows, Cur
  <1>9. handoffOk /\ profileOk /\ Fresh(b, r) /\ RestartReady(b, r)
        /\ (Production(b, r) => HasProof(b, r))
    BY <1>3, <1>7 DEF Sends, Due
  <1>10. ~error' /\ disk'.tgt[s].before = b.tgt[s].before /\ disk'.tgt[s].baseline = b.tgt[s].baseline
    BY <1>3 DEF Sends, Sent
  <1>11. book'.run[r].kind = b.run[r].kind
    <2>1. disk' \in Book /\ (book' = disk' \/ book' = Interrupt(disk'))
      BY <1>10 DEF RunInv, Filed, Filing, Synced
    <2>2. \A q \in Runs : Interrupt(disk').run[q].kind = disk'.run[q].kind
      BY <2>1, InterruptRuns
    <2> QED BY <1>4, <2>1, <2>2
  <1>12. s \notin aged  BY <1>4, <1>7, <1>8, <1>9 DEF Fresh
  <1>13. restart => disk'.tgt[s].before = "desired" /\ disk'.tgt[s].baseline = "fail"
    BY <1>8, <1>9, <1>10 DEF RestartReady
  <1>14. ASSUME Production(book', r)
         PROVE  IF book'.run[r].kind = "lab" THEN r \notin void
                ELSE \E p \in Runs \ void :
                       /\ disk.run[p].kind = "rehearsal" /\ disk.run[p].fin
                       /\ \A t \in Targets : /\ disk.tgt[<<p, t>>].phase = "Passed"
                                            /\ sent[<<p, t, "Apply">>] = 1
    <2>1. Production(b, r)  BY <1>11, <1>14 DEF Production
    <2>2. CASE b.run[r].kind = "lab"  BY <1>9, <1>11, <2>1, <2>2 DEF HasProof
    <2>3. CASE b.run[r].kind # "lab"
      <3>1. PICK p \in Runs : ProofFor(b, p)  BY <1>9, <2>1, <2>3 DEF HasProof
      <3>2. b.run[p].kind = "rehearsal" /\ b.run[p].fin /\ p \notin void  BY <3>1 DEF ProofFor
      <3>3. p # r  BY <2>1, <3>2 DEF Production
      <3>4. ASSUME NEW t \in Targets
            PROVE  disk.tgt[<<p, t>>].phase = "Passed" /\ sent[<<p, t, "Apply">>] = 1
        <4>1. <<p, t>> \in Slots /\ <<p, t>> # h  BY <3>3 DEF Slots
        <4>2. disk.tgt[<<p, t>>] = b.tgt[<<p, t>>]  BY <1>8, <4>1 DEF Near
        <4>3. disk.tgt[<<p, t>>].phase = "Passed" /\ (restart \/ disk.tgt[<<p, t>>].before = "other")
          BY <3>1, <4>2 DEF ProofFor
        <4>4. Tally(restart, disk.tgt[<<p, t>>], sent[<<p, t, "Apply">>], sent[<<p, t, "Restore">>])
          BY DEF Told
        <4> QED BY <4>3, <4>4 DEF Tally
      <3> QED BY <1>4, <1>11, <2>3, <3>2, <3>4
    <2> QED BY <2>2, <2>3
  <1> QED BY <1>7, <1>9, <1>12, <1>13, <1>14 DEF Evidence

\* So every change was made on current evidence.
THEOREM EvidenceIsCurrent == Spec => CurrentEvidence
  <1> DEFINE A == \A s \in Slots :
                    sent'[<<s[1], s[2], "Apply">>] > sent[<<s[1], s[2], "Apply">>] => Evidence(s)
  <1>1. ASSUME RunInv, [Next]_vars PROVE [A]_vars  BY <1>1, NextStep, EvidenceStep
  <1>2. RunInv /\ [Next]_vars => [A]_vars  BY <1>1
  <1> QED BY <1>2, RunCorrect, PTL DEF Spec, CurrentEvidence, Evidence
-----------------------------------------------------------------------------
(* The ledger: what the engine promises of the hosts.                      *)

\* A verdict that is in the file tells what was done to the host.
Truthful ==
  \A s \in Slots : VerdictOn(s) # "open" => Ledger!Tells(VerdictOn(s), DoneTo(s))

\* The invariant says so of every verdict.
LEMMA VerdictsTell == RunInv => Truthful
  <1> SUFFICES ASSUME RunInv, NEW s \in Slots, VerdictOn(s) # "open"
               PROVE  Ledger!Tells(VerdictOn(s), DoneTo(s))
    BY DEF Truthful
  <1>1. VerdictOn(s) = disk.tgt[s].phase /\ disk.tgt[s].phase \in Settled  BY DEF VerdictOn
  <1>2. Tally(restart, disk.tgt[s], sent[<<s[1], s[2], "Apply">>], sent[<<s[1], s[2], "Restore">>])
    BY DoneIs
  <1>3. CASE disk.tgt[s].phase = "Unknown"  BY <1>1, <1>3 DEF Ledger!Tells
  <1>4. CASE disk.tgt[s].phase = "Passed"
    <2>1. sent[<<s[1], s[2], "Restore">>] = 0  BY <1>2, <1>4 DEF Tally
    <2>2. DoneTo(s) # "undone"  BY <2>1, DoneIs
    <2> QED BY <1>1, <1>4, <2>2 DEF Ledger!Tells
  <1>5. CASE disk.tgt[s].phase = "Failed"
    <2>1. sent[<<s[1], s[2], "Apply">>] = 0  BY <1>2, <1>5 DEF Tally
    <2> QED BY <1>1, <1>5, <2>1, DoneIs DEF Ledger!Tells
  <1>6. CASE disk.tgt[s].phase = "Restored"
    <2>1. sent[<<s[1], s[2], "Apply">>] = 1  BY <1>2, <1>6 DEF Tally
    <2>2. DoneTo(s) # "nothing"  BY <2>1, DoneIs
    <2> QED BY <1>1, <1>6, <2>2 DEF Ledger!Tells
  <1> QED BY <1>1, <1>3, <1>4, <1>5, <1>6 DEF Settled

\* The ledger starts with nothing done and nothing decided.
LEMMA LedgerInit == Init => Ledger!Init
  <1> SUFFICES ASSUME Init PROVE Ledger!Init
    OBVIOUS
  <1>1. RunInv  BY InitGood
  <1>2. \A s \in Slots : DoneTo(s) = "nothing"
    <2> TAKE s \in Slots
    <2>1. <<s[1], s[2], "Apply">> \in Runs \X Targets \X Mutation  BY DEF Slots, Mutation
    <2>2. sent[<<s[1], s[2], "Apply">>] = 0  BY <2>1 DEF Init
    <2> QED BY <1>1, <2>2, DoneIs
  <1>3. \A s \in Slots : VerdictOn(s) = "open"
    <2>1. /\ TeamBook \in BOOLEAN
          /\ disk = [team |-> TeamBook, run |-> [r \in Runs |-> NoRunYet],
                     tgt |-> [s \in Slots |-> NewTarget]]
      BY RunAssumption DEF Init, Empty
    <2>2. \A s \in Slots : disk.tgt[s].phase = "Capture"  BY <2>1, EmptyGood
    <2> QED BY <2>2 DEF VerdictOn, Settled
  <1> QED BY <1>2, <1>3 DEF Ledger!Init, Ledger!Hosts, Slots, Targets

\* A step that sends nothing settles verdicts, or nothing.
LEMMA LedgerSettles ==
  ASSUME Effect, Truthful', sent' = sent
  PROVE  Ledger!Settle
  <1>1. \A s \in Slots : DoneTo(s)' = DoneTo(s)  BY DEF DoneTo
  <1>2. \A s \in Slots : VerdictOn(s)' \in Ledger!Verdicts
    BY DEF VerdictOn, Settled, Ledger!Verdicts
  <1>3. ASSUME NEW s \in Slots, VerdictOn(s)' # VerdictOn(s)
        PROVE  VerdictOn(s) = "open" /\ Ledger!Tells(VerdictOn(s)', DoneTo(s))
    <2>1. disk.tgt[s].phase \notin Settled
      BY <1>3 DEF Effect, Onward, VerdictOn
    <2>2. VerdictOn(s) = "open"  BY <2>1 DEF VerdictOn
    <2>3. Ledger!Tells(VerdictOn(s)', DoneTo(s)')  BY <1>3, <2>2 DEF Truthful
    <2> QED BY <1>1, <2>2, <2>3
  <1>4. Ledger!Hosts = Slots  BY DEF Ledger!Hosts, Slots, Targets
  <1> QED BY <1>1, <1>2, <1>3, <1>4 DEF Ledger!Settle

\* A step that sends something changes one host, or puts one back, in its turn.
LEMMA LedgerSends ==
  ASSUME RunInv, NEW r \in Runs, NEW b \in Book, Sends(b, r), Follows(b, r)
  PROVE  Ledger!Next
  <1> DEFINE D == [s \in Slots |-> DoneTo(s)]
             V == [s \in Slots |-> VerdictOn(s)]
  <1> USE Known
  <1>0. PICK h \in Slots : h = <<r, book.run[r].cur>>  BY CurrentSlot
  <1>1. /\ h \in Slots /\ disk.tgt[h].phase \notin Settled /\ disk'.tgt[h].phase \notin Settled
        /\ \A v \in Slots : v # h => disk'.tgt[v].phase = disk.tgt[v].phase
        /\ \A t \in Targets : t < book.run[r].cur => disk.tgt[<<r, t>>].phase = "Passed"
        /\ \A v \in Slots : v # h => disk.tgt[v].phase \in Settled \/ disk.tgt[v].phase = "Capture"
        /\ \E op \in Mutation : /\ Cur(b, r).phase = op /\ sent[<<r, book.run[r].cur, op>>] = 0
                                /\ sent' = [sent EXCEPT ![<<r, book.run[r].cur, op>>] = 1]
    <2> DEFINE g == <<r, book.run[r].cur>>
    <2>1. /\ g \in Slots /\ disk.tgt[g].phase \notin Settled /\ disk'.tgt[g].phase \notin Settled
          /\ \A v \in Slots : v # g => disk'.tgt[v].phase = disk.tgt[v].phase
          /\ \A t \in Targets : t < book.run[r].cur => disk.tgt[<<r, t>>].phase = "Passed"
          /\ \A v \in Slots : v # g => disk.tgt[v].phase \in Settled \/ disk.tgt[v].phase = "Capture"
          /\ \E op \in Mutation : /\ Cur(b, r).phase = op /\ sent[<<r, book.run[r].cur, op>>] = 0
                                  /\ sent' = [sent EXCEPT ![<<r, book.run[r].cur, op>>] = 1]
      BY SendsInOrder
    <2>2. h = g  BY <1>0
    <2> HIDE DEF g
    <2> QED BY <2>1, <2>2
  <1>2. PICK op \in Mutation : /\ Cur(b, r).phase = op /\ sent[<<r, book.run[r].cur, op>>] = 0
                               /\ sent' = [sent EXCEPT ![<<r, book.run[r].cur, op>>] = 1]
    BY <1>1
  <1>3. h[1] = r /\ h[2] = book.run[r].cur /\ book.run[r].cur \in Targets
    BY <1>0, CurrentSlot
  <1>4. \A s \in Slots : VerdictOn(s)' = VerdictOn(s)
    <2> TAKE s \in Slots
    <2>1. CASE s = h  BY <1>1, <2>1 DEF VerdictOn
    <2>2. CASE s # h  BY <1>1, <2>2 DEF VerdictOn
    <2> QED BY <2>1, <2>2
  <1>5. VerdictOn(h) = "open"  BY <1>1 DEF VerdictOn
  <1>6. \A x \in Runs \X Targets \X Mutation :
          sent'[x] = IF x = <<r, book.run[r].cur, op>> THEN 1 ELSE sent[x]
    BY <1>2, <1>3 DEF Counts
  <1>7. \A s \in Slots : /\ <<s[1], s[2], "Apply">> \in Runs \X Targets \X Mutation
                         /\ <<s[1], s[2], "Restore">> \in Runs \X Targets \X Mutation
                         /\ s = <<s[1], s[2]>>
    BY DEF Slots, Mutation
  <1>8. \A s \in Slots : s # h => DoneTo(s)' = DoneTo(s)
    <2> TAKE s \in Slots
    <2>1. CASE s # h
      <3>1. /\ sent'[<<s[1], s[2], "Apply">>] = sent[<<s[1], s[2], "Apply">>]
            /\ sent'[<<s[1], s[2], "Restore">>] = sent[<<s[1], s[2], "Restore">>]
        BY <1>0, <1>6, <1>7, <2>1
      <3> QED BY <3>1 DEF DoneTo
    <2> QED BY <2>1
  <1>9. /\ Tally(restart, disk.tgt[h], sent[<<r, book.run[r].cur, "Apply">>],
                 sent[<<r, book.run[r].cur, "Restore">>])
        /\ Tally(restart, b.tgt[h], sent[<<r, book.run[r].cur, "Apply">>],
                 sent[<<r, book.run[r].cur, "Restore">>])
    <2>1. Told(restart, b, sent)  BY DEF Follows
    <2> QED BY <1>0, <1>3, <2>1 DEF Told
  <1>10. Cur(b, r) = b.tgt[h]
    <2>1. b.run = disk.run /\ book = disk  BY SendsInOrder DEF Follows
    <2> QED BY <1>0, <2>1 DEF Cur
  <1>11. Ledger!Hosts = Slots  BY DEF Ledger!Hosts, Slots, Targets
  <1>12. CASE op = "Apply"
    <2>1. /\ sent[<<h[1], h[2], "Apply">>] = 0 /\ sent[<<h[1], h[2], "Restore">>] = 0
          /\ sent'[<<h[1], h[2], "Apply">>] = 1 /\ sent'[<<h[1], h[2], "Restore">>] = 0
      <3>1. sent[<<h[1], h[2], "Apply">>] = 0  BY <1>2, <1>3, <1>12
      <3>2. sent[<<h[1], h[2], "Restore">>] = 0
        BY <1>2, <1>3, <1>9, <1>10, <1>12 DEF Tally
      <3> QED BY <1>1, <1>3, <1>6, <1>7, <1>12, <3>1, <3>2
    <2>2. DoneTo(h) = "nothing" /\ DoneTo(h)' = "changed"  BY <2>1 DEF DoneTo
    <2>3. \A u \in Targets : u < h[2] => <<h[1], u>> \in Slots /\ VerdictOn(<<h[1], u>>) = "Passed"
      BY <1>1, <1>3 DEF VerdictOn, Slots, Settled
    <2>4. \A v \in Slots : ~(DoneTo(v) # "nothing" /\ VerdictOn(v) = "open")
      <3> TAKE v \in Slots
      <3>1. CASE v = h  BY <2>2, <3>1
      <3>2. CASE v # h
        <4>1. CASE disk.tgt[v].phase \in Settled
          <5>1. VerdictOn(v) = disk.tgt[v].phase /\ "open" \notin Settled
            BY <4>1 DEF VerdictOn, Settled
          <5> QED BY <4>1, <5>1
        <4>2. CASE disk.tgt[v].phase = "Capture"
          <5>1. sent[<<v[1], v[2], "Apply">>] = 0  BY <4>2, DoneIs DEF Tally
          <5> QED BY <5>1, DoneIs
        <4> QED BY <1>1, <3>2, <4>1, <4>2
      <3> QED BY <3>1, <3>2
    <2>5. D' = [D EXCEPT ![h] = "changed"] /\ V' = V
      BY <1>1, <1>4, <1>8, <2>2
    <2>6. Ledger!Change(h)
      BY <1>1, <1>5, <1>11, <2>2, <2>3, <2>4, <2>5
         DEF Ledger!Change, Ledger!InTheAir, Targets
    <2> QED BY <1>1, <1>11, <2>6 DEF Ledger!Next
  <1>13. CASE op = "Restore"
    <2>1. /\ sent[<<h[1], h[2], "Apply">>] = 1 /\ sent[<<h[1], h[2], "Restore">>] = 0
          /\ sent'[<<h[1], h[2], "Apply">>] = 1 /\ sent'[<<h[1], h[2], "Restore">>] = 1
      <3>1. sent[<<h[1], h[2], "Restore">>] = 0  BY <1>2, <1>3, <1>13
      <3>2. sent[<<h[1], h[2], "Apply">>] = 1
        BY <1>2, <1>3, <1>9, <1>10, <1>13 DEF Tally
      <3> QED BY <1>1, <1>3, <1>6, <1>7, <1>13, <3>1, <3>2
    <2>2. DoneTo(h) = "changed" /\ DoneTo(h)' = "undone"  BY <2>1 DEF DoneTo
    <2>3. D' = [D EXCEPT ![h] = "undone"] /\ V' = V
      BY <1>1, <1>4, <1>8, <2>2
    <2>4. Ledger!PutBack(h)
      BY <1>1, <1>5, <2>2, <2>3 DEF Ledger!PutBack
    <2> QED BY <1>1, <1>11, <2>4 DEF Ledger!Next
  <1> QED BY <1>12, <1>13 DEF Mutation

\* The engine implements the ledger: no host is changed or put back twice, out of order,
\* beside another, or after its verdict, and no verdict says what was not done.
THEOREM EngineImplementsLedger == Spec => ImplementsLedger
  <1>1. Init => Ledger!Init  BY LedgerInit
  <1>2. ASSUME RunInv, Truthful', [Next]_vars
        PROVE  [Ledger!Next]_(Ledger!ledger)
    <2>1. Effect  BY <1>2, NextStep
    <2>2. CASE sent' = sent
      BY <1>2, <2>1, <2>2, LedgerSettles DEF Ledger!Next
    <2>3. CASE sent' # sent
      BY <1>2, <2>1, <2>3, LedgerSends DEF Effect
    <2> QED BY <2>2, <2>3
  <1>3. RunInv /\ Truthful' /\ [Next]_vars => [Ledger!Next]_(Ledger!ledger)  BY <1>2
  <1> QED BY <1>1, <1>3, RunCorrect, VerdictsTell, PTL DEF Spec, ImplementsLedger, Ledger!Spec
===============================================================================
