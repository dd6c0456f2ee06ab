----------------------------- MODULE ChangeHistory -----------------------------
(***************************************************************************)
(* The change time machine: one file, registry value or ACL is changed or  *)
(* put back, and an encrypted entry per change says what was there.        *)
(*                                                                         *)
(*   src/src/change_history.rs             prepare, apply, restore, journal *)
(*   src/src/app/change_history_panel.rs   one job at a time per window     *)
(*                                                                         *)
(* A job writes its entry, starts a PowerShell worker on the target and    *)
(* writes the entry again once the worker answered.  The worker compares   *)
(* and replaces: files under an exclusive lock, registry values and ACLs   *)
(* not.  It may outlive the job that started it.  Windows of the program   *)
(* share the journal; nothing else connects them.                          *)
(***************************************************************************)
EXTENDS Naturals, FiniteSets

CONSTANTS
  Windows,       \* running copies of the program
  Changes,       \* ids of journal entries
  Contents,      \* what the target may hold
  Original,      \* what it holds at first
  Gone, Torn,    \* no file there; a file written in part
  Kinds,         \* what kinds of target there are: locked (a file), not locked
  EntryLimit,    \* ENTRY_LIMIT
  MaxTemps,      \* bound: crashes in the middle of a journal write
  MaxForeign,    \* bound: writes by somebody else
  HistoryFaults  \* which of these happen: "save", "kill", "late"

ASSUME HistoryAssumption ==
  /\ 0 \notin Changes /\ 0 \notin Windows  \* ids the code never hands out
  /\ Original \in Contents /\ Gone \notin Contents /\ Torn \notin Contents /\ Gone # Torn
  /\ IsFiniteSet(Windows) /\ EntryLimit \in Nat \ {0}
  /\ Kinds \subseteq BOOLEAN /\ MaxTemps \in Nat /\ MaxForeign \in Nat

VARIABLES
  locked,    \* the target is a file; a registry value or an ACL is not locked
  target,    \* the bytes at the path, the value or the SDDL
  entry,     \* the journal directory: <id>.dpapi
  temps,     \* how many interrupted <id>.<uuid>.tmp lie next to them
  listed,    \* ChangeHistoryState.entries of each window
  prepared,  \* ChangeHistoryState.prepared: the change under review
  change,    \* ChangeHistoryState.pending: the job of each window
  counting,  \* windows whose job counted the entries and has not written its own
  scripts,   \* workers that run
  foreign,   \* how often somebody else wrote
  author,    \* history: the change whose apply wrote the target last, if any
  overtaken  \* history: a worker outlived its job, or two windows met in a change

historyVars == <<locked, target, entry, temps, listed, prepared, change, counting, scripts,
                 foreign, author, overtaken>>
journal == <<entry, temps>>
panels  == <<listed, prepared, change, counting>>
around  == <<locked, foreign>>

Bytes    == Contents \cup {Gone, Torn}
Nothing  == [phase |-> "none", before |-> Gone, after |-> Gone]
NoChange == [id |-> 0, rec |-> Nothing]
Kept     == {e \in Changes : entry[e] # Nothing}
Free(w)  == change[w] = NoChange

\* No job is pending: neither one that changes the target nor one that is about to.
MayStart(w) == Free(w) /\ w \notin counting

-----------------------------------------------------------------------------
(* The journal.                                                            *)

\* Mutant: nobody counts the entries.
HasRoom_Always == TRUE

\* A new entry needs room, and interrupted writes take up room too.
HasRoom == Cardinality(Kept) + temps < EntryLimit

\* Mutant: the entry is written once the target has been changed.
Persist_Later(e, rec) ==
  /\ entry' = IF rec.phase = "Prepared" THEN entry ELSE [entry EXCEPT ![e] = rec]
  /\ UNCHANGED temps

\* The write at the end of persist(): what is there already is not counted, and what
\* is new was counted before (CountEntries).
Persist(e, rec) == entry' = [entry EXCEPT ![e] = rec] /\ UNCHANGED temps
PersistFails    == "save" \in HistoryFaults /\ UNCHANGED journal

\* load() looks at one file more than the limit, whatever file it is.
Looked == IF Cardinality(Kept) + temps > EntryLimit THEN EntryLimit + 1
          ELSE Cardinality(Kept) + temps

\* The files come in any order: what it does not look at is not listed.  Entries up to
\* the limit and yet another file are an error, which also ends the review.
LoadHistory(w) ==
  /\ MayStart(w)
  /\ \/ \E S \in SUBSET Kept :
          /\ Cardinality(S) <= EntryLimit
          /\ Cardinality(S) <= Looked /\ Cardinality(S) + temps >= Looked
          /\ listed' = [listed EXCEPT ![w] = [e \in Changes |-> IF e \in S THEN entry[e] ELSE Nothing]]
          /\ UNCHANGED prepared
     \/ /\ Cardinality(Kept) >= EntryLimit /\ Looked > EntryLimit
        /\ prepared' = [prepared EXCEPT ![w] = NoChange] /\ UNCHANGED listed
  /\ UNCHANGED <<target, journal, change, counting, scripts, around, author, overtaken>>

-----------------------------------------------------------------------------
(* The operator's buttons.                                                 *)

\* "Capture state and prepare comparison", under a fresh id.
PrepareChange(w, e, v) ==
  /\ MayStart(w) /\ target # Gone /\ v # target
  /\ e \notin Kept /\ \A u \in Windows : prepared[u].id # e
  /\ prepared' = [prepared EXCEPT ![w] =
                    [id |-> e, rec |-> [phase |-> "Prepared", before |-> target, after |-> v]]]
  /\ UNCHANGED <<target, journal, listed, change, counting, scripts, around, author, overtaken>>

Script(w, c, from, to) ==
  [by |-> w, id |-> c.id, from |-> from, to |-> to, undo |-> c.rec.phase # "Prepared",
   pc |-> "sent"]

\* "Save journal and apply reviewed change", up to the count: the target must not have
\* moved on, and there must be room; an error clears what was prepared.
CountEntries(w) ==
  LET c == prepared[w]
      fits == target = c.rec.before /\ HasRoom IN
  /\ MayStart(w) /\ c # NoChange
  /\ counting' = IF fits THEN counting \cup {w} ELSE counting
  /\ prepared' = IF fits THEN prepared ELSE [prepared EXCEPT ![w] = NoChange]
  /\ UNCHANGED <<target, journal, listed, change, scripts, around, author, overtaken>>

\* Then the entry is encrypted and written, whatever was written since the count (the
\* journal has no lock), and the worker starts.
BeginApply(w) ==
  LET c == prepared[w] IN
  /\ w \in counting /\ counting' = counting \ {w}
  /\ \/ /\ Persist(c.id, c.rec) /\ change' = [change EXCEPT ![w] = c]
        /\ scripts' = scripts \cup {Script(w, c, c.rec.before, c.rec.after)}
        /\ UNCHANGED prepared
     \/ /\ PersistFails
        /\ prepared' = [prepared EXCEPT ![w] = NoChange] /\ UNCHANGED <<change, scripts>>
  /\ UNCHANGED <<target, listed, around, author, overtaken>>

\* Mutant: a restore writes over whatever is there.
BeginRestore_Forced(w, e) ==
  LET rec == [listed[w][e] EXCEPT !.phase = "RestorePending"]
      c   == [id |-> e, rec |-> rec] IN
  /\ MayStart(w) /\ listed[w][e].phase \in {"Prepared", "Applied", "RestorePending"}
  /\ Persist(e, rec) /\ change' = [change EXCEPT ![w] = c]
  /\ scripts' = scripts \cup {Script(w, c, target, rec.before)}
  /\ UNCHANGED <<target, listed, prepared, counting, around, author, overtaken>>

\* "Restore if target content matches", with the entry as this window lists it.
BeginRestore(w, e) ==
  LET rec == [listed[w][e] EXCEPT !.phase = "RestorePending"]
      c   == [id |-> e, rec |-> rec] IN
  /\ MayStart(w) /\ listed[w][e].phase \in {"Prepared", "Applied", "RestorePending"}
  /\ overtaken' = (overtaken \/ \E u \in Windows : change[u].id = e)
  /\ UNCHANGED <<target, counting, around, author>>
  /\ \/ /\ target = rec.after \/ (locked /\ target = Gone)
        /\ Persist(e, rec) /\ change' = [change EXCEPT ![w] = c]
        /\ scripts' = scripts \cup {Script(w, c, target, rec.before)}
        /\ UNCHANGED <<listed, prepared>>
     \/ LET done == [rec EXCEPT !.phase = "Restored"] IN
        /\ target = rec.before /\ Persist(e, done)
        /\ listed' = [listed EXCEPT ![w][e] = done]
        /\ prepared' = [prepared EXCEPT ![w] = NoChange] /\ UNCHANGED <<change, scripts>>
     \/ /\ \/ PersistFails
           \/ UNCHANGED journal /\ target \notin {rec.after, rec.before}
              /\ ~(locked /\ target = Gone)
        /\ prepared' = [prepared EXCEPT ![w] = NoChange] /\ UNCHANGED <<listed, change, scripts>>

-----------------------------------------------------------------------------
(* The worker on the target.                                               *)

Becomes(s, pc) == scripts' = (scripts \ {s}) \cup {[s EXCEPT !.pc = pc]}
Alone(s)       == UNCHANGED <<journal, panels, around, overtaken>>

\* Compare, write and verify under the lock; CreateNew for a file that is gone.
ReplaceLocked(s) ==
  /\ locked /\ s.pc = "sent"
  /\ IF target = s.from
     THEN /\ target' = s.to /\ author' = IF s.undo THEN 0 ELSE s.id
          /\ Becomes(s, "done")
     ELSE Becomes(s, "refused") /\ UNCHANGED <<target, author>>
  /\ Alone(s)

CompareOpen(s) ==
  /\ ~locked /\ s.pc = "sent"
  /\ Becomes(s, IF target = s.from THEN "compared" ELSE "refused")
  /\ UNCHANGED <<target, author>> /\ Alone(s)
WriteOpen(s) ==
  /\ s.pc = "compared" /\ target' = s.to /\ author' = IF s.undo THEN 0 ELSE s.id
  /\ Becomes(s, "written") /\ Alone(s)
VerifyOpen(s) ==
  /\ s.pc = "written" /\ Becomes(s, IF target = s.to THEN "done" ELSE "refused")
  /\ UNCHANGED <<target, author>> /\ Alone(s)

-----------------------------------------------------------------------------
(* How a job ends.                                                         *)

Ended(w) == /\ change' = [change EXCEPT ![w] = NoChange] /\ counting' = counting \ {w}
            /\ prepared' = [prepared EXCEPT ![w] = NoChange]

\* The worker answered: the entry is settled, in the journal and in the list.
CompleteChange(w, s) ==
  LET c == change[w]
      settled == [c.rec EXCEPT !.phase = IF @ = "Prepared" THEN "Applied" ELSE "Restored"] IN
  /\ ~Free(w) /\ s.by = w /\ s.pc \in {"done", "refused"}
  /\ scripts' = scripts \ {s} /\ Ended(w)
  /\ \/ s.pc = "done" /\ Persist(c.id, settled) /\ listed' = [listed EXCEPT ![w][c.id] = settled]
     \/ (IF s.pc = "done" THEN PersistFails ELSE UNCHANGED journal) /\ UNCHANGED listed
  /\ UNCHANGED <<target, around, author, overtaken>>

\* What becomes of a worker whose job is given up: killed before it wrote, after
\* it wrote, in the middle of a file (torn bytes differ from all others: a torn
\* file is not torn again); or, out of reach, it goes on, one at a time.
Orphaned(s) ==
  \/ /\ scripts' = scripts \ {s} /\ UNCHANGED <<target, author, overtaken>>
  \/ /\ "kill" \in HistoryFaults /\ locked /\ s.pc = "sent" /\ target = s.from
     /\ Torn \notin {s.from, s.to} /\ target' = Torn /\ author' = IF s.undo THEN 0 ELSE s.id
     /\ scripts' = scripts \ {s} /\ UNCHANGED overtaken
  \/ /\ "late" \in HistoryFaults /\ \A t \in scripts : t.by # 0
     /\ scripts' = (scripts \ {s}) \cup {[s EXCEPT !.by = 0]}
     /\ overtaken' = TRUE /\ UNCHANGED <<target, author>>

\* Mutant: a job that ran out of time is taken for done.
AbandonChange_Settles(w, s) ==
  LET c == change[w]
      settled == [c.rec EXCEPT !.phase = IF @ = "Prepared" THEN "Applied" ELSE "Restored"] IN
  /\ ~Free(w) /\ s.by = w /\ Orphaned(s) /\ Ended(w) /\ Persist(c.id, settled)
  /\ UNCHANGED <<locked, listed, foreign>>

\* 120 seconds without an answer, or one that got lost.
AbandonChange(w, s) ==
  /\ ~Free(w) /\ s.by = w /\ Orphaned(s) /\ Ended(w)
  /\ UNCHANGED <<journal, listed, around>>

\* A window dies, perhaps while it writes an entry, and is opened again.
CrashHistory(w) ==
  /\ \/ Free(w) /\ UNCHANGED <<target, scripts, author, overtaken>>
     \/ ~Free(w) /\ \E s \in scripts : s.by = w /\ Orphaned(s)
  /\ \/ UNCHANGED temps
     \/ /\ temps < MaxTemps /\ temps' = temps + 1
        /\ \/ w \in counting
           \/ MayStart(w) /\ \E e \in Changes : listed[w][e].phase \notin {"none", "Restored"}
           \/ \E s \in scripts : s.by = w /\ s.pc = "done"
  /\ Ended(w) /\ listed' = [listed EXCEPT ![w] = [e \in Changes |-> Nothing]]
  /\ UNCHANGED <<entry, around>>

\* Another program writes or deletes the target.
Foreign(v) ==
  /\ foreign < MaxForeign /\ foreign' = foreign + 1 /\ v # target
  /\ target' = v /\ author' = 0
  /\ UNCHANGED <<locked, journal, panels, scripts, overtaken>>

HistoryInit ==
  /\ locked \in Kinds /\ target = Original /\ entry = [e \in Changes |-> Nothing] /\ temps = 0
  /\ listed = [w \in Windows |-> entry] /\ prepared = [w \in Windows |-> NoChange]
  /\ change = prepared /\ counting = {} /\ scripts = {} /\ foreign = 0 /\ author = 0 /\ overtaken = FALSE

Panel(w) ==
  \/ LoadHistory(w) \/ CountEntries(w) \/ BeginApply(w) \/ CrashHistory(w)
  \/ \E e \in Changes : BeginRestore(w, e) \/ (\E v \in Contents : PrepareChange(w, e, v))
  \/ \E s \in scripts : CompleteChange(w, s) \/ AbandonChange(w, s)
Worker(s) == ReplaceLocked(s) \/ CompareOpen(s) \/ WriteOpen(s) \/ VerifyOpen(s)

HistoryNext ==
  \/ \E w \in Windows : Panel(w)
  \/ \E s \in scripts : Worker(s)
  \/ \E v \in Contents \cup (IF locked THEN {Gone} ELSE {}) : Foreign(v)

HistorySpec == HistoryInit /\ [][HistoryNext]_historyVars

-----------------------------------------------------------------------------
(* Properties.                                                             *)

Records == [phase : {"none", "Prepared", "Applied", "RestorePending", "Restored"},
            before : Bytes, after : Bytes]
Jobs    == [id : Changes, rec : Records] \cup {NoChange}

\* The types the code gives its state.
HistoryTypeOK ==
  /\ locked \in Kinds /\ target \in Bytes /\ entry \in [Changes -> Records] /\ temps \in 0..MaxTemps
  /\ listed \in [Windows -> [Changes -> Records]]
  /\ prepared \in [Windows -> Jobs] /\ change \in [Windows -> Jobs] /\ counting \subseteq Windows
  /\ scripts \subseteq [by : Windows \cup {0}, id : Changes, from : Bytes, to : Bytes,
                        undo : BOOLEAN, pc : {"sent", "compared", "written", "done", "refused"}]
  /\ foreign \in 0..MaxForeign /\ author \in Changes \cup {0} /\ overtaken \in BOOLEAN

\* The limit is counted without a lock, so windows that count at the same time all write:
\* the journal may exceed its limit, by at most one entry for each other window, and
\* that however many changes they make.
OverrunIsBounded == Cardinality(Kept) < EntryLimit + Cardinality(Windows)

\* Write-ahead: content that a change put there can be put back.  Its entry is on
\* disk with the snapshot, however jobs, windows and workers died or raced.
UndoIsKept ==
  author # 0 =>
    author \in Kept /\ target \in {entry[author].after, Torn}

\* Unless a worker outlived its job or two windows met in one change, a change
\* that the journal calls restored is not what the target shows.
RestoredIsUndone ==
  \A e \in Changes : (entry[e].phase = "Restored" /\ ~overtaken) => author # e

Replaces == target' # target /\ foreign' = foreign

\* A file is never replaced by the program unless what is lost is in the journal:
\* foreign content that came in between is left alone.
LosesNothing ==
  [][(locked /\ Replaces) =>
       (target = Gone \/ \E e \in Kept : target \in {entry[e].before, entry[e].after})]_historyVars

================================================================================
