------------------------- MODULE SharedFiles_proofs -------------------------
(***************************************************************************)
(* Two components in which processes share files and no server arbitrates: *)
(* the change history (windows and workers, a journal and the target) and  *)
(* the recovery contracts (window and agent, one contract file and its     *)
(* journal).  The modules do not interact; the two sections are separate.  *)
(***************************************************************************)
EXTENDS ChangeHistory, RecoveryContracts, FiniteSetTheorems, WellFoundedInduction, TLAPS

-----------------------------------------------------------------------------
(***************************************************************************)
(* What the change time machine guarantees for any number of windows,      *)
(* changes and contents, with every fault: crashes in the middle of a      *)
(* journal write, failed saves, workers that are killed or outlive their   *)
(* job, and other programs that write the target.                          *)
(*                                                                         *)
(* Recorded says that whatever a window or a worker holds of a change, its *)
(* entry on disk says the same of what was there before and after; a job   *)
(* that applies a change finds no entry under its id.  Orderly says what   *)
(* holds as long as no worker outlives its job and no two windows meet in  *)
(* one change: a change belongs to one window and one worker.              *)
(***************************************************************************)

\* The entry of e is on disk and keeps the same snapshots as rec.
Backed(e, rec) ==
  e \in Kept /\ rec.before = entry[e].before /\ rec.after = entry[e].after

EntriesSound ==
  /\ IsFiniteSet(Kept)
  /\ \A e \in Kept :
       /\ entry[e].phase # "none" /\ entry[e].after \in Contents
       /\ entry[e].before # entry[e].after

CountsSound == \A w \in counting : Free(w) /\ prepared[w] # NoChange

PanelsSound ==
  /\ \A w \in Windows, e \in Changes :
       listed[w][e].phase # "none" => Backed(e, listed[w][e])
  /\ \A w \in Windows : ~Free(w) =>
       /\ change[w].rec.phase \in {"Prepared", "RestorePending"}
       /\ Backed(change[w].id, change[w].rec)
  /\ \A w \in Windows : prepared[w] # NoChange =>
       /\ prepared[w].rec.phase = "Prepared" /\ prepared[w].rec.after \in Contents
       /\ prepared[w].rec.before # prepared[w].rec.after
       /\ prepared[w].id \in Kept => change[w] = prepared[w]
  /\ \A u, w \in Windows : (prepared[w] # NoChange /\ prepared[u].id = prepared[w].id) => u = w
  /\ CountsSound

ScriptsSound ==
  \A s \in scripts :
    /\ s.id \in Kept /\ (s.pc \in {"compared", "written"} => ~locked)
    /\ IF s.undo THEN s.to = entry[s.id].before /\ s.from \in {entry[s.id].after, Gone}
                 ELSE s.from = entry[s.id].before /\ s.to = entry[s.id].after

\* What an apply left at the target is what it was to write, or a torn file.
AuthorSound ==
  author # 0 =>
    /\ author \in Kept
    /\ \/ target = entry[author].after
       \/ target = Torn /\ entry[author].before # Torn

Recorded == EntriesSound /\ PanelsSound /\ ScriptsSound /\ AuthorSound

Orderly ==
  ~overtaken =>
    /\ \A s \in scripts :
         /\ s.by \in Windows /\ ~Free(s.by) /\ change[s.by].id = s.id
         /\ s.undo <=> change[s.by].rec.phase # "Prepared"
         /\ (s.undo /\ s.pc \in {"written", "done"}) => author # s.id
    /\ \A s, t \in scripts : s.by = t.by => s = t
    /\ \A u, w \in Windows : (~Free(w) /\ change[u].id = change[w].id) => u = w
    /\ \A w \in Windows : (~Free(w) /\ change[w].rec.phase = "Prepared") =>
         entry[change[w].id].phase = "Prepared"
    /\ RestoredIsUndone

HistoryInv == HistoryTypeOK /\ Recorded /\ Orderly
ScriptType ==
  [by : Windows \cup {0}, id : Changes, from : Bytes, to : Bytes, undo : BOOLEAN,
   pc : {"sent", "compared", "written", "done", "refused"}]

-----------------------------------------------------------------------------
(* The journal only grows: what an entry says of before and after stays.   *)

EntryGrows ==
  /\ entry' \in [Changes -> Records] /\ EntriesSound'
  /\ \A e \in Kept : /\ e \in Kept' /\ entry'[e].before = entry[e].before
                     /\ entry'[e].after = entry[e].after

LEMMA EntryStays == HistoryTypeOK /\ EntriesSound /\ UNCHANGED entry => EntryGrows
  BY DEF EntryGrows, EntriesSound, HistoryTypeOK, Kept

LEMMA EntryPersists ==
  ASSUME HistoryTypeOK, EntriesSound, NEW e \in Changes, NEW rec \in Records, Persist(e, rec),
         rec.phase # "none", rec.after \in Contents, rec.before # rec.after,
         e \in Kept => Backed(e, rec)
  PROVE  /\ EntryGrows /\ entry'[e] = rec /\ Kept' = Kept \cup {e} /\ e \in Kept'
         /\ \A f \in Changes : f # e => entry'[f] = entry[f]
         /\ \A f \in Kept' : f # e => f \in Kept
<1>1. /\ entry' \in [Changes -> Records] /\ entry'[e] = rec
      /\ \A f \in Changes : f # e => entry'[f] = entry[f]
  BY DEF Persist, HistoryTypeOK
<1>2. Kept' = Kept \cup {e}
  BY <1>1 DEF Kept, Nothing
<1>3. IsFiniteSet(Kept')
  BY <1>2, FS_AddElement DEF EntriesSound
<1>4. \A f \in Kept : entry'[f].before = entry[f].before /\ entry'[f].after = entry[f].after
  BY <1>1 DEF Backed, Kept
<1>5. \A f \in Kept' : /\ entry'[f].phase # "none" /\ entry'[f].after \in Contents
                       /\ entry'[f].before # entry'[f].after
  BY <1>1, <1>2 DEF EntriesSound, Kept
<1> QED
  BY <1>1, <1>2, <1>3, <1>4, <1>5 DEF EntryGrows, EntriesSound

\* What was backed by an entry still is.
LEMMA BackedStays ==
  ASSUME EntryGrows, NEW e, NEW rec, Backed(e, rec)
  PROVE  e \in Kept' /\ rec.before = entry'[e].before /\ rec.after = entry'[e].after
  BY DEF EntryGrows, Backed

\* Scripts that go on, with or without their job, remain sound.
Onward(s, t) ==
  /\ s.id = t.id /\ s.from = t.from /\ s.to = t.to /\ s.undo = t.undo
  /\ s.pc = t.pc \/ s.pc \notin {"compared", "written"} \/ ~locked

LEMMA ScriptsStay ==
  ASSUME ScriptsSound, EntryGrows, locked' = locked,
         \A s \in scripts' : \E t \in scripts : Onward(s, t)
  PROVE  ScriptsSound'
<1> SUFFICES ASSUME NEW s \in scripts'
             PROVE  /\ s.id \in Kept' /\ (s.pc \in {"compared", "written"} => ~locked')
                    /\ IF s.undo
                       THEN s.to = entry'[s.id].before /\ s.from \in {entry'[s.id].after, Gone}
                       ELSE s.from = entry'[s.id].before /\ s.to = entry'[s.id].after
  BY DEF ScriptsSound
<1>1. PICK t \in scripts : Onward(s, t)
  OBVIOUS
<1>2. t.id \in Kept /\ (t.pc \in {"compared", "written"} => ~locked)
  BY DEF ScriptsSound
<1>3. entry'[t.id].before = entry[t.id].before /\ entry'[t.id].after = entry[t.id].after
      /\ t.id \in Kept'
  BY <1>2 DEF EntryGrows
<1> QED
  BY <1>1, <1>2, <1>3 DEF Onward, ScriptsSound
LEMMA ScriptAdded ==
  ASSUME ScriptsSound, EntryGrows, locked' = locked, NEW s, scripts' = scripts \cup {s},
         s.id \in Kept', s.pc = "sent",
         IF s.undo THEN s.to = entry'[s.id].before /\ s.from \in {entry'[s.id].after, Gone}
                   ELSE s.from = entry'[s.id].before /\ s.to = entry'[s.id].after
  PROVE  ScriptsSound'
<1>1. ASSUME NEW t \in scripts
      PROVE  /\ t.id \in Kept' /\ (t.pc \in {"compared", "written"} => ~locked')
             /\ IF t.undo THEN t.to = entry'[t.id].before /\ t.from \in {entry'[t.id].after, Gone}
                          ELSE t.from = entry'[t.id].before /\ t.to = entry'[t.id].after
  <2>1. t.id \in Kept
    BY DEF ScriptsSound
  <2>2. t.id \in Kept' /\ entry'[t.id].before = entry[t.id].before
        /\ entry'[t.id].after = entry[t.id].after
    BY <2>1 DEF EntryGrows
  <2> QED
    BY <2>2 DEF ScriptsSound
<1> QED
  BY <1>1 DEF ScriptsSound

-----------------------------------------------------------------------------
(* Recorded, action by action.                                             *)

LEMMA JobFacts ==
  ASSUME HistoryTypeOK, NEW w \in Windows
  PROVE  /\ ~Free(w) => change[w].id \in Changes /\ change[w].rec \in Records
         /\ prepared[w] # NoChange => prepared[w].id \in Changes /\ prepared[w].rec \in Records
         /\ NoChange.id = 0 /\ NoChange \in Jobs /\ Nothing \in Records
  BY DEF HistoryTypeOK, Jobs, Free, NoChange, Nothing, Records, Bytes

LEMMA PhaseChange ==
  ASSUME NEW rec \in Records, NEW p \in {"Applied", "RestorePending", "Restored"}
  PROVE  /\ [rec EXCEPT !.phase = p] \in Records /\ [rec EXCEPT !.phase = p].phase = p
         /\ [rec EXCEPT !.phase = p].before = rec.before
         /\ [rec EXCEPT !.phase = p].after = rec.after
  BY DEF Records

\* PanelsSound after a step, from what the step does to the panels.
LEMMA PanelsStay ==
  ASSUME PanelsSound, EntryGrows,
         \A w \in Windows, e \in Changes : listed'[w][e].phase # "none" =>
            listed'[w][e] = listed[w][e] \/ Backed(e, listed[w][e])',
         \A w \in Windows : \/ change'[w] = change[w] \/ change'[w] = NoChange
                            \/ /\ change'[w].rec.phase \in {"Prepared", "RestorePending"}
                               /\ Backed(change[w].id, change[w].rec)',
         \A w \in Windows : prepared'[w] = prepared[w] \/ prepared'[w] = NoChange,
         \A w \in Windows : (prepared'[w] # NoChange /\ prepared'[w].id \in Kept') =>
                               change'[w] = prepared'[w],
         \A w \in counting' : /\ w \in counting
                              /\ change'[w] = change[w] /\ prepared'[w] = prepared[w],
         HistoryTypeOK
  PROVE  PanelsSound'
<1>1. ASSUME NEW w \in Windows, NEW e \in Changes, listed'[w][e].phase # "none"
      PROVE  Backed(e, listed[w][e])'
  <2>1. CASE listed'[w][e] = listed[w][e]
    <3>1. Backed(e, listed[w][e])
      BY <1>1, <2>1 DEF PanelsSound, CountsSound
    <3> QED
      BY <2>1, <3>1, BackedStays DEF Backed
  <2> QED
    BY <1>1, <2>1
<1>2. ASSUME NEW w \in Windows, Free(w)' = FALSE
      PROVE  /\ change'[w].rec.phase \in {"Prepared", "RestorePending"}
             /\ Backed(change[w].id, change[w].rec)'
  <2>1. change'[w] # NoChange
    BY <1>2 DEF Free
  <2>2. CASE change'[w] = change[w]
    <3>1. /\ change[w].rec.phase \in {"Prepared", "RestorePending"}
          /\ Backed(change[w].id, change[w].rec)
      BY <2>1, <2>2 DEF PanelsSound, CountsSound, Free
    <3> QED
      BY <2>2, <3>1, BackedStays DEF Backed
  <2> QED
    BY <2>1, <2>2
<1>3. ASSUME NEW w \in Windows, prepared'[w] # NoChange
      PROVE  /\ prepared'[w].rec.phase = "Prepared" /\ prepared'[w].rec.after \in Contents
             /\ prepared'[w].rec.before # prepared'[w].rec.after
             /\ prepared'[w].id \in Kept' => change'[w] = prepared'[w]
  BY <1>3 DEF PanelsSound, CountsSound
<1>4. ASSUME NEW u \in Windows, NEW w \in Windows,
             prepared'[w] # NoChange, prepared'[u].id = prepared'[w].id
      PROVE  u = w
  <2>1. prepared[w] = prepared'[w] /\ prepared[w].id # 0
    BY <1>4, JobFacts, HistoryAssumption
  <2>2. prepared'[u] # NoChange
    BY <1>4, <2>1, JobFacts
  <2> QED
    BY <1>4, <2>1, <2>2 DEF PanelsSound, CountsSound
<1>5. CountsSound'
  BY DEF PanelsSound, CountsSound, Free
<1> QED
  BY <1>1, <1>2, <1>3, <1>4, <1>5 DEF PanelsSound, Free

LEMMA AuthorStays ==
  ASSUME AuthorSound, EntryGrows, UNCHANGED <<target, author>>
  PROVE  AuthorSound'
  BY DEF AuthorSound, EntryGrows

LEMMA LoadRecorded ==
  ASSUME HistoryTypeOK, Recorded, NEW w \in Windows, LoadHistory(w)
  PROVE  HistoryTypeOK' /\ Recorded'
<1> USE DEF Recorded
<1>1. EntryGrows
  BY EntryStays DEF LoadHistory, journal
<1>2. ScriptsSound' /\ AuthorSound'
  BY <1>1, ScriptsStay, AuthorStays DEF LoadHistory, around, Onward
<1>3. UNCHANGED <<change, counting, Kept, entry, temps>> /\ w \notin counting
  BY DEF LoadHistory, Kept, journal, MayStart
<1>4. CASE \E S \in SUBSET Kept :
             /\ listed' = [listed EXCEPT ![w] = [e \in Changes |-> IF e \in S THEN entry[e] ELSE Nothing]]
             /\ UNCHANGED prepared
  <2>1. PICK S \in SUBSET Kept :
          listed' = [listed EXCEPT ![w] = [e \in Changes |-> IF e \in S THEN entry[e] ELSE Nothing]]
    BY <1>4
  <2>2. \A e \in Changes : listed'[w][e] = (IF e \in S THEN entry[e] ELSE Nothing)
        /\ \A u \in Windows \ {w} : listed'[u] = listed[u]
    BY <2>1 DEF HistoryTypeOK
  <2>3. ASSUME NEW u \in Windows, NEW e \in Changes, listed'[u][e].phase # "none"
        PROVE  listed'[u][e] = listed[u][e] \/ Backed(e, listed[u][e])'
    BY <1>3, <2>2, <2>3 DEF Backed, Nothing, Kept
  <2>4. PanelsSound'
    BY <1>1, <1>3, <1>4, <2>3, PanelsStay DEF PanelsSound, CountsSound
  <2>5. [e \in Changes |-> IF e \in S THEN entry[e] ELSE Nothing] \in [Changes -> Records]
    BY JobFacts DEF HistoryTypeOK
  <2>6. HistoryTypeOK'
    BY <1>3, <1>4, <2>1, <2>5 DEF HistoryTypeOK, LoadHistory, journal, around, Kept
  <2> QED
    BY <1>1, <1>2, <2>4, <2>6 DEF EntryGrows
<1>5. CASE prepared' = [prepared EXCEPT ![w] = NoChange] /\ UNCHANGED listed
  <2>1. prepared'[w] = NoChange /\ \A u \in Windows \ {w} : prepared'[u] = prepared[u]
    BY <1>5 DEF HistoryTypeOK
  <2>2. \A u \in Windows : (prepared'[u] # NoChange /\ prepared'[u].id \in Kept') =>
                              change'[u] = prepared'[u]
    BY <1>3, <2>1 DEF PanelsSound, CountsSound
  <2>3. PanelsSound'
    BY <1>1, <1>3, <1>5, <2>1, <2>2, PanelsStay DEF HistoryTypeOK
  <2>4. HistoryTypeOK'
    BY <1>3, <1>5, JobFacts DEF HistoryTypeOK, LoadHistory, journal, around, Kept
  <2> QED
    BY <1>1, <1>2, <2>3, <2>4 DEF EntryGrows
<1> QED
  BY <1>4, <1>5 DEF LoadHistory

LEMMA PrepareRecorded ==
  ASSUME HistoryTypeOK, Recorded, NEW w \in Windows, NEW e \in Changes, NEW v \in Contents,
         PrepareChange(w, e, v)
  PROVE  HistoryTypeOK' /\ Recorded'
<1> USE DEF Recorded
<1>1. EntryGrows
  BY EntryStays DEF PrepareChange, journal
<1>2. ScriptsSound' /\ AuthorSound'
  BY <1>1, ScriptsStay, AuthorStays DEF PrepareChange, around, Onward
<1> DEFINE c == [id |-> e, rec |-> [phase |-> "Prepared", before |-> target, after |-> v]]
<1>3. /\ prepared' = [prepared EXCEPT ![w] = c] /\ UNCHANGED <<listed, change, counting, Kept, entry>>
      /\ w \notin counting /\ e \notin Kept /\ v # target /\ \A u \in Windows : prepared[u].id # e
  BY DEF PrepareChange, Kept, journal, MayStart
<1>4. c \in Jobs
  BY DEF Jobs, Records, HistoryTypeOK, Bytes
<1>5. prepared'[w] = c /\ \A u \in Windows \ {w} : prepared'[u] = prepared[u]
  BY <1>3 DEF HistoryTypeOK
<1>6. PanelsSound'
  BY <1>3, <1>5 DEF PanelsSound, CountsSound, Free, Backed, HistoryTypeOK
<1>7. HistoryTypeOK'
  BY <1>3, <1>4 DEF HistoryTypeOK, PrepareChange, journal, around
<1> QED
  BY <1>1, <1>2, <1>6, <1>7 DEF EntryGrows

LEMMA CountRecorded ==
  ASSUME HistoryTypeOK, Recorded, NEW w \in Windows, CountEntries(w)
  PROVE  HistoryTypeOK' /\ Recorded'
<1> USE DEF Recorded
<1>1. /\ UNCHANGED <<target, entry, temps, listed, change, scripts, locked, foreign, author, overtaken, Kept>>
      /\ Free(w) /\ prepared[w] # NoChange /\ EntryGrows
  BY EntryStays DEF CountEntries, MayStart, journal, around, Kept
<1>2. ScriptsSound' /\ AuthorSound'
  BY <1>1, ScriptsStay, AuthorStays DEF Onward
<1>3. CASE counting' = counting \cup {w} /\ UNCHANGED prepared
  BY <1>1, <1>2, <1>3 DEF HistoryTypeOK, PanelsSound, CountsSound, Free, Backed, EntryGrows
<1>4. CASE prepared' = [prepared EXCEPT ![w] = NoChange] /\ UNCHANGED counting
  <2>1. prepared'[w] = NoChange /\ \A u \in Windows \ {w} : prepared'[u] = prepared[u]
    BY <1>4 DEF HistoryTypeOK
  <2>2. \A u \in Windows : (prepared'[u] # NoChange /\ prepared'[u].id \in Kept') =>
                              change'[u] = prepared'[u]
    BY <1>1, <2>1 DEF PanelsSound, CountsSound
  <2>3. w \notin counting
    BY DEF CountEntries, MayStart
  <2>4. PanelsSound'
    BY <1>1, <1>4, <2>1, <2>2, <2>3, PanelsStay DEF HistoryTypeOK
  <2>5. HistoryTypeOK'
    BY <1>1, <1>4, JobFacts DEF HistoryTypeOK
  <2> QED
    BY <1>1, <1>2, <2>4, <2>5 DEF EntryGrows
<1> QED
  BY <1>3, <1>4 DEF CountEntries

\* A job that applies a change is the first to write its entry.
LEMMA ApplyRecorded ==
  ASSUME HistoryTypeOK, Recorded, NEW w \in Windows, BeginApply(w)
  PROVE  HistoryTypeOK' /\ Recorded'
<1> USE DEF Recorded
<1> DEFINE c == prepared[w]
           s == Script(w, c, c.rec.before, c.rec.after)
<1>1. /\ c # NoChange /\ c.id \in Changes /\ c.rec \in Records /\ c.rec.phase = "Prepared"
      /\ c.rec.after \in Contents /\ c.rec.before # c.rec.after /\ c.id \notin Kept
      /\ c \in Jobs /\ change[w] = NoChange /\ w \in counting /\ counting' = counting \ {w}
      /\ UNCHANGED <<target, listed, locked, foreign, author, overtaken>>
  BY JobFacts DEF BeginApply, PanelsSound, CountsSound, Free, around, HistoryTypeOK
<1>2. ASSUME Persist(c.id, c.rec), change' = [change EXCEPT ![w] = c], scripts' = scripts \cup {s},
             prepared' = prepared
      PROVE  HistoryTypeOK' /\ Recorded'
  <2>1. /\ EntryGrows /\ entry'[c.id] = c.rec /\ c.id \in Kept'
        /\ \A f \in Changes : f # c.id => entry'[f] = entry[f]
        /\ \A f \in Kept' : f # c.id => f \in Kept
    BY <1>1, <1>2, EntryPersists
  <2>2. s \in ScriptType /\ s.id = c.id /\ s.pc = "sent" /\ ~s.undo
        /\ s.from = c.rec.before /\ s.to = c.rec.after
    BY <1>1 DEF Script, ScriptType, Records
  <2>3. ScriptsSound'
    BY <1>1, <1>2, <2>1, <2>2, ScriptAdded
  <2>4. change'[w] = c /\ \A u \in Windows \ {w} : change'[u] = change[u]
    BY <1>2 DEF HistoryTypeOK
  <2>5. \A u \in Windows : (prepared[u] # NoChange /\ prepared[u].id \in Kept') =>
                              change'[u] = prepared[u]
    BY <2>1, <2>4 DEF PanelsSound, CountsSound
  <2>6. PanelsSound'
    <3>1. Backed(c.id, c.rec)'
      BY <1>2, <2>1 DEF Backed
    <3>2. Backed(change[w].id, change[w].rec)'
      BY <1>2, <2>1, <2>4 DEF Backed
    <3> QED
      BY <1>1, <1>2, <2>1, <2>4, <2>5, <3>2, PanelsStay
  <2>7. HistoryTypeOK'
    BY <1>1, <1>2, <2>1, <2>2 DEF HistoryTypeOK, Persist, EntryGrows, ScriptType
  <2> QED
    BY <1>1, <2>1, <2>3, <2>6, <2>7, AuthorStays DEF EntryGrows
<1>3. ASSUME UNCHANGED <<entry, temps, change, scripts>>,
             prepared' = [prepared EXCEPT ![w] = NoChange]
      PROVE  HistoryTypeOK' /\ Recorded'
  <2>1. EntryGrows /\ UNCHANGED Kept
    BY <1>3, EntryStays DEF Kept
  <2>2. ScriptsSound' /\ AuthorSound'
    BY <1>1, <1>3, <2>1, ScriptsStay, AuthorStays DEF Onward
  <2>3. prepared'[w] = NoChange /\ \A u \in Windows \ {w} : prepared'[u] = prepared[u]
    BY <1>3 DEF HistoryTypeOK
  <2>4. \A u \in Windows : (prepared'[u] # NoChange /\ prepared'[u].id \in Kept') =>
                              change'[u] = prepared'[u]
    BY <1>3, <2>1, <2>3 DEF PanelsSound, CountsSound
  <2>5. PanelsSound'
    BY <1>1, <1>3, <2>1, <2>3, <2>4, PanelsStay
  <2>6. HistoryTypeOK'
    BY <1>1, <1>3, <2>1, JobFacts DEF HistoryTypeOK
  <2> QED
    BY <2>1, <2>2, <2>5, <2>6 DEF EntryGrows
<1> QED
  BY <1>2, <1>3 DEF BeginApply, PersistFails, journal
\* A restore goes by the entry as this window lists it, which says what disk says.
LEMMA RestoreRecorded ==
  ASSUME HistoryTypeOK, Recorded, NEW w \in Windows, NEW e \in Changes, BeginRestore(w, e)
  PROVE  HistoryTypeOK' /\ Recorded'
<1> USE DEF Recorded
<1> DEFINE rec  == [listed[w][e] EXCEPT !.phase = "RestorePending"]
           done == [rec EXCEPT !.phase = "Restored"]
           c    == [id |-> e, rec |-> rec]
           s    == Script(w, c, target, rec.before)
<1>1. /\ Free(w) /\ Backed(e, listed[w][e]) /\ listed[w][e] \in Records
      /\ UNCHANGED counting /\ w \notin counting
      /\ UNCHANGED <<target, locked, foreign, author>> /\ overtaken' \in BOOLEAN
  BY DEF BeginRestore, MayStart, PanelsSound, CountsSound, HistoryTypeOK, around
<1>2. /\ rec \in Records /\ rec.phase = "RestorePending" /\ Backed(e, rec)
      /\ rec.before # rec.after /\ rec.after \in Contents
  <2>1. /\ rec \in Records /\ rec.phase = "RestorePending"
        /\ rec.before = listed[w][e].before /\ rec.after = listed[w][e].after
    BY <1>1, PhaseChange
  <2> HIDE DEF rec
  <2> QED
    BY <1>1, <2>1 DEF Backed, EntriesSound
<1>3. /\ done \in Records /\ done.phase = "Restored" /\ Backed(e, done)
      /\ done.before # done.after /\ done.after \in Contents
  BY <1>2, PhaseChange DEF Backed
<1>4. ASSUME NEW r \in {rec, done}, Persist(e, r)
      PROVE  /\ EntryGrows /\ entry'[e] = r /\ e \in Kept' /\ Kept' = Kept
             /\ UNCHANGED temps
  <2>1. /\ EntryGrows /\ entry'[e] = r /\ e \in Kept'
        /\ \A f \in Kept' : f # e => f \in Kept
    BY <1>2, <1>3, <1>4, EntryPersists
  <2> QED
    BY <1>1, <1>4, <2>1 DEF Backed, EntryGrows, Persist
<1>5. ASSUME target = rec.after \/ (locked /\ target = Gone), Persist(e, rec),
             change' = [change EXCEPT ![w] = c], scripts' = scripts \cup {s},
             UNCHANGED <<listed, prepared>>
      PROVE  HistoryTypeOK' /\ Recorded'
  <2>1. /\ EntryGrows /\ entry'[e] = rec /\ e \in Kept' /\ Kept' = Kept /\ UNCHANGED temps
    BY <1>4, <1>5
  <2>2. s \in ScriptType /\ s.id = e /\ s.pc = "sent" /\ s.undo
        /\ s.from = target /\ s.to = rec.before
    BY <1>2 DEF Script, ScriptType, Records, HistoryTypeOK
  <2>3. ScriptsSound'
    <3>1. rec.before = entry'[e].before /\ target \in {entry'[e].after, Gone}
      BY <1>5, <2>1
    <3> HIDE DEF s
    <3> QED
      BY <1>1, <1>5, <2>1, <2>2, <3>1, ScriptAdded
  <2>4. change'[w] = c /\ \A u \in Windows \ {w} : change'[u] = change[u]
    BY <1>5 DEF HistoryTypeOK
  <2>5. PanelsSound'
    <3>1. \A u \in Windows : (prepared[u] # NoChange /\ prepared[u].id \in Kept') =>
                                change'[u] = prepared[u]
      BY <1>1, <2>1, <2>4 DEF PanelsSound, Free
    <3>2. Backed(change[w].id, change[w].rec)'
      BY <2>1, <2>4 DEF Backed
    <3>3. \A u \in counting' : /\ u \in counting
                                /\ change'[u] = change[u] /\ prepared'[u] = prepared[u]
      BY <1>1, <1>5, <2>4 DEF HistoryTypeOK
    <3> QED
      BY <1>2, <1>5, <2>1, <2>4, <3>1, <3>2, <3>3, PanelsStay
  <2>6. HistoryTypeOK'
    <3>1. c \in Jobs
      BY <1>2 DEF Jobs
    <3> QED
      BY <1>1, <1>5, <2>1, <2>2, <3>1 DEF HistoryTypeOK, EntryGrows, ScriptType
  <2> QED
    BY <1>1, <2>1, <2>3, <2>5, <2>6, AuthorStays DEF EntryGrows
<1>6. ASSUME \/ Persist(e, done) /\ listed' = [listed EXCEPT ![w][e] = done]
             \/ UNCHANGED <<entry, temps, listed>>,
             prepared' = [prepared EXCEPT ![w] = NoChange], UNCHANGED <<change, scripts>>
      PROVE  HistoryTypeOK' /\ Recorded'
  <2>1. EntryGrows /\ Kept' = Kept /\ UNCHANGED temps
    BY <1>4, <1>6, EntryStays DEF Kept
  <2>2. ScriptsSound' /\ AuthorSound'
    BY <1>1, <1>6, <2>1, ScriptsStay, AuthorStays DEF Onward
  <2>3. prepared'[w] = NoChange /\ \A u \in Windows \ {w} : prepared'[u] = prepared[u]
    BY <1>6 DEF HistoryTypeOK
  <2>4. listed' \in [Windows -> [Changes -> Records]]
        /\ \A u \in Windows, f \in Changes :
             listed'[u][f] = listed[u][f] \/ Backed(f, listed[u][f])'
    <3>1. CASE Persist(e, done) /\ listed' = [listed EXCEPT ![w][e] = done]
      <4>1. entry'[e] = done /\ e \in Kept'
        BY <1>4, <3>1
      <4>2. /\ \A u \in Windows \ {w} : listed'[u] = listed[u]
            /\ \A f \in Changes : listed'[w][f] = IF f = e THEN done ELSE listed[w][f]
        BY <3>1 DEF HistoryTypeOK
      <4> QED
        BY <1>3, <3>1, <4>1, <4>2 DEF HistoryTypeOK, Backed
    <3>2. CASE UNCHANGED listed
      BY <3>2 DEF HistoryTypeOK
    <3> QED
      BY <1>6, <3>1, <3>2
  <2>5. PanelsSound'
    <3>1. \A u \in Windows : (prepared'[u] # NoChange /\ prepared'[u].id \in Kept') =>
                                change'[u] = prepared'[u]
      BY <1>6, <2>1, <2>3 DEF PanelsSound
    <3>2. \A u \in counting' : /\ u \in counting
                                /\ change'[u] = change[u] /\ prepared'[u] = prepared[u]
      BY <1>1, <1>6, <2>3 DEF HistoryTypeOK
    <3> QED
      BY <1>6, <2>1, <2>3, <2>4, <3>1, <3>2, PanelsStay
  <2>6. HistoryTypeOK'
    BY <1>1, <1>6, <2>1, <2>4, JobFacts DEF HistoryTypeOK, EntryGrows
  <2> QED
    BY <2>1, <2>2, <2>5, <2>6 DEF EntryGrows
<1> QED
  BY <1>5, <1>6 DEF BeginRestore, PersistFails, journal

-----------------------------------------------------------------------------
(* The worker, and how jobs end.                                           *)

\* Who wrote the target last wrote what its entry says.
LEMMA WriteRecorded ==
  ASSUME HistoryTypeOK, Recorded, NEW s \in scripts, target' = s.to,
         author' = IF s.undo THEN 0 ELSE s.id, UNCHANGED entry
  PROVE  target' \in Bytes /\ author' \in Changes \cup {0} /\ AuthorSound'
<1>1. s \in ScriptType /\ s.id \in Kept /\ s.id \in Changes
  BY DEF Recorded, ScriptsSound, HistoryTypeOK, ScriptType
<1>2. ~s.undo => s.to = entry[s.id].after
  BY DEF Recorded, ScriptsSound
<1> QED
  BY <1>1, <1>2 DEF AuthorSound, ScriptType, Kept

LEMMA WorkerRecorded ==
  ASSUME HistoryTypeOK, Recorded, NEW s \in scripts, Worker(s)
  PROVE  HistoryTypeOK' /\ Recorded'
<1> USE DEF Recorded
<1>1. s \in ScriptType /\ scripts \subseteq ScriptType
  BY DEF HistoryTypeOK, ScriptType
<1>2. UNCHANGED <<entry, temps, listed, prepared, change, counting, locked, foreign, overtaken>>
  BY DEF Worker, ReplaceLocked, CompareOpen, WriteOpen, VerifyOpen, Alone, journal, panels, around
<1>3. EntryGrows /\ UNCHANGED Kept
  BY <1>2, EntryStays DEF Kept
<1>4. PanelsSound'
  BY <1>2, <1>3 DEF PanelsSound, CountsSound, Free, Backed
<1>5. ASSUME NEW pc \in {"compared", "written", "done", "refused"}, Becomes(s, pc),
             pc \in {"compared", "written"} => ~locked
      PROVE  ScriptsSound' /\ scripts' \subseteq ScriptType
  <2> DEFINE t == [s EXCEPT !.pc = pc]
  <2>1. t \in ScriptType /\ Onward(t, s)
    BY <1>1, <1>5 DEF ScriptType, Onward
  <2>2. \A r \in scripts' : \E q \in scripts : Onward(r, q)
    BY <1>5, <2>1 DEF Becomes, Onward
  <2> QED
    BY <1>1, <1>2, <1>3, <1>5, <2>1, <2>2, ScriptsStay DEF Becomes
<1>6. ScriptsSound' /\ scripts' \subseteq ScriptType
  <2>1. s.pc \in {"compared", "written"} => ~locked
    BY DEF ScriptsSound
  <2> QED
    BY <1>5, <2>1 DEF Worker, ReplaceLocked, CompareOpen, WriteOpen, VerifyOpen
<1>7. target' \in Bytes /\ author' \in Changes \cup {0} /\ AuthorSound'
  <2>1. CASE target' = s.to /\ author' = IF s.undo THEN 0 ELSE s.id
    BY <1>2, <2>1, WriteRecorded
  <2>2. CASE UNCHANGED <<target, author>>
    BY <1>3, <2>2, AuthorStays DEF HistoryTypeOK
  <2> QED
    BY <2>1, <2>2 DEF Worker, ReplaceLocked, CompareOpen, WriteOpen, VerifyOpen
<1>8. HistoryTypeOK'
  BY <1>2, <1>3, <1>6, <1>7 DEF HistoryTypeOK, ScriptType, Kept
<1> QED
  BY <1>3, <1>4, <1>6, <1>7, <1>8 DEF EntryGrows

LEMMA ForeignRecorded ==
  ASSUME HistoryTypeOK, Recorded, NEW v \in Contents \cup {Gone}, Foreign(v)
  PROVE  HistoryTypeOK' /\ Recorded'
<1> USE DEF Recorded
<1>1. UNCHANGED <<entry, temps, listed, prepared, change, counting, locked, scripts, overtaken>>
      /\ target' = v /\ author' = 0 /\ foreign' \in 0..MaxForeign
  BY HistoryAssumption DEF Foreign, journal, panels, HistoryTypeOK
<1>2. UNCHANGED Kept
  BY <1>1 DEF Kept
<1> QED
  BY <1>1, <1>2 DEF HistoryTypeOK, Bytes, EntriesSound, PanelsSound, CountsSound, Free, Backed, ScriptsSound,
                    AuthorSound
\* A worker given up on is gone, has torn a file it was to overwrite, or goes on.
LEMMA OrphanRecorded ==
  ASSUME HistoryTypeOK, Recorded, NEW s \in scripts, Orphaned(s),
         UNCHANGED <<entry, locked>>
  PROVE  /\ ScriptsSound' /\ scripts' \subseteq ScriptType /\ AuthorSound'
         /\ target' \in Bytes /\ author' \in Changes \cup {0} /\ overtaken' \in BOOLEAN
<1> USE DEF Recorded
<1>1. s \in ScriptType /\ scripts \subseteq ScriptType /\ EntryGrows /\ UNCHANGED Kept
  BY EntryStays DEF HistoryTypeOK, ScriptType, Kept
<1>2. s.id \in Kept /\ (~s.undo => s.from = entry[s.id].before)
  BY DEF ScriptsSound
<1>3. [s EXCEPT !.by = 0] \in ScriptType /\ Onward([s EXCEPT !.by = 0], s)
  BY <1>1 DEF ScriptType, Onward
<1>4. /\ \A r \in scripts' : \E q \in scripts : Onward(r, q)
      /\ scripts' \subseteq ScriptType
  BY <1>1, <1>3 DEF Orphaned, Onward
<1>5. CASE UNCHANGED <<target, author>>
  BY <1>1, <1>4, <1>5, ScriptsStay, AuthorStays DEF Orphaned, HistoryTypeOK
<1>6. CASE Torn # s.from /\ target' = Torn /\ author' = IF s.undo THEN 0 ELSE s.id
  BY <1>1, <1>2, <1>4, <1>6, ScriptsStay DEF Orphaned, HistoryTypeOK, AuthorSound, Bytes, ScriptType
<1> QED
  BY <1>5, <1>6 DEF Orphaned

\* A job that is over leaves what its window still lists, and nothing to apply.
LEMMA EndedPanels ==
  ASSUME HistoryTypeOK, Recorded, EntryGrows, Kept' = Kept, NEW w \in Windows, Ended(w),
         \A u \in Windows, e \in Changes : listed'[u][e].phase # "none" =>
            listed'[u][e] = listed[u][e] \/ Backed(e, listed[u][e])'
  PROVE  PanelsSound' /\ change' \in [Windows -> Jobs] /\ prepared' \in [Windows -> Jobs]
         /\ counting' \subseteq Windows
<1>1. /\ change'[w] = NoChange /\ prepared'[w] = NoChange
      /\ \A u \in Windows \ {w} : change'[u] = change[u] /\ prepared'[u] = prepared[u]
  BY DEF Ended, HistoryTypeOK
<1>2. \A u \in Windows : (prepared'[u] # NoChange /\ prepared'[u].id \in Kept') =>
                            change'[u] = prepared'[u]
  BY <1>1 DEF Recorded, PanelsSound, CountsSound
<1> QED
  BY <1>1, <1>2, PanelsStay, JobFacts DEF Ended, HistoryTypeOK, Recorded

LEMMA CompleteRecorded ==
  ASSUME HistoryTypeOK, Recorded, NEW w \in Windows, NEW s \in scripts, CompleteChange(w, s)
  PROVE  HistoryTypeOK' /\ Recorded'
<1> USE DEF Recorded
<1> DEFINE c == change[w]
           settled == [c.rec EXCEPT !.phase = IF @ = "Prepared" THEN "Applied" ELSE "Restored"]
<1>1. /\ c.id \in Changes /\ c.rec \in Records /\ Backed(c.id, c.rec) /\ Ended(w)
      /\ scripts' = scripts \ {s} /\ UNCHANGED <<target, locked, foreign, author, overtaken>>
  BY JobFacts DEF CompleteChange, PanelsSound, CountsSound, around
<1>2. /\ settled \in Records /\ settled.phase # "none" /\ Backed(c.id, settled)
      /\ settled.before # settled.after /\ settled.after \in Contents
  <2>1. /\ settled \in Records /\ settled.phase # "none"
        /\ settled.before = c.rec.before /\ settled.after = c.rec.after
    BY <1>1 DEF Records
  <2> HIDE DEF settled
  <2> QED
    BY <1>1, <2>1 DEF Backed, EntriesSound
<1> HIDE DEF settled
<1>3. CASE Persist(c.id, settled) /\ listed' = [listed EXCEPT ![w][c.id] = settled]
  <2>1. EntryGrows /\ Kept' = Kept /\ UNCHANGED temps /\ entry'[c.id] = settled
    <3>1. /\ EntryGrows /\ entry'[c.id] = settled
          /\ \A f \in Kept' : f # c.id => f \in Kept
      BY <1>1, <1>2, <1>3, EntryPersists
    <3> QED
      BY <1>1, <1>3, <3>1 DEF Backed, EntryGrows, Persist
  <2>2. /\ \A u \in Windows \ {w} : listed'[u] = listed[u]
        /\ \A f \in Changes : listed'[w][f] = IF f = c.id THEN settled ELSE listed[w][f]
        /\ listed' \in [Windows -> [Changes -> Records]]
    BY <1>1, <1>2, <1>3 DEF HistoryTypeOK
  <2>3. \A u \in Windows, e \in Changes :
          listed'[u][e] = listed[u][e] \/ Backed(e, listed[u][e])'
    BY <1>1, <2>1, <2>2 DEF Backed
  <2> QED
    BY <1>1, <2>1, <2>2, <2>3, EndedPanels, ScriptsStay, AuthorStays
       DEF HistoryTypeOK, EntryGrows, Onward
<1>4. CASE UNCHANGED <<entry, temps, listed>>
  <2>1. EntryGrows /\ UNCHANGED Kept
    BY <1>4, EntryStays DEF Kept
  <2> QED
    BY <1>1, <1>4, <2>1, EndedPanels, ScriptsStay, AuthorStays
       DEF HistoryTypeOK, EntryGrows, Onward
<1> QED
  BY <1>3, <1>4 DEF CompleteChange, PersistFails, journal, settled

LEMMA AbandonRecorded ==
  ASSUME HistoryTypeOK, Recorded, NEW w \in Windows, NEW s \in scripts, AbandonChange(w, s)
  PROVE  HistoryTypeOK' /\ Recorded'
<1>1. UNCHANGED <<entry, temps, listed, locked, foreign>> /\ Orphaned(s) /\ Ended(w)
  BY DEF AbandonChange, journal, around
<1>2. EntryGrows /\ UNCHANGED Kept
  BY <1>1, EntryStays DEF Kept, Recorded
<1>3. PanelsSound' /\ change' \in [Windows -> Jobs] /\ prepared' \in [Windows -> Jobs]
      /\ counting' \subseteq Windows
  BY <1>1, <1>2, EndedPanels
<1>4. /\ ScriptsSound' /\ scripts' \subseteq ScriptType /\ AuthorSound'
      /\ target' \in Bytes /\ author' \in Changes \cup {0} /\ overtaken' \in BOOLEAN
  BY <1>1, OrphanRecorded
<1> QED
  BY <1>1, <1>2, <1>3, <1>4 DEF HistoryTypeOK, Recorded, EntryGrows, ScriptType

LEMMA CrashRecorded ==
  ASSUME HistoryTypeOK, Recorded, NEW w \in Windows, CrashHistory(w)
  PROVE  HistoryTypeOK' /\ Recorded'
<1>1. /\ UNCHANGED <<entry, locked, foreign>> /\ Ended(w) /\ temps' \in 0..MaxTemps
      /\ listed' = [listed EXCEPT ![w] = [e \in Changes |-> Nothing]]
  BY HistoryAssumption DEF CrashHistory, around, HistoryTypeOK
<1>2. EntryGrows /\ UNCHANGED Kept
  BY <1>1, EntryStays DEF Kept, Recorded
<1>3. /\ listed' \in [Windows -> [Changes -> Records]]
      /\ \A u \in Windows, e \in Changes : listed'[u][e].phase # "none" => listed'[u][e] = listed[u][e]
  BY <1>1, JobFacts DEF HistoryTypeOK, Nothing
<1>4. PanelsSound' /\ change' \in [Windows -> Jobs] /\ prepared' \in [Windows -> Jobs]
      /\ counting' \subseteq Windows
  BY <1>1, <1>2, <1>3, EndedPanels
<1>5. /\ ScriptsSound' /\ scripts' \subseteq ScriptType /\ AuthorSound'
      /\ target' \in Bytes /\ author' \in Changes \cup {0} /\ overtaken' \in BOOLEAN
  <2>1. CASE UNCHANGED <<target, scripts, author, overtaken>>
    BY <1>1, <1>2, <2>1, ScriptsStay, AuthorStays DEF HistoryTypeOK, Recorded, ScriptType, Onward
  <2>2. CASE \E s \in scripts : s.by = w /\ Orphaned(s)
    BY <1>1, <2>2, OrphanRecorded
  <2> QED
    BY <2>1, <2>2 DEF CrashHistory
<1> QED
  BY <1>1, <1>2, <1>3, <1>4, <1>5 DEF HistoryTypeOK, Recorded, EntryGrows, ScriptType

-----------------------------------------------------------------------------
(* What holds always.                                                      *)

LEMMA RecordedInit == HistoryInit => HistoryTypeOK /\ Recorded
<1> SUFFICES ASSUME HistoryInit PROVE HistoryTypeOK /\ Recorded
  OBVIOUS
<1>1. Kept = {} /\ IsFiniteSet(Kept) /\ Cardinality(Kept) = 0
  BY FS_EmptySet DEF HistoryInit, Kept
<1>2. HistoryTypeOK
  <2>1. NoChange \in Jobs /\ Nothing \in Records
    BY DEF NoChange, Jobs, Nothing, Records, Bytes
  <2>2. entry \in [Changes -> Records] /\ listed \in [Windows -> [Changes -> Records]]
    BY <2>1 DEF HistoryInit
  <2>3. prepared \in [Windows -> Jobs] /\ change \in [Windows -> Jobs]
    BY <2>1 DEF HistoryInit
  <2>4. temps \in 0..MaxTemps /\ foreign \in 0..MaxForeign /\ counting \subseteq Windows
    BY <1>1, HistoryAssumption DEF HistoryInit
  <2> QED
    BY <2>2, <2>3, <2>4, HistoryAssumption DEF HistoryInit, HistoryTypeOK, Bytes
<1>3. Recorded
  BY <1>1, HistoryAssumption
     DEF HistoryInit, Recorded, EntriesSound, PanelsSound, CountsSound, ScriptsSound, AuthorSound, Nothing, Free
<1> QED
  BY <1>2, <1>3

LEMMA RecordedStep == HistoryTypeOK /\ Recorded /\ [HistoryNext]_historyVars => HistoryTypeOK' /\ Recorded'
<1> SUFFICES ASSUME HistoryTypeOK, Recorded, [HistoryNext]_historyVars
             PROVE  HistoryTypeOK' /\ Recorded'
  OBVIOUS
<1>1. CASE UNCHANGED historyVars
  BY <1>1 DEF historyVars, HistoryTypeOK, Recorded, EntriesSound, PanelsSound, CountsSound, ScriptsSound,
              AuthorSound, Free, Backed, Kept
<1>2. ASSUME NEW w \in Windows, Panel(w)
      PROVE  HistoryTypeOK' /\ Recorded'
  BY <1>2, LoadRecorded, CountRecorded, ApplyRecorded, CrashRecorded, RestoreRecorded, PrepareRecorded,
     CompleteRecorded, AbandonRecorded DEF Panel
<1> QED
  BY <1>1, <1>2, WorkerRecorded, ForeignRecorded DEF HistoryNext

\* Every window counts at most one entry that it has yet to write.
Overrun == Cardinality(Kept) + Cardinality(counting) < EntryLimit + Cardinality(Windows)

LEMMA OverrunInit == HistoryInit => Overrun
<1> SUFFICES ASSUME HistoryInit
             PROVE  Overrun
  OBVIOUS
<1>1. Kept = {} /\ counting = {}
  BY DEF HistoryInit, Kept
<1>2. Cardinality(Kept) = 0 /\ Cardinality(counting) = 0
  BY <1>1, FS_EmptySet
<1>3. Cardinality(Windows) \in Nat /\ EntryLimit \in Nat \ {0}
  BY FS_CardinalityType, HistoryAssumption
<1> QED
  BY <1>2, <1>3 DEF Overrun

LEMMA OneMore ==
  ASSUME NEW S, IsFiniteSet(S), NEW x
  PROVE  /\ IsFiniteSet(S \cup {x}) /\ Cardinality(S \cup {x}) \in Nat
         /\ Cardinality(S \cup {x}) <= Cardinality(S) + 1
<1>1. Cardinality(S) \in Nat
  BY FS_CardinalityType
<1>2. /\ IsFiniteSet(S \cup {x})
      /\ Cardinality(S \cup {x}) = Cardinality(S) \/ Cardinality(S \cup {x}) = Cardinality(S) + 1
  BY FS_AddElement, Zenon
<1> QED
  BY <1>1, <1>2

\* Only what was counted adds an entry, and a count finds room for it.
LEMMA OverrunStep ==
  ASSUME HistoryTypeOK, Recorded, Overrun, [HistoryNext]_historyVars
  PROVE  Overrun'
<1> USE DEF Recorded
<1>1. /\ IsFiniteSet(Kept) /\ IsFiniteSet(counting) /\ Cardinality(counting) <= Cardinality(Windows)
      /\ Cardinality(Kept) \in Nat /\ Cardinality(counting) \in Nat /\ Cardinality(Windows) \in Nat
      /\ EntryLimit \in Nat
  BY FS_Subset, FS_CardinalityType, HistoryAssumption DEF EntriesSound, HistoryTypeOK
<1>2. ASSUME Kept' = Kept, counting' \subseteq counting
      PROVE  Overrun'
  BY <1>1, <1>2, FS_Subset, FS_CardinalityType DEF Overrun
<1>3. ASSUME NEW w \in Windows, CountEntries(w)
      PROVE  Overrun'
  <2>1. Kept' = Kept
    BY <1>3 DEF CountEntries, Kept, journal
  <2>2. CASE counting' = counting
    BY <1>2, <2>1, <2>2
  <2>3. CASE HasRoom /\ counting' = counting \cup {w}
    <3>1. Cardinality(counting') <= Cardinality(Windows) /\ Cardinality(counting') \in Nat
      BY <2>3, FS_Subset, FS_CardinalityType, HistoryAssumption DEF HistoryTypeOK
    <3>2. Cardinality(Kept) < EntryLimit
      BY <1>1, <2>3, HistoryAssumption DEF HasRoom, HistoryTypeOK
    <3> QED
      BY <1>1, <2>1, <3>1, <3>2 DEF Overrun
  <2> QED
    BY <1>3, <2>2, <2>3 DEF CountEntries
<1>4. ASSUME NEW w \in Windows, BeginApply(w)
      PROVE  Overrun'
  <2>1. w \in counting /\ counting' = counting \ {w} /\ prepared[w].id \in Changes
    BY <1>4, JobFacts DEF BeginApply, PanelsSound, CountsSound
  <2>2. CASE Persist(prepared[w].id, prepared[w].rec)
    <3>1. Kept' \subseteq Kept \cup {prepared[w].id}
      BY <2>1, <2>2 DEF Persist, Kept, HistoryTypeOK
    <3>2. /\ IsFiniteSet(Kept \cup {prepared[w].id})
          /\ Cardinality(Kept \cup {prepared[w].id}) <= Cardinality(Kept) + 1
          /\ Cardinality(Kept \cup {prepared[w].id}) \in Nat
      BY <1>1, OneMore
    <3>3. Cardinality(Kept') <= Cardinality(Kept) + 1 /\ Cardinality(Kept') \in Nat
      BY <1>1, <3>1, <3>2, FS_Subset, FS_CardinalityType
    <3>4. Cardinality(counting') = Cardinality(counting) - 1
      BY <1>1, <2>1, FS_RemoveElement
    <3> QED
      BY <1>1, <3>3, <3>4 DEF Overrun
  <2>3. CASE UNCHANGED entry
    BY <1>2, <2>1, <2>3 DEF Kept
  <2> QED
    BY <1>4, <2>2, <2>3 DEF BeginApply, PersistFails, journal
<1>5. ASSUME NEW e \in Kept, NEW rec \in Records, rec.phase # "none", Persist(e, rec)
      PROVE  Kept' = Kept
  BY <1>5 DEF Persist, Kept, HistoryTypeOK, Nothing
<1>6. ASSUME NEW w \in Windows, NEW e \in Changes, BeginRestore(w, e)
      PROVE  Overrun'
  <2> DEFINE rec  == [listed[w][e] EXCEPT !.phase = "RestorePending"]
             done == [rec EXCEPT !.phase = "Restored"]
  <2>1. e \in Kept /\ listed[w][e] \in Records /\ counting' = counting
    BY <1>6 DEF BeginRestore, PanelsSound, CountsSound, Backed, HistoryTypeOK
  <2>2. rec \in Records /\ rec.phase # "none" /\ done \in Records /\ done.phase # "none"
    BY <2>1, PhaseChange
  <2>3. Persist(e, rec) \/ Persist(e, done) \/ UNCHANGED entry
    BY <1>6 DEF BeginRestore, PersistFails, journal
  <2> HIDE DEF rec, done
  <2>4. Kept' = Kept
    BY <1>5, <2>1, <2>2, <2>3 DEF Kept
  <2> QED
    BY <1>2, <2>1, <2>4
<1>7. ASSUME NEW w \in Windows, NEW s \in scripts, CompleteChange(w, s)
      PROVE  Overrun'
  <2> DEFINE c == change[w]
             settled == [c.rec EXCEPT !.phase = IF @ = "Prepared" THEN "Applied" ELSE "Restored"]
  <2>1. c.id \in Kept /\ c.rec \in Records /\ counting' = counting \ {w}
    BY <1>7, JobFacts DEF CompleteChange, Ended, PanelsSound, CountsSound, Backed
  <2>2. settled \in Records /\ settled.phase # "none"
    BY <2>1 DEF Records
  <2>3. Persist(c.id, settled) \/ UNCHANGED entry
    BY <1>7 DEF CompleteChange, PersistFails, journal
  <2> HIDE DEF settled
  <2>4. Kept' = Kept
    BY <1>5, <2>1, <2>2, <2>3 DEF Kept
  <2> QED
    BY <1>2, <2>1, <2>4
<1>8. ASSUME UNCHANGED entry, counting' \subseteq counting
      PROVE  Overrun'
  BY <1>2, <1>8 DEF Kept
<1>9. ASSUME NEW w \in Windows, Panel(w)
      PROVE  Overrun'
  BY <1>3, <1>4, <1>6, <1>7, <1>8, <1>9
     DEF Panel, LoadHistory, PrepareChange, CrashHistory, AbandonChange, Ended, journal
<1>10. ASSUME NEW s \in scripts, Worker(s)
       PROVE  Overrun'
  BY <1>8, <1>10 DEF Worker, ReplaceLocked, CompareOpen, WriteOpen, VerifyOpen, Alone, journal, panels
<1> QED
  BY <1>8, <1>9, <1>10 DEF HistoryNext, Foreign, historyVars, journal, panels

\* The journal exceeds its limit by at most one entry for every other window, whatever
\* the windows do and however often they crash (OverrunIsBounded): a window counts
\* before it writes, and writes one entry for each count.
THEOREM OverrunAlwaysBounded == HistorySpec => []OverrunIsBounded
<1>1. HistoryTypeOK /\ Recorded /\ Overrun => OverrunIsBounded
  <2> SUFFICES ASSUME HistoryTypeOK, Recorded, Overrun
               PROVE  OverrunIsBounded
    OBVIOUS
  <2>1. /\ Cardinality(Kept) \in Nat /\ Cardinality(counting) \in Nat
        /\ Cardinality(Windows) \in Nat /\ EntryLimit \in Nat
    BY FS_Subset, FS_CardinalityType, HistoryAssumption DEF Recorded, EntriesSound, HistoryTypeOK
  <2> QED
    BY <2>1 DEF Overrun, OverrunIsBounded
<1>2. HistoryTypeOK /\ Recorded /\ Overrun /\ [HistoryNext]_historyVars => Overrun'
  BY OverrunStep
<1> QED
  BY <1>1, <1>2, OverrunInit, RecordedInit, RecordedStep, PTL DEF HistorySpec

\* The snapshot to go back to is on disk whenever a change shows at the target
\* (UndoIsKept): prepare and begin_apply write it before the worker starts.
THEOREM UndoAlwaysKept == HistorySpec => []UndoIsKept
<1>1. Recorded => UndoIsKept
  BY DEF Recorded, AuthorSound, UndoIsKept
<1> QED
  BY <1>1, RecordedInit, RecordedStep, PTL DEF HistorySpec

LEMMA ReplacedIsKept ==
  ASSUME HistoryTypeOK, Recorded, [HistoryNext]_historyVars, locked, Replaces
  PROVE  target = Gone \/ \E e \in Kept : target \in {entry[e].before, entry[e].after}
<1>1. ASSUME NEW s \in scripts, target = s.from
      PROVE  target = Gone \/ \E e \in Kept : target \in {entry[e].before, entry[e].after}
  BY <1>1 DEF Recorded, ScriptsSound
<1>2. ASSUME NEW s \in scripts, Orphaned(s)
      PROVE  target = Gone \/ \E e \in Kept : target \in {entry[e].before, entry[e].after}
  BY <1>1, <1>2 DEF Orphaned, Replaces
<1>3. ASSUME NEW s \in scripts, Worker(s)
      PROVE  target = Gone \/ \E e \in Kept : target \in {entry[e].before, entry[e].after}
  <2>1. s.pc # "compared"
    BY DEF Recorded, ScriptsSound
  <2> QED
    BY <1>1, <1>3, <2>1 DEF Worker, ReplaceLocked, CompareOpen, WriteOpen, VerifyOpen, Replaces
<1>4. ASSUME NEW w \in Windows, Panel(w)
      PROVE  target = Gone \/ \E e \in Kept : target \in {entry[e].before, entry[e].after}
  <2>1. target' # target
    BY DEF Replaces
  <2>2. ~CountEntries(w) /\ ~LoadHistory(w) /\ ~BeginApply(w)
    BY <2>1 DEF CountEntries, LoadHistory, BeginApply
  <2>3. \A e \in Changes : ~BeginRestore(w, e) /\ \A v \in Contents : ~PrepareChange(w, e, v)
    BY <2>1 DEF BeginRestore, PrepareChange
  <2>4. \E s \in scripts : Orphaned(s)
    BY <1>4, <2>1, <2>2, <2>3 DEF Panel, CrashHistory, CompleteChange, AbandonChange
  <2> QED
    BY <1>2, <2>4
<1>5. ASSUME NEW v, Foreign(v)
      PROVE  FALSE
  BY <1>5 DEF Foreign, Replaces, HistoryTypeOK
<1> QED
  BY <1>3, <1>4, <1>5 DEF HistoryNext, historyVars, Replaces

\* A file's content is replaced only when the journal holds it (LosesNothing): the
\* worker compares under the lock with a snapshot that was saved before.
THEOREM NothingIsLost == HistorySpec => LosesNothing
<1>1. HistoryTypeOK /\ Recorded /\ [HistoryNext]_historyVars =>
        ((locked /\ Replaces) =>
           (target = Gone \/ \E e \in Kept : target \in {entry[e].before, entry[e].after}))
  BY ReplacedIsKept
<1> QED
  BY <1>1, RecordedInit, RecordedStep, PTL DEF HistorySpec, LosesNothing
-----------------------------------------------------------------------------
(* What holds as long as nobody was overtaken.                             *)

\* Who works on a change, and where it stands, stay as they are.
LEMMA OrderlyStays ==
  ASSUME Orderly, UNCHANGED <<scripts, entry, author>>, overtaken => overtaken',
         \A w \in Windows : change'[w] = change[w]
  PROVE  Orderly'
  BY DEF Orderly, Free, RestoredIsUndone

LEMMA ApplyOrderly ==
  ASSUME HistoryInv, NEW w \in Windows, BeginApply(w)
  PROVE  Orderly'
<1> USE DEF HistoryInv, Recorded
<1> DEFINE c == prepared[w]
           s == Script(w, c, c.rec.before, c.rec.after)
<1>1. ASSUME Persist(c.id, c.rec), change' = [change EXCEPT ![w] = c], scripts' = scripts \cup {s},
             ~overtaken
      PROVE  Orderly'
  <2>1. /\ c.id \in Changes /\ c.rec.phase = "Prepared" /\ c.id \notin Kept /\ c # NoChange
        /\ Free(w) /\ UNCHANGED <<author, overtaken>>
    BY JobFacts DEF BeginApply, HistoryTypeOK, PanelsSound, CountsSound, Free
  <2>2. /\ change'[w] = c /\ \A u \in Windows \ {w} : change'[u] = change[u]
        /\ entry'[c.id] = c.rec /\ \A e \in Changes : e # c.id => entry'[e] = entry[e]
    BY <1>1, <2>1 DEF HistoryTypeOK, Persist
  <2>3. author # c.id /\ \A t \in scripts : t.id # c.id /\ t.by # w /\ t.by \in Windows
    BY <1>1, <2>1, HistoryAssumption DEF AuthorSound, ScriptsSound, Orderly
  <2>4. \A u \in Windows : u # w => change[u].id # c.id
    BY <2>1, JobFacts, HistoryAssumption DEF PanelsSound, CountsSound, Backed, Free
  <2>5. s.by = w /\ s.id = c.id /\ ~s.undo /\ s.pc = "sent"
    BY <2>1 DEF Script
  <2> HIDE DEF s
  <2>6. \A t \in scripts' :
          /\ t.by \in Windows /\ ~Free(t.by)' /\ change'[t.by].id = t.id
          /\ t.undo <=> change'[t.by].rec.phase # "Prepared"
          /\ (t.undo /\ t.pc \in {"written", "done"}) => author' # t.id
    BY <1>1, <2>1, <2>2, <2>3, <2>5 DEF Orderly, Free
  <2>7. \A t, r \in scripts' : t.by = r.by => t = r
    BY <1>1, <2>3, <2>5 DEF Orderly
  <2>8. /\ \A u, v \in Windows : (~Free(v)' /\ change'[u].id = change'[v].id) => u = v
        /\ \A u \in Windows : (~Free(u)' /\ change'[u].rec.phase = "Prepared") =>
             entry'[change'[u].id].phase = "Prepared"
    <3>1. \A u \in Windows : ~Free(u) => change[u].id \in Changes
      BY JobFacts
    <3> QED
      BY <1>1, <2>1, <2>2, <2>4, <3>1 DEF Orderly, Free
  <2>9. RestoredIsUndone'
    BY <1>1, <2>1, <2>2 DEF Orderly, RestoredIsUndone
  <2> QED
    BY <2>6, <2>7, <2>8, <2>9 DEF Orderly
<1>2. CASE UNCHANGED <<entry, change, scripts, author, overtaken>>
  BY <1>2, OrderlyStays
<1>3. overtaken => Orderly'
  BY DEF BeginApply, Orderly
<1> QED
  BY <1>1, <1>2, <1>3 DEF BeginApply, PersistFails, journal

LEMMA RestoreOrderly ==
  ASSUME HistoryInv, NEW w \in Windows, NEW e \in Changes, BeginRestore(w, e)
  PROVE  Orderly'
<1> USE DEF HistoryInv, Recorded
<1> DEFINE rec  == [listed[w][e] EXCEPT !.phase = "RestorePending"]
           done == [rec EXCEPT !.phase = "Restored"]
           c    == [id |-> e, rec |-> rec]
           s    == Script(w, c, target, rec.before)
<1>1. SUFFICES ASSUME ~overtaken' PROVE Orderly'
  BY DEF Orderly
<1>2. /\ ~overtaken /\ Free(w) /\ author' = author /\ Backed(e, listed[w][e])
      /\ \A u \in Windows : change[u].id # e
  BY <1>1 DEF BeginRestore, MayStart, PanelsSound, CountsSound
<1>3. \A t \in scripts : t.id # e /\ t.by # w /\ t.by \in Windows
  BY <1>2 DEF Orderly
<1>4. rec.phase = "RestorePending" /\ done.phase = "Restored" /\ rec.before = entry[e].before
  BY <1>2 DEF Backed, HistoryTypeOK, Records
<1>5. CASE /\ Persist(e, rec) /\ change' = [change EXCEPT ![w] = c]
           /\ scripts' = scripts \cup {s}
  <2>1. /\ change'[w] = c /\ \A u \in Windows \ {w} : change'[u] = change[u]
        /\ entry'[e] = rec /\ \A f \in Changes : f # e => entry'[f] = entry[f]
    BY <1>5 DEF HistoryTypeOK, Persist
  <2>2. s.by = w /\ s.id = e /\ s.undo /\ s.pc = "sent" /\ c.id = e /\ c.rec.phase = "RestorePending"
        /\ c # NoChange
    BY <1>4, HistoryAssumption DEF Script, NoChange
  <2> HIDE DEF s, c, rec
  <2>3. \A t \in scripts' :
          /\ t.by \in Windows /\ ~Free(t.by)' /\ change'[t.by].id = t.id
          /\ t.undo <=> change'[t.by].rec.phase # "Prepared"
          /\ (t.undo /\ t.pc \in {"written", "done"}) => author' # t.id
    BY <1>2, <1>3, <1>5, <2>1, <2>2 DEF Orderly, Free
  <2>4. \A t, r \in scripts' : t.by = r.by => t = r
    BY <1>2, <1>3, <1>5, <2>2 DEF Orderly
  <2>5. /\ \A u, v \in Windows : (~Free(v)' /\ change'[u].id = change'[v].id) => u = v
        /\ \A u \in Windows : (~Free(u)' /\ change'[u].rec.phase = "Prepared") =>
             entry'[change'[u].id].phase = "Prepared"
    <3>1. \A u \in Windows : ~Free(u) => change[u].id \in Changes
      BY JobFacts
    <3> QED
      BY <1>2, <2>1, <2>2, <3>1 DEF Orderly, Free
  <2>6. RestoredIsUndone'
    BY <1>2, <1>4, <2>1 DEF Orderly, RestoredIsUndone
  <2> QED
    BY <2>3, <2>4, <2>5, <2>6 DEF Orderly
<1>6. CASE target = rec.before /\ Persist(e, done) /\ UNCHANGED <<change, scripts>>
  <2>1. entry'[e] = done /\ \A f \in Changes : f # e => entry'[f] = entry[f]
    BY <1>6 DEF HistoryTypeOK, Persist
  <2>2. author # e
    <3>1. e \in Kept /\ target = entry[e].before
      BY <1>2, <1>4, <1>6 DEF Backed
    <3> QED
      BY <3>1, HistoryAssumption DEF AuthorSound, EntriesSound
  <2>3. \A u \in Windows : ~Free(u) => change[u].id \in Changes
    BY JobFacts
  <2> HIDE DEF rec, done
  <2>4. RestoredIsUndone'
    BY <1>2, <2>1, <2>2 DEF Orderly, RestoredIsUndone
  <2> QED
    BY <1>2, <1>6, <2>1, <2>3, <2>4 DEF Orderly, Free
<1>7. CASE UNCHANGED <<entry, change, scripts>>
  BY <1>2, <1>7, OrderlyStays
<1> QED
  BY <1>5, <1>6, <1>7 DEF BeginRestore, PersistFails, journal

LEMMA WorkerOrderly ==
  ASSUME HistoryInv, NEW s \in scripts, Worker(s)
  PROVE  Orderly'
<1> USE DEF HistoryInv, Recorded
<1>1. UNCHANGED <<entry, change, overtaken>>
  BY DEF Worker, ReplaceLocked, CompareOpen, WriteOpen, VerifyOpen, Alone, journal, panels
<1>2. SUFFICES ASSUME ~overtaken PROVE Orderly'
  BY <1>1 DEF Orderly
<1>3. ASSUME NEW pc \in {"compared", "written", "done", "refused"}, Becomes(s, pc),
             \/ author' = IF s.undo THEN 0 ELSE s.id
             \/ author' = author /\ (pc \notin {"written", "done"} \/ s.pc = "written")
      PROVE  Orderly'
  <2> DEFINE t == [s EXCEPT !.pc = pc]
  <2>1. /\ t.by = s.by /\ t.id = s.id /\ t.undo = s.undo /\ t.pc = pc
        /\ s.id \in Changes /\ s.id # 0
    BY HistoryAssumption DEF HistoryTypeOK
  <2>2. scripts' = (scripts \ {s}) \cup {t}
    BY <1>3 DEF Becomes
  <2> HIDE DEF t
  <2>3. \A r \in scripts \ {s} : r.by # s.by /\ r.id # s.id /\ r.id \in Changes
    BY <1>2 DEF Orderly, HistoryTypeOK
  <2>4. \A r \in scripts' :
          /\ r.by \in Windows /\ ~Free(r.by)' /\ change'[r.by].id = r.id
          /\ r.undo <=> change'[r.by].rec.phase # "Prepared"
          /\ (r.undo /\ r.pc \in {"written", "done"}) => author' # r.id
    BY <1>1, <1>2, <1>3, <2>1, <2>2, <2>3, HistoryAssumption DEF Orderly, Free
  <2>5. \A r, q \in scripts' : r.by = q.by => r = q
    BY <1>2, <2>1, <2>2, <2>3 DEF Orderly
  <2>6. RestoredIsUndone'
    <3>1. ~s.undo => entry[s.id].phase = "Prepared"
      BY <1>2 DEF Orderly
    <3> QED
      BY <1>1, <1>2, <1>3, <3>1, HistoryAssumption DEF Orderly, RestoredIsUndone
  <2> QED
    BY <1>1, <1>2, <2>4, <2>5, <2>6 DEF Orderly, Free
<1> QED
  BY <1>3 DEF Worker, ReplaceLocked, CompareOpen, WriteOpen, VerifyOpen

\* A job ends with its worker: nobody else was at its change.
LEMMA EndedOrderly ==
  ASSUME HistoryInv, NEW w \in Windows, NEW s \in scripts, s.by = w, ~overtaken, Ended(w),
         scripts' = scripts \ {s},
         author' \in {author, 0} \/ (~s.undo /\ author' = s.id /\ entry' = entry),
         \A e \in Changes : e # s.id => entry'[e] = entry[e],
         entry'[s.id].phase = "Restored" => author' # s.id
  PROVE  Orderly'
<1>1. /\ change'[w] = NoChange /\ Free(w)' /\ \A u \in Windows \ {w} : change'[u] = change[u]
  BY DEF Ended, HistoryInv, HistoryTypeOK, Free
<1>2. /\ s.id \in Changes /\ s.id # 0 /\ change[w].id = s.id
      /\ \A u \in Windows \ {w} : change[u].id # s.id
      /\ \A u \in Windows : ~Free(u) => change[u].id \in Changes
  BY JobFacts, HistoryAssumption DEF HistoryInv, HistoryTypeOK, Orderly
<1>3. \A r \in scripts' : r.by \in Windows /\ r.by # w /\ r.id # s.id /\ r.id \in Changes /\ r \in scripts
  BY <1>2 DEF HistoryInv, HistoryTypeOK, Orderly
<1>4. \A r \in scripts' :
        /\ r.by \in Windows /\ ~Free(r.by)' /\ change'[r.by].id = r.id
        /\ r.undo <=> change'[r.by].rec.phase # "Prepared"
        /\ (r.undo /\ r.pc \in {"written", "done"}) => author' # r.id
  BY <1>1, <1>2, <1>3, HistoryAssumption DEF HistoryInv, Orderly, Free
<1>5. \A r, q \in scripts' : r.by = q.by => r = q
  BY DEF HistoryInv, Orderly
<1>6. /\ \A u, v \in Windows : (~Free(v)' /\ change'[u].id = change'[v].id) => u = v
      /\ \A u \in Windows : (~Free(u)' /\ change'[u].rec.phase = "Prepared") =>
           entry'[change'[u].id].phase = "Prepared"
  BY <1>1, <1>2, JobFacts, HistoryAssumption DEF HistoryInv, Orderly, Free
<1>7. RestoredIsUndone'
  BY <1>2, HistoryAssumption DEF HistoryInv, Orderly, RestoredIsUndone
<1> QED
  BY <1>4, <1>5, <1>6, <1>7 DEF Orderly

LEMMA OrphanOrderly ==
  ASSUME HistoryInv, NEW w \in Windows, NEW s \in scripts, s.by = w, Orphaned(s), Ended(w),
         UNCHANGED entry
  PROVE  Orderly'
<1>1. SUFFICES ASSUME ~overtaken' PROVE Orderly'
  BY DEF Orderly
<1>2. /\ ~overtaken /\ scripts' = scripts \ {s}
      /\ author' = author \/ author' = IF s.undo THEN 0 ELSE s.id
  BY <1>1 DEF Orphaned
<1>3. entry[s.id].phase = "Restored" => author # s.id /\ s.undo
  BY <1>2 DEF HistoryInv, Orderly, RestoredIsUndone, HistoryTypeOK
<1>4. s.id # 0
  BY HistoryAssumption DEF HistoryInv, HistoryTypeOK
<1> QED
  BY <1>2, <1>3, <1>4, EndedOrderly

LEMMA CompleteOrderly ==
  ASSUME HistoryInv, NEW w \in Windows, NEW s \in scripts, CompleteChange(w, s)
  PROVE  Orderly'
<1> USE DEF HistoryInv, Recorded
<1> DEFINE c == change[w]
           settled == [c.rec EXCEPT !.phase = IF @ = "Prepared" THEN "Applied" ELSE "Restored"]
<1>1. UNCHANGED <<author, overtaken>> /\ Ended(w) /\ scripts' = scripts \ {s} /\ s.by = w
  BY DEF CompleteChange
<1>2. SUFFICES ASSUME ~overtaken PROVE Orderly'
  BY <1>1 DEF Orderly
<1>3. /\ c.id = s.id /\ (s.undo <=> c.rec.phase # "Prepared") /\ c.rec \in Records
      /\ (s.undo /\ s.pc = "done" => author # s.id) /\ s.id \in Changes
      /\ entry[s.id].phase = "Restored" => author # s.id
  BY <1>1, <1>2, JobFacts DEF Orderly, RestoredIsUndone, HistoryTypeOK
<1>4. settled.phase = IF c.rec.phase = "Prepared" THEN "Applied" ELSE "Restored"
  BY <1>3 DEF Records
<1>5. CASE s.pc = "done" /\ Persist(c.id, settled)
  <2>1. entry'[s.id] = settled /\ \A e \in Changes : e # s.id => entry'[e] = entry[e]
    BY <1>3, <1>5 DEF Persist, HistoryTypeOK
  <2> HIDE DEF settled
  <2> QED
    BY <1>1, <1>2, <1>3, <1>4, <1>5, <2>1, EndedOrderly
<1>6. CASE UNCHANGED entry
  BY <1>1, <1>2, <1>3, <1>6, EndedOrderly
<1> QED
  BY <1>5, <1>6 DEF CompleteChange, PersistFails, journal

LEMMA OrderlyInit == HistoryInit => Orderly
  BY DEF HistoryInit, Orderly, RestoredIsUndone, Free, Nothing

LEMMA OrderlyStep == HistoryInv /\ [HistoryNext]_historyVars => Orderly'
<1> SUFFICES ASSUME HistoryInv, [HistoryNext]_historyVars PROVE Orderly'
  OBVIOUS
<1>1. ASSUME NEW w \in Windows, CrashHistory(w)
      PROVE  Orderly'
  <2>1. CASE Free(w) /\ UNCHANGED <<target, scripts, author, overtaken>>
    <3>1. \A u \in Windows : change'[u] = change[u]
      BY <1>1, <2>1 DEF CrashHistory, Ended, Free, HistoryInv, HistoryTypeOK
    <3> QED
      BY <1>1, <2>1, <3>1, OrderlyStays DEF CrashHistory, HistoryInv
  <2>2. CASE \E s \in scripts : s.by = w /\ Orphaned(s)
    BY <1>1, <2>2, OrphanOrderly DEF CrashHistory
  <2> QED
    BY <1>1, <2>1, <2>2 DEF CrashHistory
<1>2. ASSUME NEW w \in Windows, NEW s \in scripts, AbandonChange(w, s)
      PROVE  Orderly'
  BY <1>2, OrphanOrderly DEF AbandonChange, journal
<1>3. ASSUME NEW w \in Windows, LoadHistory(w)
      PROVE  Orderly'
  BY <1>3, OrderlyStays DEF LoadHistory, journal, HistoryInv
<1>4. ASSUME NEW w \in Windows, NEW e \in Changes, NEW v \in Contents, PrepareChange(w, e, v)
      PROVE  Orderly'
  BY <1>4, OrderlyStays DEF PrepareChange, journal, HistoryInv
<1>7. ASSUME NEW w \in Windows, CountEntries(w)
      PROVE  Orderly'
  BY <1>7, OrderlyStays DEF CountEntries, journal, HistoryInv
<1>5. ASSUME NEW v, Foreign(v)
      PROVE  Orderly'
  <2>1. UNCHANGED <<scripts, entry, change, overtaken>> /\ author' = 0
        /\ \A s \in scripts : s.id \in Changes
    BY <1>5 DEF Foreign, journal, panels, HistoryInv, HistoryTypeOK
  <2> QED
    BY <2>1, HistoryAssumption DEF HistoryInv, Orderly, Free, RestoredIsUndone
<1>6. CASE UNCHANGED historyVars
  BY <1>6, OrderlyStays DEF historyVars, HistoryInv
<1> QED
  BY <1>1, <1>2, <1>3, <1>4, <1>5, <1>6, <1>7, ApplyOrderly, RestoreOrderly, WorkerOrderly, CompleteOrderly
     DEF HistoryNext, Panel

\* A change that the journal calls restored does not show at the target, unless a
\* worker outlived its job or two windows met in one change (RestoredIsUndone).
THEOREM RestoredMeansUndone == HistorySpec => []RestoredIsUndone
<1>1. HistoryInit => HistoryInv
  BY RecordedInit, OrderlyInit DEF HistoryInv
<1>2. HistoryInv /\ [HistoryNext]_historyVars => HistoryInv'
  BY RecordedStep, OrderlyStep DEF HistoryInv
<1>3. HistoryInv => RestoredIsUndone
  BY DEF HistoryInv, Orderly, RestoredIsUndone
<1> QED
  BY <1>1, <1>2, <1>3, PTL DEF HistorySpec

-----------------------------------------------------------------------------
(***************************************************************************)
(* What window and agent guarantee together of a recovery contract, for    *)
(* any number of observations, rehearsals and saves and any size of the    *)
(* journal, with every fault.                                              *)
(***************************************************************************)

-----------------------------------------------------------------------------
(* The invariant.                                                          *)

Verdicts  == {"none", "same", "drift", "failed"}
Contracts == [rev : Nat, proof : Nat, obs : Nat, last : Verdicts, done : Nat, bad : BOOLEAN,
              at : Nat, revoked : SUBSET Nat]

\* A contract the processes may hold: accepted, and of what happened until now.
Sound(c) ==
  /\ c \in Contracts /\ Accepted(c)
  /\ c.obs <= now /\ c.done <= now /\ c.at <= now
  /\ c.last = "none" => c.done = c.obs

\* c is barred since t or later, or rests on a rehearsal observed since.
KnowsBad(c, t) == (c.bad /\ c.at >= t) \/ c.obs >= t

\* c has the findings f in it, or what answers them.
Knows(c, f) == KnowsBad(c, f.bad) /\ c.done >= f.failed

\* c may not be used with the evidence x.
Bars(c, x) == x \in c.revoked \/ (x = c.proof /\ c.bad)

\* c knows what the journal entry e tells.
Absorbs(c, e) ==
  /\ e.bad => KnowsBad(c, e.at)
  /\ e.last = "failed" => c.done >= e.done
  /\ \A x \in e.revoked : Bars(c, x)

\* What was published is known to c, or still in the journal.
Covered(c) ==
  /\ KnowsBad(c, found.bad) \/ \E e \in pending : e.bad /\ e.at >= found.bad
  /\ c.done >= found.failed \/ \E e \in pending : e.last = "failed" /\ e.done >= found.failed
  /\ \A x \in barred : Bars(c, x) \/ \E e \in pending : x \in e.revoked

Books == [pc : {"off", "starting", "ready", "saving", "published", "saved", "rereading", "reloading"},
          mem : Contracts, src : Contracts, current : BOOLEAN, taken : SUBSET Contracts,
          late : BOOLEAN]
Findings == [bad : Nat, failed : Nat]

ContractsTypeOK ==
  /\ now \in Nat \ {0} /\ used \in SUBSET Nat
  /\ main \in Contracts /\ pending \in SUBSET Contracts /\ IsFiniteSet(pending)
  /\ blocked \in BOOLEAN /\ lock \in Procs \cup {"free"}
  /\ proc \in [Procs -> Books] /\ error \in BOOLEAN
  /\ check \in [rev : Nat, started : Nat] /\ ops \in Nat
  /\ seen \in Findings /\ found \in Findings /\ barred \in SUBSET Nat

\* Nothing was found later than now.
Timely == \A f \in {seen, found} : f.bad <= now /\ f.failed <= now

\* File and journal together have every finding.
FileKnows == Sound(main) /\ Covered(main) /\ \A e \in pending : Sound(e)

\* So have a copy that is still of the file and the journal.
Present(p) == proc[p].pc \notin {"off", "starting"}
CopyKnows(p) ==
  /\ Sound(proc[p].mem)
  /\ Present(p) /\ proc[p].current => Covered(proc[p].mem)

\* Who has replaced the file holds the lock and the only copy of it, and the file has all
\* that will be removed from the journal.
Replaced(p) ==
  proc[p].pc = "saved" =>
    /\ lock = p /\ proc[p].mem = main /\ proc[p].current
    /\ \A e \in proc[p].taken : Absorbs(main, e)
    /\ \A q \in Procs \ {p} : Present(q) => ~proc[q].current

\* The window knows what it found, and has published it, or will before it goes on.
WindowKnows ==
  LET b == proc["window"] IN
  /\ Idle \/ b.pc = "saved" => b.mem = b.src
  /\ Knows(b.mem, seen)
  /\ \/ seen.bad <= found.bad
     \/ /\ b.pc \in {"saving", "rereading"} \/ (b.pc = "ready" /\ error)
        /\ b.mem.bad /\ b.mem.at >= seen.bad /\ (b.src.bad => b.src.at # b.mem.at)
  /\ \/ seen.failed <= found.failed
     \/ /\ b.pc \in {"saving", "rereading"} \/ (b.pc = "ready" /\ error)
        /\ b.mem.last = "failed" /\ b.mem.done >= seen.failed
        /\ (b.src.last = "failed" => b.src.done # b.mem.done)

ContractsInv ==
  /\ ContractsTypeOK /\ Timely /\ FileKnows /\ WindowKnows
  /\ \A p \in Procs : CopyKnows(p) /\ Replaced(p)

-----------------------------------------------------------------------------
(* Reading the journal.                                                    *)

\* What is merged into c when the entries S have been read, given what it is (f) when all
\* but one of them have.
Reads(c, f, S) ==
  IF S = {} THEN {c} ELSE UNION {{Merge(d, e) : d \in f[S \ {e}]} : e \in S}

\* The subsets of a finite set with at most n members.
Few(E, n) == {S \in SUBSET E : Cardinality(S) <= n}

\* A property of sets of numbers that fails somewhere fails somewhere first.
LEMMA FirstNumber ==
  ASSUME NEW T \in SUBSET Nat, T # {}
  PROVE  \E x \in T : \A y \in T : x <= y
  <1> DEFINE R == OpToRel(<, Nat)
  <1>1. IsWellFoundedOn(R, Nat)  BY NatLessThanWellFounded
  <1>2. \A x, y \in Nat : <<y, x>> \in R <=> y < x  BY DEF OpToRel
  <1> HIDE DEF R
  <1>3. PICK x \in T : \A y \in T : ~(<<y, x>> \in R)  BY <1>1, WFMin
  <1>4. ASSUME NEW y \in T PROVE x <= y
    <2>1. x \in Nat /\ y \in Nat  OBVIOUS
    <2>2. ~(y < x)  BY <1>2, <1>3, <2>1
    <2> QED BY <2>1, <2>2
  <1> QED BY <1>4

\* Reading n entries in any order, once reading fewer is known.
LEMMA ReadsMore ==
  ASSUME NEW c, NEW E, IsFiniteSet(E), NEW n \in Nat, NEW f,
         f = [S \in Few(E, n) |-> Reads(c, f, S)]
  PROVE  LET g == [S \in Few(E, n + 1) |-> Reads(c, f, S)]
         IN  g = [S \in Few(E, n + 1) |-> Reads(c, g, S)]
  <1> DEFINE g == [S \in Few(E, n + 1) |-> Reads(c, f, S)]
  <1>1. ASSUME NEW S \in Few(E, n + 1), NEW e \in S
        PROVE  S \ {e} \in Few(E, n) /\ S \ {e} \in Few(E, n + 1)
    <2>1. IsFiniteSet(S) /\ S \subseteq E /\ Cardinality(S) <= n + 1  BY FS_Subset DEF Few
    <2>2. Cardinality(S \ {e}) = Cardinality(S) - 1 /\ Cardinality(S) \in Nat
      BY <2>1, FS_RemoveElement, FS_CardinalityType
    <2> QED BY <2>1, <2>2 DEF Few
  <1>2. ASSUME NEW S \in Few(E, n), S \in Few(E, n + 1) PROVE g[S] = f[S]
    <2>1. f[S] = Reads(c, f, S)
      <3> HIDE DEF g
      <3> QED BY <1>2
    <2> QED BY <1>2, <2>1
  <1>3. ASSUME NEW S \in Few(E, n + 1) PROVE Reads(c, f, S) = Reads(c, g, S)
    <2> HIDE DEF g
    <2>1. \A e \in S : f[S \ {e}] = g[S \ {e}]  BY <1>1, <1>2, <1>3
    <2> DEFINE F(e) == {Merge(d, e) : d \in f[S \ {e}]}
               G(e) == {Merge(d, e) : d \in g[S \ {e}]}
    <2>2. \A e \in S : F(e) = G(e)  BY <2>1
    <2>3. {F(e) : e \in S} = {G(e) : e \in S}
      <3> HIDE DEF F, G
      <3> QED BY <2>2
    <2> QED BY <2>3 DEF Reads
  <1> QED BY <1>3

\* The results of reading a journal, one entry after the other.
LEMMA MergedIsReads ==
  ASSUME NEW c, NEW E, IsFiniteSet(E)
  PROVE  \E f : f = [S \in SUBSET E |-> Reads(c, f, S)] /\ Merged(c, E) = f[E]
  <1> DEFINE Known(n) == \E f : f = [S \in Few(E, n) |-> Reads(c, f, S)]
             Bad == {n \in Nat : ~Known(n)}
  <1>1. Known(0)
    <2> DEFINE f == [S \in Few(E, 0) |-> {c}]
    <2>1. ASSUME NEW S \in Few(E, 0) PROVE S = {}
      <3>1. IsFiniteSet(S) /\ Cardinality(S) <= 0  BY FS_Subset DEF Few
      <3> QED BY <3>1, FS_CardinalityType, FS_EmptySet
    <2>2. f = [S \in Few(E, 0) |-> Reads(c, f, S)]  BY <2>1 DEF Reads
    <2> QED BY <2>2
  <1>2. ASSUME NEW n \in Nat, Known(n) PROVE Known(n + 1)
    <2>1. PICK f : f = [S \in Few(E, n) |-> Reads(c, f, S)]  BY <1>2
    <2> DEFINE g == [S \in Few(E, n + 1) |-> Reads(c, f, S)]
    <2>2. g = [S \in Few(E, n + 1) |-> Reads(c, g, S)]  BY <2>1, ReadsMore
    <2> HIDE DEF g
    <2> QED BY <2>2
  <1>3. \A n \in Nat : Known(n)
    <2> SUFFICES ASSUME Bad # {} PROVE FALSE  OBVIOUS
    <2>1. PICK n \in Bad : \A m \in Bad : n <= m
      <3> HIDE DEF Known
      <3> QED BY FirstNumber
    <2> HIDE DEF Known
    <2>2. n \in Nat /\ ~Known(n) /\ n # 0  BY <1>1, <2>1
    <2>3. n - 1 \in Nat /\ n - 1 \notin Bad  BY <2>1, <2>2
    <2>4. Known(n - 1) /\ (n - 1) + 1 = n  BY <2>2, <2>3
    <2> QED BY <1>2, <2>2, <2>3, <2>4
  <1>4. Few(E, Cardinality(E)) = SUBSET E
    <2>1. \A S \in SUBSET E : Cardinality(S) <= Cardinality(E)  BY FS_Subset
    <2> QED BY <2>1 DEF Few
  <1>5. \E f : f = [S \in SUBSET E |-> Reads(c, f, S)]
    <2>1. Cardinality(E) \in Nat  BY FS_CardinalityType
    <2>2. Known(Cardinality(E))
      <3> HIDE DEF Known
      <3> QED BY <1>3, <2>1
    <2> QED BY <1>4, <2>2, Zenon
  <1> DEFINE after == CHOOSE f : f = [S \in SUBSET E |-> Reads(c, f, S)]
  <1>6. after = [S \in SUBSET E |-> Reads(c, after, S)]  BY <1>5
  <1>7. Merged(c, E) = after[E]  BY DEF Merged, Reads
  <1> HIDE DEF after
  <1> QED BY <1>6, <1>7

\* Whatever holds of the results of reading some entries, and is kept by reading one more,
\* holds of what reading all of them yields.
LEMMA MergedStays ==
  ASSUME NEW c, NEW E, IsFiniteSet(E), NEW Good,
         c \in Good[{}],
         \A S \in SUBSET E : \A e \in S : \A d \in Good[S \ {e}] : Merge(d, e) \in Good[S]
  PROVE  Merged(c, E) \subseteq Good[E]
  <1>1. PICK f : f = [S \in SUBSET E |-> Reads(c, f, S)] /\ Merged(c, E) = f[E]
    BY MergedIsReads
  <1> DEFINE Bad == {n \in Nat : \E S \in SUBSET E : Cardinality(S) = n /\ ~(f[S] \subseteq Good[S])}
  <1>2. Bad = {}
    <2> SUFFICES ASSUME Bad # {} PROVE FALSE  OBVIOUS
    <2>1. PICK n \in Bad : \A m \in Bad : n <= m  BY FirstNumber
    <2>2. PICK S \in SUBSET E : Cardinality(S) = n /\ ~(f[S] \subseteq Good[S])  BY <2>1
    <2>3. f[S] = Reads(c, f, S)
      <3> HIDE DEF Bad
      <3> QED BY <1>1
    <2>4. S # {}
      <3>1. S = {} => f[S] = {c}  BY <2>3 DEF Reads
      <3> QED BY <2>2, <3>1
    <2>5. ASSUME NEW e \in S PROVE f[S \ {e}] \subseteq Good[S \ {e}]
      <3>1. IsFiniteSet(S)  BY FS_Subset
      <3>2. Cardinality(S \ {e}) = n - 1 /\ n \in Nat  BY <2>2, <3>1, FS_RemoveElement, FS_CardinalityType
      <3>3. Cardinality(S \ {e}) \in Nat  BY <3>1, FS_RemoveElement, FS_CardinalityType
      <3>4. n - 1 \in Nat /\ ~(n <= n - 1)  BY <3>2, <3>3
      <3>5. n - 1 \notin Bad  BY <2>1, <3>4
      <3> QED BY <3>2, <3>4, <3>5
    <2>6. ASSUME NEW d \in f[S] PROVE d \in Good[S]
      <3>1. PICK e \in S : d \in {Merge(b, e) : b \in f[S \ {e}]}  BY <2>3, <2>4, <2>6 DEF Reads
      <3>2. PICK b \in f[S \ {e}] : d = Merge(b, e)  BY <3>1
      <3> QED BY <2>5, <3>2
    <2> QED BY <2>2, <2>6
  <1>3. Cardinality(E) \in Nat  BY FS_CardinalityType
  <1> QED BY <1>1, <1>2, <1>3

\* A journal can always be read, whatever the order.
LEMMA MergedSome ==
  ASSUME NEW c, NEW E, IsFiniteSet(E)
  PROVE  Merged(c, E) # {}
  <1>1. PICK f : f = [S \in SUBSET E |-> Reads(c, f, S)] /\ Merged(c, E) = f[E]
    BY MergedIsReads
  <1> DEFINE Bad == {n \in Nat : \E S \in SUBSET E : Cardinality(S) = n /\ f[S] = {}}
  <1>2. Bad = {}
    <2> SUFFICES ASSUME Bad # {} PROVE FALSE  OBVIOUS
    <2>1. PICK n \in Bad : \A m \in Bad : n <= m  BY FirstNumber
    <2>2. PICK S \in SUBSET E : Cardinality(S) = n /\ f[S] = {}  BY <2>1
    <2>3. f[S] = Reads(c, f, S)
      <3> HIDE DEF Bad
      <3> QED BY <1>1
    <2>4. S # {}
      <3>1. S = {} => f[S] = {c}  BY <2>3 DEF Reads
      <3> QED BY <2>2, <3>1
    <2>5. PICK e \in S : TRUE  BY <2>4
    <2>6. f[S \ {e}] = {}
      <3> DEFINE Read == {Merge(d, e) : d \in f[S \ {e}]}
      <3> DEFINE Then(x) == {Merge(d, x) : d \in f[S \ {x}]}
      <3>1. Read \subseteq f[S]
        <4>1. f[S] = UNION {Then(x) : x \in S}  BY <2>3, <2>4 DEF Reads
        <4>2. Then(e) \in {Then(x) : x \in S}  BY <2>5
        <4>3. Then(e) = Read  OBVIOUS
        <4> QED BY <4>1, <4>2, <4>3
      <3>2. \A d \in f[S \ {e}] : Merge(d, e) \in Read  OBVIOUS
      <3> QED BY <2>2, <3>1, <3>2
    <2>7. IsFiniteSet(S)  BY FS_Subset
    <2>8. Cardinality(S \ {e}) = n - 1 /\ Cardinality(S \ {e}) \in Nat /\ n \in Nat
      BY <2>2, <2>5, <2>7, FS_RemoveElement, FS_CardinalityType
    <2>9. n - 1 \in Bad /\ ~(n <= n - 1)  BY <2>6, <2>8
    <2> QED BY <2>1, <2>9
  <1>3. Cardinality(E) \in Nat  BY FS_CardinalityType
  <1> QED BY <1>1, <1>2, <1>3

\* The journal only adds to a contract: what it says of its evidence stays, what it knows
\* stays known.
Grown(c, d) ==
  /\ d.proof = c.proof /\ d.obs = c.obs
  /\ (c.bad => d.bad) /\ c.at <= d.at /\ c.done <= d.done /\ c.revoked \subseteq d.revoked

\* What a contract knows it still knows when it has grown.
LEMMA GrownKnows ==
  ASSUME NEW c \in Contracts, NEW d \in Contracts, Grown(c, d)
  PROVE  /\ \A t \in Nat : KnowsBad(c, t) => KnowsBad(d, t)
         /\ \A t \in Nat : c.done >= t => d.done >= t
         /\ \A x : Bars(c, x) => Bars(d, x)
         /\ \A e \in Contracts : Absorbs(c, e) => Absorbs(d, e)
         /\ \A b \in Contracts : Grown(b, c) => Grown(b, d)
  <1> USE DEF Contracts, Grown
  <1>1. \A t \in Nat : KnowsBad(c, t) => KnowsBad(d, t)  BY DEF KnowsBad
  <1>2. \A t \in Nat : c.done >= t => d.done >= t  OBVIOUS
  <1>3. \A x : Bars(c, x) => Bars(d, x)  BY DEF Bars
  <1>4. \A b \in Contracts : Grown(b, c) => Grown(b, d)  OBVIOUS
  <1> QED BY <1>1, <1>2, <1>3, <1>4 DEF Absorbs

\* One entry, merged: the contract grows by what the entry tells.
LEMMA MergeGrows ==
  ASSUME ContractsTypeOK, NEW c, Sound(c), NEW e, Sound(e)
  PROVE  LET d == Merge(c, e) IN Sound(d) /\ Grown(c, d) /\ Absorbs(d, e)
  <1> DEFINE a == MergeInvalid(c, e)
             b == MergeRevoked(a, e)
             d == MergeFailed(b, e)
  <1> USE DEF Verdicts
  <1>0. c \in Contracts /\ e \in Contracts /\ now \in Nat  BY DEF Sound, ContractsTypeOK
  <1>1. /\ Sound(a) /\ Grown(c, a) /\ (e.bad => KnowsBad(a, e.at))
    <2>1. CASE a = c /\ (e.bad => c.obs >= e.at)
      BY <1>0, <2>1 DEF Grown, KnowsBad, Contracts
    <2>2. CASE a = Invalidate(c, e.at)
      <3>1. a \in Contracts  BY <1>0, <2>2 DEF Invalidate, Later, Contracts
      <3>2. /\ a.proof = c.proof /\ a.obs = c.obs /\ a.last = c.last /\ a.done = c.done
            /\ a.bad /\ a.revoked = c.revoked /\ a.at = Later(c.at, e.at)
        BY <1>0, <2>2 DEF Invalidate, Contracts
      <3>3. a.at <= now /\ c.at <= a.at /\ e.at <= a.at
        BY <1>0, <3>2 DEF Later, Sound, Contracts
      <3>4. Accepted(a)  BY <3>2 DEF Sound, Accepted
      <3>5. Sound(a)  BY <3>1, <3>2, <3>3, <3>4 DEF Sound
      <3>6. Grown(c, a) /\ KnowsBad(a, e.at)  BY <1>0, <3>1, <3>2, <3>3 DEF Grown, KnowsBad, Contracts
      <3> QED BY <3>5, <3>6
    <2>3. \/ a = c /\ (e.bad => c.obs >= e.at)
          \/ a = Invalidate(c, e.at)
      BY <1>0 DEF MergeInvalid, Superseded, Contracts
    <2> QED BY <2>1, <2>2, <2>3
  <1> HIDE DEF a
  <1>2. Sound(b) /\ Grown(a, b) /\ \A x \in e.revoked : Bars(b, x)
    <2>1. a \in Contracts  BY <1>1 DEF Sound
    <2>2. b \in Contracts
      BY <1>0, <2>1 DEF MergeRevoked, Invalidate, Later, Contracts
    <2>3. /\ b.proof = a.proof /\ b.obs = a.obs /\ b.last = a.last /\ b.done = a.done
          /\ (a.bad => b.bad) /\ b.revoked = a.revoked \cup (e.revoked \ {a.proof})
          /\ b.at \in {a.at, Later(a.at, now)} /\ (a.proof \in e.revoked => b.bad)
      BY <1>0, <2>1 DEF MergeRevoked, Invalidate, Contracts
    <2>4. b.at <= now /\ a.at <= b.at
      BY <1>0, <1>1, <2>1, <2>3 DEF Later, Sound, Contracts
    <2>5. Accepted(b)  BY <1>1, <2>1, <2>3 DEF Sound, Accepted
    <2>6. Sound(b)  BY <1>0, <1>1, <2>1, <2>2, <2>3, <2>4, <2>5 DEF Sound
    <2>7. Grown(a, b)  BY <2>1, <2>2, <2>3, <2>4 DEF Grown, Contracts
    <2>8. \A x \in e.revoked : Bars(b, x)  BY <2>3 DEF Bars
    <2> QED BY <2>6, <2>7, <2>8
  <1> HIDE DEF b
  <1>3. Sound(d) /\ Grown(b, d) /\ (e.last = "failed" => d.done >= e.done)
    <2>0. b \in Contracts  BY <1>2 DEF Sound
    <2>1. CASE d = b /\ (e.last = "failed" => b.done >= e.done)
      BY <1>2, <2>0, <2>1 DEF Grown, Contracts
    <2>2. CASE d = [b EXCEPT !.last = "failed", !.done = Later(@, e.done)]
      <3>1. d \in Contracts  BY <1>0, <2>0, <2>2 DEF Later, Contracts
      <3>2. /\ d.proof = b.proof /\ d.obs = b.obs /\ d.last = "failed" /\ d.bad = b.bad
            /\ d.at = b.at /\ d.revoked = b.revoked /\ d.done = Later(b.done, e.done)
        BY <2>0, <2>2 DEF Contracts
      <3>3. d.done <= now /\ b.done <= d.done /\ e.done <= d.done
        BY <1>0, <1>2, <2>0, <3>2 DEF Later, Sound, Contracts
      <3>4. Accepted(d)
        BY <1>0, <1>2, <2>0, <3>1, <3>2, <3>3 DEF Sound, Accepted, Contracts
      <3>5. Sound(d)  BY <1>2, <3>1, <3>2, <3>3, <3>4 DEF Sound
      <3>6. Grown(b, d)  BY <2>0, <3>1, <3>2, <3>3 DEF Grown, Contracts
      <3> QED BY <1>0, <3>1, <3>3, <3>5, <3>6 DEF Contracts
    <2>3. \/ d = b /\ (e.last = "failed" => b.done >= e.done)
          \/ d = [b EXCEPT !.last = "failed", !.done = Later(@, e.done)]
      <3>1. Superseded(b, e, e.done) => b.obs >= e.done /\ b.done >= b.obs
        BY <1>2, <2>0 DEF Superseded, Sound, Accepted, Contracts
      <3>2. Superseded(b, e, e.done) => b.done >= e.done  BY <1>0, <2>0, <3>1 DEF Contracts
      <3> QED BY <3>2 DEF MergeFailed
    <2> QED BY <2>1, <2>2, <2>3
  <1> HIDE DEF d
  <1>4. a \in Contracts /\ b \in Contracts /\ d \in Contracts  BY <1>1, <1>2, <1>3 DEF Sound
  <1>5. Grown(c, d) /\ Grown(a, d)  BY <1>0, <1>1, <1>2, <1>3, <1>4, GrownKnows
  <1>6. e.bad => KnowsBad(d, e.at)  BY <1>0, <1>1, <1>4, <1>5, GrownKnows DEF Contracts
  <1>7. \A x \in e.revoked : Bars(d, x)  BY <1>2, <1>3, <1>4, GrownKnows
  <1>8. d = Merge(c, e)  BY DEF d, b, a, Merge
  <1> QED BY <1>3, <1>5, <1>6, <1>7, <1>8 DEF Absorbs

\* The whole journal, merged in any order.
LEMMA MergedGrows ==
  ASSUME ContractsTypeOK, NEW c, Sound(c), NEW E, IsFiniteSet(E), \A e \in E : Sound(e),
         NEW d \in Merged(c, E)
  PROVE  Sound(d) /\ Grown(c, d) /\ \A e \in E : Absorbs(d, e)
  <1> DEFINE Good == [S \in SUBSET E |->
                       {b \in Contracts : Sound(b) /\ Grown(c, b) /\ \A e \in S : Absorbs(b, e)}]
  <1>0. c \in Contracts  BY DEF Sound
  <1>1. c \in Good[{}]
    <2>1. Grown(c, c)  BY <1>0 DEF Grown, Contracts
    <2> QED BY <1>0, <2>1
  <1>2. ASSUME NEW S \in SUBSET E, NEW e \in S, NEW b \in Good[S \ {e}] PROVE Merge(b, e) \in Good[S]
    <2>1. S \ {e} \in SUBSET E /\ Sound(e) /\ e \in Contracts  BY DEF Sound
    <2>2. Sound(b) /\ b \in Contracts /\ Grown(c, b) /\ \A x \in S \ {e} : Absorbs(b, x)  BY <2>1
    <2> DEFINE a == Merge(b, e)
    <2>3. Sound(a) /\ Grown(b, a) /\ Absorbs(a, e)  BY <2>1, <2>2, MergeGrows
    <2> HIDE DEF a
    <2>4. a \in Contracts  BY <2>3 DEF Sound
    <2>5. Grown(c, a)  BY <1>0, <2>2, <2>3, <2>4, GrownKnows
    <2>6. \A x \in S \ {e} : Absorbs(a, x)
      <3>1. \A x \in S \ {e} : x \in Contracts  BY DEF Sound
      <3> QED BY <2>2, <2>3, <2>4, <3>1, GrownKnows
    <2>7. \A x \in S : Absorbs(a, x)  BY <2>3, <2>6
    <2>8. a \in Good[S]  BY <2>3, <2>4, <2>5, <2>7
    <2> QED BY <2>8 DEF a
  <1>3. Merged(c, E) \subseteq Good[E]
    <2> HIDE DEF Good
    <2> QED BY <1>1, <1>2, MergedStays
  <1> QED BY <1>3
-----------------------------------------------------------------------------
(* What a loader gets.                                                     *)

\* Reading the journal into a contract that is covered gives one that knows everything.
LEMMA CoveredKnows ==
  ASSUME ContractsTypeOK, FileKnows, NEW c, Sound(c), Covered(c), NEW d \in Merged(c, pending)
  PROVE  /\ Sound(d) /\ Grown(c, d) /\ Knows(d, found) /\ (\A x \in barred : Bars(d, x))
         /\ Covered(d) /\ \A e \in pending : Absorbs(d, e)
  <1>1. IsFiniteSet(pending) /\ \A e \in pending : Sound(e)  BY DEF ContractsTypeOK, FileKnows
  <1>2. Sound(d) /\ Grown(c, d) /\ \A e \in pending : Absorbs(d, e)  BY <1>1, MergedGrows
  <1>3. c \in Contracts /\ d \in Contracts /\ \A e \in pending : e \in Contracts
    BY <1>1, <1>2 DEF Sound
  <1>4. found.bad \in Nat /\ found.failed \in Nat  BY DEF ContractsTypeOK, Findings
  <1>5. KnowsBad(d, found.bad)
    <2>1. CASE KnowsBad(c, found.bad)  BY <1>2, <1>3, <1>4, <2>1, GrownKnows
    <2>2. ASSUME NEW e \in pending, e.bad, e.at >= found.bad PROVE KnowsBad(d, found.bad)
      <3>1. KnowsBad(d, e.at)  BY <1>2, <2>2 DEF Absorbs
      <3> QED BY <1>3, <1>4, <2>2, <3>1 DEF KnowsBad, Contracts
    <2> QED BY <2>1, <2>2 DEF Covered
  <1>6. d.done >= found.failed
    <2>1. CASE c.done >= found.failed  BY <1>2, <1>3, <1>4, <2>1, GrownKnows
    <2>2. ASSUME NEW e \in pending, e.last = "failed", e.done >= found.failed
          PROVE d.done >= found.failed
      <3>1. d.done >= e.done  BY <1>2, <2>2 DEF Absorbs
      <3> QED BY <1>3, <1>4, <2>2, <3>1 DEF Contracts
    <2> QED BY <2>1, <2>2 DEF Covered
  <1>7. ASSUME NEW x \in barred PROVE Bars(d, x)
    <2>1. CASE Bars(c, x)  BY <1>2, <1>3, <2>1, GrownKnows
    <2>2. ASSUME NEW e \in pending, x \in e.revoked PROVE Bars(d, x)  BY <1>2, <2>2 DEF Absorbs
    <2> QED BY <2>1, <2>2 DEF Covered
  <1> QED BY <1>2, <1>5, <1>6, <1>7 DEF Knows, Covered

\* So does loading the file.
LEMMA ViewsKnow ==
  ASSUME ContractsInv, NEW c \in Views
  PROVE  /\ Sound(c) /\ Knows(c, found) /\ Covered(c) /\ \A x \in barred : Bars(c, x)
  BY CoveredKnows DEF ContractsInv, FileKnows, Views

-----------------------------------------------------------------------------
(* What an operation makes of a contract.                                  *)

\* d has what c has of findings until now, and bars what c bars.
Keeps(c, d) ==
  /\ \A t \in Nat : t <= now => (KnowsBad(c, t) => KnowsBad(d, t)) /\ (c.done >= t => d.done >= t)
  /\ \A x : Bars(c, x) => Bars(d, x)

\* New intervals do not touch what is known.
LEMMA SettingsKeep ==
  ASSUME NEW c, Sound(c)
  PROVE  LET d == [c EXCEPT !.rev = @ + 1] IN Sound(d) /\ Keeps(c, d)
  <1> DEFINE d == [c EXCEPT !.rev = @ + 1]
  <1>1. c \in Contracts /\ d \in Contracts  BY DEF Sound, Contracts
  <1>2. /\ d.proof = c.proof /\ d.obs = c.obs /\ d.last = c.last /\ d.done = c.done
        /\ d.bad = c.bad /\ d.at = c.at /\ d.revoked = c.revoked
    BY <1>1 DEF Contracts
  <1> HIDE DEF d
  <1>3. Sound(d)  BY <1>1, <1>2 DEF Sound, Accepted
  <1>4. Keeps(c, d)  BY <1>2 DEF Keeps, KnowsBad, Bars
  <1> QED BY <1>3, <1>4 DEF d

\* Nor does a barred contract know less.
LEMMA InvalidKeeps ==
  ASSUME ContractsTypeOK, NEW c, Sound(c)
  PROVE  LET d == Invalidate(c, now) IN /\ Sound(d) /\ Keeps(c, d) /\ d.bad /\ d.at = now
                                        /\ d.last = c.last /\ d.done = c.done
  <1> DEFINE d == Invalidate(c, now)
  <1>0. now \in Nat  BY DEF ContractsTypeOK
  <1>1. c \in Contracts  BY DEF Sound
  <1>2. Later(c.at, now) = now  BY <1>0, <1>1 DEF Sound, Later, Contracts
  <1>3. d \in Contracts  BY <1>0, <1>1, <1>2 DEF Invalidate, Contracts
  <1>4. /\ d.proof = c.proof /\ d.obs = c.obs /\ d.last = c.last /\ d.done = c.done
        /\ d.bad /\ d.at = now /\ d.revoked = c.revoked
    BY <1>1, <1>2 DEF Invalidate, Contracts
  <1> HIDE DEF d
  <1>5. Sound(d)  BY <1>0, <1>3, <1>4 DEF Sound, Accepted
  <1>6. Keeps(c, d)  BY <1>0, <1>4 DEF Keeps, KnowsBad, Bars
  <1> QED BY <1>4, <1>5, <1>6 DEF d

\* A comparison that ends now answers the comparisons before it, and nothing else.
LEMMA CheckKeeps ==
  ASSUME ContractsTypeOK, NEW c, Sound(c), NEW res \in {"same", "drift", "failed"}
  PROVE  LET d == ApplyCheck(c, res, now) IN Sound(d) /\ Keeps(c, d)
  <1> DEFINE e == [c EXCEPT !.last = res, !.done = now]
             d == ApplyCheck(c, res, now)
  <1>0. now \in Nat  BY DEF ContractsTypeOK
  <1>1. c \in Contracts  BY DEF Sound
  <1>2. e \in Contracts  BY <1>0, <1>1 DEF Contracts, Verdicts
  <1>3. /\ e.proof = c.proof /\ e.obs = c.obs /\ e.last = res /\ e.done = now
        /\ e.bad = c.bad /\ e.at = c.at /\ e.revoked = c.revoked
    BY <1>1 DEF Contracts
  <1> HIDE DEF e
  <1>4. d = IF res = "drift" THEN Invalidate(e, now) ELSE e  BY DEF ApplyCheck, e
  <1> HIDE DEF d
  <1>5. e.at <= now /\ e.obs <= now /\ c.done <= now  BY <1>3 DEF Sound
  <1>6. Later(e.at, now) = now  BY <1>0, <1>2, <1>5 DEF Later, Contracts
  <1>7. d \in Contracts  BY <1>0, <1>2, <1>4, <1>6 DEF Invalidate, Contracts
  <1>8. /\ d.proof = c.proof /\ d.obs = c.obs /\ d.last = res /\ d.done = now
        /\ d.revoked = c.revoked
        /\ res = "drift" => d.bad /\ d.at = now
        /\ res # "drift" => d.bad = c.bad /\ d.at = c.at
    BY <1>2, <1>3, <1>4, <1>6 DEF Invalidate, Contracts
  <1>9. Sound(d)  BY <1>0, <1>5, <1>3, <1>7, <1>8 DEF Sound, Accepted
  <1>10. Keeps(c, d)  BY <1>0, <1>1, <1>8 DEF Keeps, KnowsBad, Bars, Contracts
  <1> QED BY <1>9, <1>10 DEF d

\* A rehearsal that may renew answers everything the contract knows.
LEMMA RenewKeeps ==
  ASSUME ContractsTypeOK, NEW c, Sound(c), NEW p \in Rehearsals, MayRenew(c, p)
  PROVE  LET d == Renew(c, p) IN Sound(d) /\ Keeps(c, d) /\ ~d.bad /\ d.last = "none"
  <1> DEFINE d == Renew(c, p)
  <1>0. now \in Nat /\ c \in Contracts  BY DEF ContractsTypeOK, Sound
  <1>1. p.proof \in Nat /\ p.obs \in Nat /\ p.obs <= now /\ p.obs <= p.proof
    BY <1>0 DEF Rehearsals
  <1>2. d \in Contracts  BY <1>0, <1>1 DEF Renew, Contracts, Verdicts
  <1>3. /\ d.proof = p.proof /\ d.obs = p.obs /\ d.last = "none" /\ d.done = p.obs
        /\ ~d.bad /\ d.at = 0 /\ d.revoked = c.revoked \cup {c.proof}
    BY DEF Renew
  <1> HIDE DEF d
  <1>4. p.obs > c.obs /\ (c.bad => p.obs >= c.at) /\ p.obs >= c.done
    <2>1. c.last = "none" => c.done = c.obs  BY DEF Sound
    <2>2. p.obs > c.obs /\ (c.bad => p.obs >= c.at) /\ (c.last # "none" => p.obs >= c.done)
      BY DEF MayRenew
    <2> QED BY <1>0, <1>1, <2>1, <2>2 DEF Contracts
  <1>5. Sound(d)
    <2>1. Accepted(d)
      BY <1>0, <1>1, <1>3 DEF Accepted, MayRenew, Contracts
    <2> QED BY <1>0, <1>1, <1>2, <1>3, <2>1 DEF Sound
  <1>6. Keeps(c, d)
    <2>1. \A t \in Nat : KnowsBad(c, t) => KnowsBad(d, t)
      BY <1>0, <1>1, <1>3, <1>4 DEF KnowsBad, Contracts
    <2>2. \A t \in Nat : c.done >= t => d.done >= t
      BY <1>0, <1>1, <1>3, <1>4 DEF Contracts
    <2>3. \A x : Bars(c, x) => Bars(d, x)  BY <1>3 DEF Bars
    <2> QED BY <2>1, <2>2, <2>3 DEF Keeps
  <1> QED BY <1>3, <1>5, <1>6 DEF d

\* Merging keeps too.
LEMMA GrownKeeps ==
  ASSUME NEW c \in Contracts, NEW d \in Contracts, Grown(c, d)
  PROVE  Keeps(c, d)
  BY GrownKnows DEF Keeps

\* What keeps what was known stays covered.
LEMMA KeepsCovered ==
  ASSUME ContractsTypeOK, Timely, NEW c, NEW d, Keeps(c, d)
  PROVE  (Covered(c) => Covered(d)) /\ (Knows(c, seen) => Knows(d, seen))
  <1>1. /\ found.bad \in Nat /\ found.failed \in Nat /\ seen.bad \in Nat /\ seen.failed \in Nat
        /\ found.bad <= now /\ found.failed <= now /\ seen.bad <= now /\ seen.failed <= now
    BY DEF ContractsTypeOK, Findings, Timely
  <1> QED BY <1>1 DEF Keeps, Covered, Knows
-----------------------------------------------------------------------------
(* Steps that change one book, and may publish what is in it.              *)

\* The contract a copy is reset to is sound.
LEMMA FirstSound == ASSUME ContractsTypeOK PROVE Sound(First)
  BY DEF ContractsTypeOK, Sound, First, Accepted, Contracts, Verdicts

\* Time only lets more be sound.
LEMMA SoundStays ==
  ASSUME ContractsTypeOK, now' \in Nat, now <= now'
  PROVE  \A c : Sound(c) => Sound(c)'
  BY DEF ContractsTypeOK, Sound, Contracts, Accepted

\* What a step may do to journal and history: what it newly calls found or barred is in an
\* entry it adds.
Publishes(c) ==
  /\ pending' \in {pending, pending \cup {c}}
  /\ found' \in Findings /\ barred' \in SUBSET Nat
  /\ \/ found'.bad = found.bad
     \/ c.bad /\ found'.bad = c.at /\ found.bad <= c.at /\ c \in pending'
  /\ \/ found'.failed = found.failed
     \/ c.last = "failed" /\ found'.failed = c.done /\ found.failed <= c.done /\ c \in pending'
  /\ \A x \in barred' : x \in barred \/ (x \in c.revoked /\ c \in pending')

\* What is published stays covered while the journal only gains entries.
LEMMA CoveredStays ==
  ASSUME ContractsTypeOK, NEW c \in Contracts, Publishes(c)
  PROVE  \A d \in Contracts : Covered(d) => Covered(d)'
  <1> SUFFICES ASSUME NEW d \in Contracts, Covered(d) PROVE Covered(d)'  OBVIOUS
  <1>0. pending \subseteq pending' /\ found.bad \in Nat /\ found.failed \in Nat
    BY DEF Publishes, ContractsTypeOK, Findings
  <1>1. KnowsBad(d, found'.bad) \/ \E e \in pending' : e.bad /\ e.at >= found'.bad
    <2>1. CASE found'.bad = found.bad  BY <1>0, <2>1 DEF Covered
    <2>2. CASE c.bad /\ found'.bad = c.at /\ c \in pending'  BY <2>2 DEF Contracts
    <2> QED BY <2>1, <2>2 DEF Publishes
  <1>2. \/ d.done >= found'.failed
        \/ \E e \in pending' : e.last = "failed" /\ e.done >= found'.failed
    <2>1. CASE found'.failed = found.failed  BY <1>0, <2>1 DEF Covered
    <2>2. CASE c.last = "failed" /\ found'.failed = c.done /\ c \in pending'  BY <2>2 DEF Contracts
    <2> QED BY <2>1, <2>2 DEF Publishes
  <1>3. \A x \in barred' : Bars(d, x) \/ \E e \in pending' : x \in e.revoked
    BY <1>0 DEF Publishes, Covered
  <1> QED BY <1>1, <1>2, <1>3 DEF Covered, KnowsBad, Bars

\* A book is exchanged for another that is covered if it is of the file.
LEMMA BookChanges ==
  ASSUME ContractsInv, NEW p \in Procs, NEW b \in Books,
         proc' = [proc EXCEPT ![p] = b], UNCHANGED <<now, main>>,
         lock' = lock \/ (lock = p /\ lock' = "free"),
         Publishes(b.mem), Sound(b.mem), b.pc # "saved",
         b.pc \notin {"off", "starting"} /\ b.current =>
           Covered(b.mem) /\ ((Present(p) /\ proc[p].current) \/ lock = "free")
  PROVE  /\ FileKnows' /\ (\A q \in Procs : CopyKnows(q)' /\ Replaced(q)')
         /\ proc' \in [Procs -> Books] /\ pending' \in SUBSET Contracts /\ IsFiniteSet(pending')
         /\ lock' \in Procs \cup {"free"}
  <1> USE DEF ContractsInv
  <1>0. b.mem \in Contracts /\ main \in Contracts  BY DEF Books, ContractsTypeOK
  <1>1. \A d \in Contracts : Covered(d) => Covered(d)'  BY <1>0, CoveredStays
  <1>2. \A d : Sound(d) => Sound(d)'
    <2>1. now' \in Nat /\ now <= now'  BY DEF ContractsTypeOK
    <2> QED BY <2>1, SoundStays
  <1>3. proc' \in [Procs -> Books] /\ proc'[p] = b /\ \A q \in Procs \ {p} : proc'[q] = proc[q]
    BY DEF ContractsTypeOK
  <1>4. FileKnows'
    <2>1. Sound(main)' /\ Covered(main)'
      <3>1. Sound(main) /\ Covered(main)  BY DEF FileKnows
      <3>2. main' = main  OBVIOUS
      <3>3. \A d : d = main => Sound(d)' /\ Covered(d)'  BY <1>0, <1>1, <1>2, <3>1
      <3> QED BY <3>2, <3>3 DEF Sound, Covered, Accepted, KnowsBad, Bars
    <2>2. \A e \in pending' : Sound(e)'  BY <1>2 DEF Publishes, FileKnows
    <2> QED BY <2>1, <2>2 DEF FileKnows
  <1>5. ASSUME NEW q \in Procs PROVE CopyKnows(q)'
    <2> DEFINE m == proc'[q].mem
    <2>1. CASE q = p
      <3>1. proc'[q] = b  BY <1>3, <2>1
      <3>2. Sound(b.mem)' /\ (b.pc \notin {"off", "starting"} /\ b.current => Covered(b.mem)')
        BY <1>0, <1>1, <1>2
      <3> QED BY <3>1, <3>2 DEF CopyKnows, Present
    <2>2. CASE q # p
      <3>1. proc'[q] = proc[q] /\ proc[q].mem \in Contracts  BY <1>3, <2>2 DEF ContractsTypeOK, Books
      <3>2. /\ Sound(proc[q].mem)
            /\ proc[q].pc \notin {"off", "starting"} /\ proc[q].current => Covered(proc[q].mem)
        BY DEF CopyKnows, Present
      <3>3. \A d : d = proc[q].mem =>
              /\ Sound(d)'
              /\ proc[q].pc \notin {"off", "starting"} /\ proc[q].current => Covered(d)'
        BY <1>1, <1>2, <3>1, <3>2
      <3> QED BY <3>1, <3>3 DEF CopyKnows, Present, Sound, Covered, Accepted, KnowsBad, Bars
    <2> QED BY <2>1, <2>2
  <1>6. ASSUME NEW q \in Procs PROVE Replaced(q)'
    <2> SUFFICES ASSUME proc'[q].pc = "saved" PROVE Replaced(q)'  BY DEF Replaced
    <2>1. q # p /\ proc'[q] = proc[q]  BY <1>3
    <2>2. /\ lock = q /\ proc[q].mem = main /\ proc[q].current
          /\ \A e \in proc[q].taken : Absorbs(main, e)
          /\ \A r \in Procs \ {q} : Present(r) => ~proc[r].current
      BY <2>1 DEF Replaced
    <2>3. lock' = q  BY <2>1, <2>2
    <2>4. ASSUME NEW r \in Procs \ {q}, proc'[r].pc \notin {"off", "starting"}
          PROVE  ~proc'[r].current
      <3>1. CASE r = p
        <4>1. lock # "free"  BY <2>2 DEF Procs
        <4>2. ~(Present(p) /\ proc[p].current)  BY <2>2, <3>1
        <4> QED BY <1>3, <2>4, <3>1, <4>1, <4>2
      <3>2. CASE r # p  BY <1>3, <2>2, <2>4, <3>2 DEF Present
      <3> QED BY <3>1, <3>2
    <2>5. \A e \in proc'[q].taken : Absorbs(main, e)'
      BY <2>1, <2>2 DEF Absorbs, KnowsBad, Bars
    <2> QED BY <2>1, <2>2, <2>3, <2>4, <2>5 DEF Replaced, Present
  <1>7. pending' \in SUBSET Contracts /\ IsFiniteSet(pending')
    BY <1>0, FS_AddElement DEF Publishes, ContractsTypeOK
  <1>8. lock' \in Procs \cup {"free"}  BY DEF ContractsTypeOK
  <1> QED BY <1>3, <1>4, <1>5, <1>6, <1>7, <1>8

\* Nothing is published by a step that leaves journal and history alone.
LEMMA Silent ==
  ASSUME ContractsTypeOK, NEW c, UNCHANGED <<pending, found, barred>>
  PROVE  Publishes(c)
  BY DEF Publishes, ContractsTypeOK

\* How publishing goes: there is nothing to publish, there is room for it, it is in the
\* journal, or it could not be put there.
Outcome(p, c, step) ==
  \/ /\ ~Restricts(c, proc[p].src) /\ Goes(p, c, Written[step])
     /\ UNCHANGED <<pending, blocked, found, barred>>
  \/ Goes(p, c, step) /\ UNCHANGED <<pending, blocked, found, barred>>
  \/ /\ Goes(p, c, Written[step]) /\ Told(p, c) /\ pending' = pending \cup {c}
     /\ UNCHANGED blocked
  \/ Unpublished(p, c)

\* An entry that is in the journal already adds nothing to it.
LEMMA PublishIs ==
  ASSUME NEW p, NEW c, NEW step, Publish(p, c, step)
  PROVE  Outcome(p, c, step)
  <1>1. c \in pending => pending = pending \cup {c}  OBVIOUS
  <1> QED BY <1>1 DEF Publish, Outcome

\* An operation changes the contract in a book and publishes it, or could not.
LEMMA PublishChanges ==
  ASSUME ContractsInv, NEW p \in Procs, NEW c, Sound(c), Keeps(proc[p].mem, c),
         NEW step \in {"saving", "rereading"}, proc[p].pc \in {"ready", "saving", "rereading"},
         Outcome(p, c, step), UNCHANGED <<now, main, lock>>
  PROVE  /\ FileKnows' /\ (\A q \in Procs : CopyKnows(q)' /\ Replaced(q)')
         /\ proc' \in [Procs -> Books] /\ pending' \in SUBSET Contracts /\ IsFiniteSet(pending')
         /\ blocked' \in BOOLEAN /\ error' \in BOOLEAN
         /\ found' \in Findings /\ barred' \in SUBSET Nat
         /\ found.bad <= found'.bad /\ found.failed <= found'.failed
         /\ found'.bad <= now /\ found'.failed <= now
  <1> USE DEF ContractsInv
  <1> DEFINE m == proc[p].mem
             old == proc[p].src
             b(pc) == [proc[p] EXCEPT !.mem = c, !.pc = pc]
  <1>0. /\ c \in Contracts /\ proc[p] \in Books /\ old \in Contracts /\ Present(p)
        /\ proc \in [Procs -> Books] /\ found \in Findings /\ barred \in SUBSET Nat
        /\ blocked \in BOOLEAN /\ error \in BOOLEAN /\ found.bad <= now /\ found.failed <= now
    BY DEF Sound, ContractsTypeOK, Books, Present, Timely
  <1>1. ASSUME NEW pc \in {"saving", "rereading", "published", "reloading", "ready"}
        PROVE  /\ b(pc) \in Books /\ b(pc).mem = c /\ b(pc).pc = pc
               /\ b(pc).current = proc[p].current
    BY <1>0, <1>1 DEF Books
  <1>2. proc[p].current => Covered(c)
    <2>1. proc[p].current => Covered(m)  BY <1>0 DEF CopyKnows
    <2> QED BY <2>1, KeepsCovered
  <1>3. c.at \in Nat /\ c.done \in Nat /\ c.at <= now /\ c.done <= now
        /\ found.bad \in Nat /\ found.failed \in Nat /\ now \in Nat
    BY <1>0 DEF Sound, Contracts, Findings, ContractsTypeOK
  <1>4. ASSUME NEW pc \in {"saving", "rereading", "published", "reloading", "ready"},
               proc' = [proc EXCEPT ![p].mem = c, ![p].pc = pc], Publishes(c)
        PROVE  /\ FileKnows' /\ (\A q \in Procs : CopyKnows(q)' /\ Replaced(q)')
               /\ proc' \in [Procs -> Books] /\ pending' \in SUBSET Contracts /\ IsFiniteSet(pending')
    <2>1. proc' = [proc EXCEPT ![p] = b(pc)]  BY <1>0, <1>4
    <2>2. /\ b(pc) \in Books /\ b(pc).mem = c /\ b(pc).pc # "saved"
          /\ b(pc).current => Covered(c) /\ Present(p) /\ proc[p].current
      BY <1>0, <1>1, <1>2
    <2> HIDE DEF b
    <2> QED BY <1>4, <2>1, <2>2, BookChanges
  <1> DEFINE next == Written[step]
  <1>8. next \in {"published", "reloading"}  BY DEF Written
  <1> HIDE DEF next
  <1>5. ASSUME NEW pc \in {step, next}, Goes(p, c, pc), UNCHANGED <<pending, blocked, found, barred>>
        PROVE  /\ FileKnows' /\ (\A q \in Procs : CopyKnows(q)' /\ Replaced(q)')
               /\ proc' \in [Procs -> Books] /\ pending' \in SUBSET Contracts /\ IsFiniteSet(pending')
               /\ blocked' \in BOOLEAN /\ error' \in BOOLEAN
               /\ found' \in Findings /\ barred' \in SUBSET Nat
               /\ found.bad <= found'.bad /\ found.failed <= found'.failed
               /\ found'.bad <= now /\ found'.failed <= now
    <2>1. Publishes(c)  BY <1>5, Silent
    <2>2. proc' = [proc EXCEPT ![p].mem = c, ![p].pc = pc]  BY <1>5 DEF Goes
    <2>3. blocked' = blocked /\ error' = error /\ found' = found /\ barred' = barred
      BY <1>5 DEF Goes
    <2>4. /\ FileKnows' /\ (\A q \in Procs : CopyKnows(q)' /\ Replaced(q)')
          /\ proc' \in [Procs -> Books] /\ pending' \in SUBSET Contracts /\ IsFiniteSet(pending')
      BY <1>4, <1>8, <2>1, <2>2
    <2>5. found.bad <= found.bad /\ found.failed <= found.failed  BY <1>3
    <2> QED BY <1>0, <2>3, <2>4, <2>5
  <1>6. CASE Goes(p, c, next) /\ Told(p, c) /\ pending' = pending \cup {c} /\ UNCHANGED blocked
    <2>1. /\ found' = With(found, c, old) /\ barred' = barred \cup (c.revoked \ old.revoked)
      BY <1>6 DEF Told
    <2>2. /\ found' \in Findings /\ found.bad <= found'.bad /\ found.failed <= found'.failed
          /\ found'.bad <= now /\ found'.failed <= now
          /\ found'.bad = found.bad \/ (c.bad /\ found'.bad = c.at /\ found.bad <= c.at)
          /\ \/ found'.failed = found.failed
             \/ c.last = "failed" /\ found'.failed = c.done /\ found.failed <= c.done
      BY <1>0, <1>3, <2>1 DEF With, Later, Findings
    <2>3. barred' \in SUBSET Nat  BY <1>0, <2>1 DEF Contracts
    <2>4. Publishes(c)  BY <1>6, <2>1, <2>2, <2>3 DEF Publishes
    <2>5. proc' = [proc EXCEPT ![p].mem = c, ![p].pc = next]  BY <1>6 DEF Goes
    <2> QED BY <1>0, <1>4, <1>6, <1>8, <2>2, <2>3, <2>4, <2>5 DEF Goes
  <1>7. CASE Unpublished(p, c)
    <2> USE DEF Unpublished
    <2>1. Publishes(c)  BY <1>7, Silent
    <2>2. blocked' \in BOOLEAN /\ error' \in BOOLEAN  BY <1>0, <1>7 DEF Stop
    <2>3. CASE p = "window"  BY <1>0, <1>3, <1>4, <1>7, <2>1, <2>2, <2>3
    <2>4. CASE p # "window"
      <3> DEFINE g == Away("off")
      <3>1. proc' = [proc EXCEPT ![p] = g]  BY <1>7, <2>4 DEF Stop
      <3>2. g \in Books /\ g.mem = First /\ g.pc = "off" /\ Sound(First)
        <4>1. Sound(First)  BY FirstSound
        <4>2. First \in Contracts  BY <4>1 DEF Sound
        <4> QED BY <4>1, <4>2 DEF Away, Book, Books
      <3>3. Publishes(g.mem)  BY <1>7, Silent
      <3> HIDE DEF g
      <3>4. /\ FileKnows' /\ (\A q \in Procs : CopyKnows(q)' /\ Replaced(q)')
            /\ proc' \in [Procs -> Books] /\ pending' \in SUBSET Contracts /\ IsFiniteSet(pending')
        BY <3>1, <3>2, <3>3, BookChanges
      <3> QED BY <1>0, <1>3, <1>7, <2>2, <3>4
    <2> QED BY <2>3, <2>4
  <1> QED BY <1>5, <1>6, <1>7 DEF Outcome, next
-----------------------------------------------------------------------------
(* The window's own knowledge.                                             *)

\* A step of the agent does not touch it.
LEMMA WindowStays ==
  ASSUME ContractsInv, proc'["window"].pc = proc["window"].pc,
         proc'["window"].mem = proc["window"].mem, proc'["window"].src = proc["window"].src,
         UNCHANGED <<error, seen>>, found' \in Findings,
         found.bad <= found'.bad, found.failed <= found'.failed
  PROVE  WindowKnows'
  <1>1. /\ seen.bad \in Nat /\ seen.failed \in Nat /\ found.bad \in Nat /\ found.failed \in Nat
        /\ found'.bad \in Nat /\ found'.failed \in Nat
    BY DEF ContractsInv, ContractsTypeOK, Findings
  <1>2. Idle' = Idle  BY DEF Idle
  <1> QED BY <1>1, <1>2 DEF ContractsInv, WindowKnows, Knows, KnowsBad

\* An operation of the window: what it finds is in its copy, and published or latched.
LEMMA WindowSaves ==
  ASSUME ContractsInv, Idle, NEW c, Sound(c), Keeps(Mine, c),
         Outcome("window", c, "saving"), seen' = With(seen, c, Mine)
  PROVE  /\ WindowKnows' /\ seen' \in Findings /\ seen'.bad <= now /\ seen'.failed <= now
  <1> USE DEF ContractsInv
  <1> DEFINE b == proc["window"]
             badNews == c.bad /\ (~Mine.bad \/ c.at # Mine.at)
             failNews == c.last = "failed" /\ (c.last # Mine.last \/ c.done # Mine.done)
  <1>0. /\ b \in Books /\ b.pc = "ready" /\ ~error /\ b.mem = Mine /\ b.src = Mine
        /\ Mine \in Contracts /\ c \in Contracts /\ proc \in [Procs -> Books] /\ "window" \in Procs
    BY DEF ContractsTypeOK, Books, Idle, Mine, WindowKnows, Sound, Procs
  <1>1. /\ seen \in Findings /\ found \in Findings /\ now \in Nat
        /\ seen.bad \in Nat /\ seen.failed \in Nat /\ found.bad \in Nat /\ found.failed \in Nat
        /\ c.at \in Nat /\ c.done \in Nat /\ c.at <= now /\ c.done <= now /\ c.obs \in Nat
        /\ seen.bad <= now /\ seen.failed <= now
    BY <1>0 DEF ContractsTypeOK, Findings, Contracts, Sound, Timely
  <1>2. seen.bad <= found.bad /\ seen.failed <= found.failed  BY <1>0 DEF WindowKnows
  <1>3. Knows(c, seen)
    <2>1. Knows(Mine, seen)  BY DEF WindowKnows, Mine
    <2> QED BY <2>1, KeepsCovered
  <1>4. /\ seen'.bad = IF badNews THEN Later(seen.bad, c.at) ELSE seen.bad
        /\ seen'.failed = IF failNews THEN Later(seen.failed, c.done) ELSE seen.failed
        /\ seen' = [bad |-> seen'.bad, failed |-> seen'.failed]
    BY DEF With
  <1>5. /\ seen'.bad \in Nat /\ seen'.failed \in Nat /\ seen' \in Findings
        /\ seen'.bad <= now /\ seen'.failed <= now
    BY <1>1, <1>4 DEF Later, Findings
  <1>6. Knows(c, seen')
    <2>1. KnowsBad(c, seen'.bad)  BY <1>1, <1>3, <1>4 DEF Later, Knows, KnowsBad
    <2>2. c.done >= seen'.failed  BY <1>1, <1>3, <1>4 DEF Later, Knows
    <2> QED BY <2>1, <2>2 DEF Knows
  <1>7. ASSUME NEW pc \in {"saving", "published", "ready"}, proc' = [proc EXCEPT !["window"].mem = c, !["window"].pc = pc]
        PROVE  proc'["window"].mem = c /\ proc'["window"].pc = pc /\ proc'["window"].src = Mine
    BY <1>0, <1>7 DEF Books
  <1>8. CASE Goes("window", c, "published") /\ seen'.bad <= found'.bad /\ seen'.failed <= found'.failed
    <2>1. proc'["window"].mem = c /\ proc'["window"].pc = "published"  BY <1>7, <1>8 DEF Goes
    <2>2. ~Idle'  BY <2>1 DEF Idle
    <2> QED BY <1>5, <1>6, <1>8, <2>1, <2>2 DEF WindowKnows, Knows, KnowsBad
  <1>9. CASE /\ ~Restricts(c, b.src) /\ Goes("window", c, "published") /\ UNCHANGED found
    <2>1. seen'.bad = seen.bad /\ seen'.failed = seen.failed
      BY <1>0, <1>4, <1>9 DEF Restricts
    <2> QED BY <1>2, <1>8, <1>9, <2>1
  <1>10. CASE Goes("window", c, "published") /\ Told("window", c)
    <2>1. /\ found'.bad = IF badNews THEN Later(found.bad, c.at) ELSE found.bad
          /\ found'.failed = IF failNews THEN Later(found.failed, c.done) ELSE found.failed
      BY <1>0, <1>10 DEF Told, With
    <2>2. seen'.bad <= found'.bad /\ seen'.failed <= found'.failed
      BY <1>1, <1>2, <1>4, <2>1 DEF Later
    <2> QED BY <1>8, <1>10, <2>2
  <1>11. ASSUME UNCHANGED found, NEW pc \in {"saving", "ready"}, pc = "ready" => error',
                proc' = [proc EXCEPT !["window"].mem = c, !["window"].pc = pc]
         PROVE  WindowKnows'
    <2>1. proc'["window"].mem = c /\ proc'["window"].pc = pc /\ proc'["window"].src = Mine
      BY <1>7, <1>11
    <2>2. ~Idle'  BY <1>11, <2>1 DEF Idle
    <2>3. seen'.bad <= found.bad \/ (c.bad /\ c.at >= seen'.bad /\ (Mine.bad => Mine.at # c.at))
      BY <1>1, <1>2, <1>4 DEF Later
    <2>4. \/ seen'.failed <= found.failed
          \/ c.last = "failed" /\ c.done >= seen'.failed /\ (Mine.last = "failed" => Mine.done # c.done)
      BY <1>1, <1>2, <1>4 DEF Later
    <2> QED BY <1>5, <1>6, <1>11, <2>1, <2>2, <2>3, <2>4 DEF WindowKnows, Knows, KnowsBad
  <1>12. WindowKnows'
    <2>1. CASE Goes("window", c, "saving") /\ UNCHANGED found
      BY <1>11, <2>1 DEF Goes
    <2>2. CASE Unpublished("window", c)
      BY <1>11, <2>2 DEF Unpublished
    <2> QED BY <1>9, <1>10, <2>1, <2>2 DEF Outcome, Written
  <1> QED BY <1>5, <1>12

\* Before the window throws its copy away, or replaces the file, what it found is published.
LEMMA ReloadPublishes ==
  ASSUME ContractsInv, proc["window"].pc \in {"ready", "saving", "rereading"},
         NEW step \in {"saving", "rereading"}, Outcome("window", Mine, step), UNCHANGED seen
  PROVE  WindowKnows'
  <1> USE DEF ContractsInv
  <1> DEFINE b == proc["window"]
  <1>0. /\ b \in Books /\ b.mem = Mine /\ b.src \in Contracts
        /\ Mine \in Contracts /\ proc \in [Procs -> Books] /\ "window" \in Procs
    BY DEF ContractsTypeOK, Books, Mine, Procs
  <1>1. /\ seen.bad \in Nat /\ seen.failed \in Nat /\ found.bad \in Nat /\ found.failed \in Nat
        /\ Mine.at \in Nat /\ Mine.done \in Nat
    BY <1>0 DEF ContractsTypeOK, Findings, Contracts
  <1>2. /\ Knows(Mine, seen)
        /\ \/ seen.bad <= found.bad
           \/ Mine.bad /\ Mine.at >= seen.bad /\ (b.src.bad => b.src.at # Mine.at)
        /\ \/ seen.failed <= found.failed
           \/ /\ Mine.last = "failed" /\ Mine.done >= seen.failed
              /\ (b.src.last = "failed" => b.src.done # Mine.done)
    BY <1>0 DEF WindowKnows
  <1> DEFINE next == Written[step]
  <1>8. next \in {"published", "reloading"}  BY DEF Written
  <1> HIDE DEF next
  <1>3. ASSUME NEW pc \in {"saving", "rereading", "published", "reloading", "ready"},
               proc' = [proc EXCEPT !["window"].mem = Mine, !["window"].pc = pc]
        PROVE  proc'["window"].mem = Mine /\ proc'["window"].pc = pc /\ proc'["window"].src = b.src
    BY <1>0, <1>3 DEF Books
  <1>4. CASE Goes("window", Mine, next) /\ seen.bad <= found'.bad /\ seen.failed <= found'.failed
    <2>1. proc'["window"].mem = Mine /\ proc'["window"].pc = next  BY <1>3, <1>4, <1>8 DEF Goes
    <2>2. ~Idle'  BY <1>8, <2>1 DEF Idle
    <2>3. seen'.bad = seen.bad /\ seen'.failed = seen.failed  OBVIOUS
    <2> QED BY <1>2, <1>4, <1>8, <2>1, <2>2, <2>3 DEF WindowKnows, Knows, KnowsBad
  <1>5. CASE /\ ~Restricts(Mine, b.src) /\ Goes("window", Mine, next) /\ UNCHANGED found
    <2>1. seen.bad <= found.bad /\ seen.failed <= found.failed  BY <1>2, <1>5 DEF Restricts
    <2> QED BY <1>4, <1>5, <2>1
  <1>6. CASE Goes("window", Mine, next) /\ Told("window", Mine)
    <2>1. found' = With(found, Mine, b.src)  BY <1>6 DEF Told
    <2>2. seen.bad <= found'.bad /\ seen.failed <= found'.failed
      BY <1>1, <1>2, <2>1 DEF Later, With
    <2> QED BY <1>4, <1>6, <2>2
  <1>7. ASSUME UNCHANGED found, NEW pc \in {"saving", "rereading", "ready"}, pc = "ready" => error',
               proc' = [proc EXCEPT !["window"].mem = Mine, !["window"].pc = pc]
        PROVE  WindowKnows'
    <2>1. proc'["window"].mem = Mine /\ proc'["window"].pc = pc /\ proc'["window"].src = b.src
      BY <1>3, <1>7
    <2>2. ~Idle'  BY <1>7, <2>1 DEF Idle
    <2>3. seen'.bad = seen.bad /\ seen'.failed = seen.failed  OBVIOUS
    <2> QED BY <1>2, <1>7, <2>1, <2>2, <2>3 DEF WindowKnows, Knows, KnowsBad
  <1>9. CASE Goes("window", Mine, step) /\ UNCHANGED found
    BY <1>7, <1>9 DEF Goes
  <1>10. CASE Unpublished("window", Mine)
    BY <1>7, <1>10 DEF Unpublished
  <1> QED BY <1>5, <1>6, <1>9, <1>10 DEF Outcome, next
-----------------------------------------------------------------------------
(* The operations.                                                         *)

Checks == [rev : Nat, started : Nat]

\* An operation of the window that publishes what it finds.
LEMMA WindowOperates ==
  ASSUME ContractsInv, Idle, NEW c, Sound(c), Keeps(Mine, c), Save("window", c),
         seen' = With(seen, c, Mine), UNCHANGED <<now, main, lock>>,
         used' \in SUBSET Nat, check' \in Checks
  PROVE  ContractsInv'
  <1> USE DEF ContractsInv
  <1>1. Outcome("window", c, "saving") /\ ops' = ops + 1  BY PublishIs DEF Save, Counted
  <1>2. "window" \in Procs /\ proc["window"].pc = "ready" /\ Mine = proc["window"].mem
    BY DEF Procs, Idle, Mine
  <1>3. /\ FileKnows' /\ (\A q \in Procs : CopyKnows(q)' /\ Replaced(q)')
        /\ proc' \in [Procs -> Books] /\ pending' \in SUBSET Contracts /\ IsFiniteSet(pending')
        /\ blocked' \in BOOLEAN /\ error' \in BOOLEAN
        /\ found' \in Findings /\ barred' \in SUBSET Nat
        /\ found'.bad <= now /\ found'.failed <= now
    BY <1>1, <1>2, PublishChanges
  <1>4. WindowKnows' /\ seen' \in Findings /\ seen'.bad <= now /\ seen'.failed <= now
    BY <1>1, WindowSaves
  <1>5. ContractsTypeOK'  BY <1>1, <1>3, <1>4 DEF ContractsTypeOK, Checks
  <1>6. Timely'  BY <1>3, <1>4 DEF Timely
  <1> QED BY <1>3, <1>4, <1>5, <1>6

\* An operation of the agent.
LEMMA AgentOperates ==
  ASSUME ContractsInv, NEW c, Sound(c), Keeps(proc["agent"].mem, c), Save("agent", c),
         proc["agent"].pc = "ready", UNCHANGED <<now, main, lock, check, seen>>,
         used' \in SUBSET Nat
  PROVE  ContractsInv'
  <1> USE DEF ContractsInv
  <1>1. Outcome("agent", c, "saving") /\ ops' = ops + 1  BY PublishIs DEF Save, Counted
  <1>2. "agent" \in Procs /\ "window" \in Procs /\ "agent" # "window"  BY DEF Procs
  <1>3. /\ FileKnows' /\ (\A q \in Procs : CopyKnows(q)' /\ Replaced(q)')
        /\ proc' \in [Procs -> Books] /\ pending' \in SUBSET Contracts /\ IsFiniteSet(pending')
        /\ blocked' \in BOOLEAN /\ error' \in BOOLEAN
        /\ found' \in Findings /\ barred' \in SUBSET Nat
        /\ found.bad <= found'.bad /\ found.failed <= found'.failed
        /\ found'.bad <= now /\ found'.failed <= now
    BY <1>1, <1>2, PublishChanges
  <1>4. proc'["window"] = proc["window"] /\ error' = error
    BY <1>1, <1>2 DEF Outcome, Unpublished, Goes, Stop, ContractsTypeOK
  <1>5. WindowKnows'  BY <1>3, <1>4, WindowStays
  <1>6. ContractsTypeOK'  BY <1>1, <1>3 DEF ContractsTypeOK
  <1>7. Timely'  BY <1>3 DEF Timely
  <1> QED BY <1>3, <1>5, <1>6, <1>7

\* Rehearsals are named by numbers.
LEMMA UsesNumbers ==
  ASSUME ContractsTypeOK, NEW p \in Rehearsals, Use(p)
  PROVE  used' \in SUBSET Nat
  <1>1. p.proof \in 2..now /\ now \in Nat  BY DEF Rehearsals, ContractsTypeOK
  <1>2. p.proof \in Nat  BY <1>1
  <1> QED BY <1>2 DEF Use, ContractsTypeOK

\* Saving the intervals changes nothing that was found.
LEMMA SetSettingsStep == ContractsInv /\ SetSettings => ContractsInv'
  <1> SUFFICES ASSUME ContractsInv, SetSettings PROVE ContractsInv'  OBVIOUS
  <1> DEFINE c == [Mine EXCEPT !.rev = @ + 1]
  <1>1. Sound(Mine) /\ Mine \in Contracts
    BY DEF ContractsInv, CopyKnows, Mine, Procs, Sound
  <1>2. Sound(c) /\ Keeps(Mine, c)  BY <1>1, SettingsKeep
  <1>3. c.bad = Mine.bad /\ c.at = Mine.at /\ c.last = Mine.last /\ c.done = Mine.done
    BY <1>1 DEF Contracts
  <1>4. Idle /\ Save("window", c) /\ UNCHANGED <<world, main, lock, check, seen>>
    BY DEF SetSettings
  <1> HIDE DEF c
  <1>5. With(seen, c, Mine) = seen
    BY <1>3 DEF With, ContractsInv, ContractsTypeOK, Findings
  <1>6. used' \in SUBSET Nat /\ check' \in Checks /\ UNCHANGED <<now, main, lock>>
    BY <1>4 DEF world, ContractsInv, ContractsTypeOK, Checks
  <1> QED BY <1>2, <1>4, <1>5, <1>6, WindowOperates

\* A profile that is gone bars the contract in the window.
LEMMA ProfileGoneStep == ContractsInv /\ ProfileGone => ContractsInv'
  <1> SUFFICES ASSUME ContractsInv, ProfileGone PROVE ContractsInv'  OBVIOUS
  <1> DEFINE c == Invalidate(Mine, now)
  <1>1. Sound(Mine) /\ Mine \in Contracts /\ ContractsTypeOK
    BY DEF ContractsInv, CopyKnows, Mine, Procs, Sound
  <1>2. /\ Sound(c) /\ Keeps(Mine, c) /\ c.bad /\ c.at = now
        /\ c.last = Mine.last /\ c.done = Mine.done
    BY <1>1, InvalidKeeps
  <1>3. /\ Idle /\ ~Mine.bad /\ Save("window", c) /\ seen' = [seen EXCEPT !.bad = now]
        /\ UNCHANGED <<world, main, lock, check>>
    BY DEF ProfileGone
  <1> HIDE DEF c
  <1>4. With(seen, c, Mine) = [seen EXCEPT !.bad = now]
    <2>1. Later(seen.bad, now) = now
      BY DEF ContractsInv, ContractsTypeOK, Findings, Timely, Later
    <2> QED BY <1>2, <1>3, <2>1 DEF With, ContractsInv, ContractsTypeOK, Findings
  <1>5. used' \in SUBSET Nat /\ check' \in Checks /\ UNCHANGED <<now, main, lock>>
    BY <1>3 DEF world, ContractsInv, ContractsTypeOK, Checks
  <1> QED BY <1>2, <1>3, <1>4, <1>5, WindowOperates

\* A rehearsal the window adopts was observed after all that was found.
LEMMA AdoptStep == ContractsInv /\ Adopt => ContractsInv'
  <1> SUFFICES ASSUME ContractsInv, Adopt PROVE ContractsInv'  OBVIOUS
  <1>1. Sound(Mine) /\ ContractsTypeOK  BY DEF ContractsInv, CopyKnows, Mine, Procs
  <1>2. PICK p \in Rehearsals : MayRenew(Mine, p) /\ Use(p) /\ Save("window", Renew(Mine, p))
    BY DEF Adopt
  <1> DEFINE c == Renew(Mine, p)
  <1>3. Sound(c) /\ Keeps(Mine, c) /\ ~c.bad /\ c.last = "none"  BY <1>1, <1>2, RenewKeeps
  <1>4. Save("window", c)  BY <1>2
  <1> HIDE DEF c
  <1>5. With(seen, c, Mine) = seen
    BY <1>3 DEF With, ContractsInv, ContractsTypeOK, Findings
  <1>6. used' \in SUBSET Nat  BY <1>1, <1>2, UsesNumbers
  <1>7. Idle /\ check' \in Checks /\ seen' = seen /\ UNCHANGED <<now, main, lock>>
    BY DEF Adopt, ContractsInv, ContractsTypeOK, Checks
  <1> QED BY <1>3, <1>4, <1>5, <1>6, <1>7, WindowOperates

\* An answer that does not fit what is known counts against the contract.
LEMMA CheckEndsStep == ContractsInv /\ CheckEnds => ContractsInv'
  <1> SUFFICES ASSUME ContractsInv, CheckEnds PROVE ContractsInv'  OBVIOUS
  <1>1. Sound(Mine) /\ ContractsTypeOK  BY DEF ContractsInv, CopyKnows, Mine, Procs
  <1>2. check' \in Checks /\ UNCHANGED <<world, main, lock>> /\ proc["window"].pc = "ready"
    BY DEF CheckEnds, NoCheck, Checks
  <1>3. CASE UNCHANGED <<pending, blocked, proc, error, history>>
    <2>1. UNCHANGED <<now, used, main, pending, blocked, lock, proc, error, ops, seen, found, barred>>
      BY <1>2, <1>3 DEF world, history
    <2> QED BY <1>2, <2>1
      DEF ContractsInv, ContractsTypeOK, Timely, FileKnows, WindowKnows, CopyKnows, Replaced,
          Sound, Accepted, Covered, Knows, KnowsBad, Bars, Absorbs, Present, Idle, Checks
  <1>4. ASSUME ~error, NEW res \in {"same", "drift", "failed"}, NEW c,
               c = IF check.started >= Mine.done THEN ApplyCheck(Mine, res, now)
                   ELSE Invalidate(Mine, now),
               Save("window", c), seen' = With(seen, c, Mine)
        PROVE  ContractsInv'
    <2>1. Sound(c) /\ Keeps(Mine, c)  BY <1>1, <1>4, CheckKeeps, InvalidKeeps
    <2>2. Idle  BY <1>2, <1>4 DEF Idle
    <2>3. used' \in SUBSET Nat /\ UNCHANGED <<now, main, lock>>
      BY <1>1, <1>2 DEF world, ContractsTypeOK
    <2> QED BY <1>2, <1>4, <2>1, <2>2, <2>3, WindowOperates
  <1> QED BY <1>3, <1>4 DEF CheckEnds

\* The agent compares production.
LEMMA AgentChecksStep == ContractsInv /\ AgentChecks => ContractsInv'
  <1> SUFFICES ASSUME ContractsInv, AgentChecks PROVE ContractsInv'  OBVIOUS
  <1> DEFINE m == proc["agent"].mem
  <1>1. Sound(m) /\ ContractsTypeOK  BY DEF ContractsInv, CopyKnows, Procs
  <1>2. PICK res \in {"same", "drift", "failed"} : Save("agent", ApplyCheck(m, res, now))
    BY DEF AgentChecks
  <1>3. Sound(ApplyCheck(m, res, now)) /\ Keeps(m, ApplyCheck(m, res, now))  BY <1>1, CheckKeeps
  <1>4. /\ proc["agent"].pc = "ready" /\ UNCHANGED <<now, main, lock, check, seen>>
        /\ used' \in SUBSET Nat
    BY <1>1 DEF AgentChecks, world, ContractsTypeOK
  <1> QED BY <1>2, <1>3, <1>4, AgentOperates

\* The agent renews with a rehearsal that ends now.
LEMMA AgentRenewsStep == ContractsInv /\ AgentRenews => ContractsInv'
  <1> SUFFICES ASSUME ContractsInv, AgentRenews PROVE ContractsInv'  OBVIOUS
  <1> DEFINE m == proc["agent"].mem
  <1>1. Sound(m) /\ ContractsTypeOK  BY DEF ContractsInv, CopyKnows, Procs
  <1>2. PICK p \in Rehearsals : MayRenew(m, p) /\ Use(p) /\ Save("agent", Renew(m, p))
    BY DEF AgentRenews
  <1>3. Sound(Renew(m, p)) /\ Keeps(m, Renew(m, p))  BY <1>1, <1>2, RenewKeeps
  <1>4. used' \in SUBSET Nat  BY <1>1, <1>2, UsesNumbers
  <1>5. proc["agent"].pc = "ready" /\ UNCHANGED <<now, main, lock, check, seen>>
    BY DEF AgentRenews
  <1> QED BY <1>2, <1>3, <1>4, <1>5, AgentOperates

\* A reload publishes what the window found first.
LEMMA ReloadStep == ContractsInv /\ Reload => ContractsInv'
  <1> SUFFICES ASSUME ContractsInv, Reload PROVE ContractsInv'  OBVIOUS
  <1> USE DEF ContractsInv
  <1>1. /\ proc["window"].pc = "ready" /\ Outcome("window", Mine, "rereading") /\ ops' = ops + 1
        /\ UNCHANGED <<world, main, lock, check, seen>> /\ "window" \in Procs
    BY PublishIs DEF Reload, Counted, Procs
  <1>2. Mine = proc["window"].mem /\ Sound(Mine) /\ Keeps(Mine, Mine)
    BY <1>1 DEF CopyKnows, Mine, Keeps
  <1>3. UNCHANGED <<now, main, lock>>  BY <1>1 DEF world
  <1>4. /\ FileKnows' /\ (\A q \in Procs : CopyKnows(q)' /\ Replaced(q)')
        /\ proc' \in [Procs -> Books] /\ pending' \in SUBSET Contracts /\ IsFiniteSet(pending')
        /\ blocked' \in BOOLEAN /\ error' \in BOOLEAN
        /\ found' \in Findings /\ barred' \in SUBSET Nat
        /\ found'.bad <= now /\ found'.failed <= now
    BY <1>1, <1>2, <1>3, PublishChanges
  <1>5. WindowKnows'  BY <1>1, ReloadPublishes
  <1>6. ContractsTypeOK'  BY <1>1, <1>4 DEF ContractsTypeOK, world
  <1>7. Timely'  BY <1>1, <1>4 DEF Timely, world
  <1> QED BY <1>4, <1>5, <1>6, <1>7

\* The entry that was counted is written.
LEMMA WriteEntryStep ==
  ASSUME ContractsInv, NEW p \in Procs, WriteEntry(p) PROVE ContractsInv'
  <1> USE DEF ContractsInv
  <1> DEFINE c == proc[p].mem
             step == proc[p].pc
  <1>1. /\ step \in {"saving", "rereading"} /\ Outcome(p, c, step)
        /\ UNCHANGED <<now, used, main, lock, check, ops, seen>>
    BY DEF WriteEntry, Outcome, world
  <1>2. Sound(c) /\ Keeps(proc[p].mem, c)  BY DEF CopyKnows, Keeps
  <1> HIDE DEF c, step
  <1>3. /\ FileKnows' /\ (\A q \in Procs : CopyKnows(q)' /\ Replaced(q)')
        /\ proc' \in [Procs -> Books] /\ pending' \in SUBSET Contracts /\ IsFiniteSet(pending')
        /\ blocked' \in BOOLEAN /\ error' \in BOOLEAN
        /\ found' \in Findings /\ barred' \in SUBSET Nat
        /\ found.bad <= found'.bad /\ found.failed <= found'.failed
        /\ found'.bad <= now /\ found'.failed <= now
    BY <1>1, <1>2, PublishChanges DEF step
  <1>4. WindowKnows'
    <2>1. CASE p = "window"
      <3>1. Mine = c  BY <2>1 DEF Mine, c
      <3> QED BY <1>1, <2>1, <3>1, ReloadPublishes DEF step
    <2>2. CASE p # "window"
      <3>1. proc'["window"] = proc["window"] /\ error' = error
        BY <1>1, <2>2 DEF Outcome, Unpublished, Goes, Stop, ContractsTypeOK, Procs
      <3> QED BY <1>1, <1>3, <3>1, WindowStays
    <2> QED BY <2>1, <2>2
  <1>5. ContractsTypeOK'  BY <1>1, <1>3 DEF ContractsTypeOK
  <1>6. Timely'  BY <1>1, <1>3 DEF Timely
  <1> QED BY <1>3, <1>4, <1>5, <1>6
-----------------------------------------------------------------------------
(* Loading, ending and failing.                                            *)

\* A process takes up another book without publishing anything.
LEMMA BookStep ==
  ASSUME ContractsInv, NEW p \in Procs, NEW b \in Books,
         proc' = [proc EXCEPT ![p] = b],
         lock' = lock \/ (lock = p /\ lock' = "free"),
         Sound(b.mem), b.pc # "saved",
         b.pc \notin {"off", "starting"} /\ b.current =>
           Covered(b.mem) /\ ((Present(p) /\ proc[p].current) \/ lock = "free"),
         error' \in BOOLEAN, check' \in Checks, seen' \in {seen, NoFindings},
         UNCHANGED <<world, main, pending, blocked, ops, found, barred>>,
         p = "window" => WindowKnows', p # "window" => UNCHANGED <<error, seen>>
  PROVE  ContractsInv'
  <1> USE DEF ContractsInv
  <1>1. Publishes(b.mem)  BY Silent
  <1>2. UNCHANGED <<now, main>>  BY DEF world
  <1>3. /\ FileKnows' /\ (\A q \in Procs : CopyKnows(q)' /\ Replaced(q)')
        /\ proc' \in [Procs -> Books] /\ pending' \in SUBSET Contracts /\ IsFiniteSet(pending')
        /\ lock' \in Procs \cup {"free"}
    BY <1>1, <1>2, BookChanges
  <1>4. /\ now \in Nat /\ seen' \in Findings /\ seen'.bad <= now /\ seen'.failed <= now
        /\ found \in Findings /\ found.bad \in Nat /\ found.failed \in Nat
    BY DEF ContractsTypeOK, Timely, NoFindings, Findings
  <1>5. ContractsTypeOK'  BY <1>3, <1>4 DEF ContractsTypeOK, Checks, world
  <1>6. Timely'  BY <1>4 DEF Timely, world
  <1>7. CASE p = "window"  BY <1>3, <1>5, <1>6, <1>7
  <1>8. CASE p # "window"
    <2>1. proc'["window"] = proc["window"]  BY <1>8 DEF ContractsTypeOK, Procs
    <2>2. found' \in Findings /\ found.bad <= found'.bad /\ found.failed <= found'.failed
      BY <1>4
    <2>3. WindowKnows'  BY <1>8, <2>1, <2>2, WindowStays
    <2> QED BY <1>3, <1>5, <1>6, <2>3
  <1> QED BY <1>7, <1>8

\* The book of a process that is not running.
LEMMA AwayIs ==
  ASSUME ContractsTypeOK, NEW pc \in {"off", "starting", "ready"}
  PROVE  Away(pc) \in Books /\ Away(pc).mem = First /\ Away(pc).pc = pc /\ Sound(First)
  <1>1. Sound(First)  BY FirstSound
  <1>2. First \in Contracts  BY <1>1 DEF Sound
  <1> QED BY <1>1, <1>2 DEF Away, Book, Books

\* A save or a load that fails.
LEMMA StopStep ==
  ASSUME ContractsInv, NEW p \in Procs, proc[p].pc \in {"published", "reloading"}, Stop(p),
         UNCHANGED <<world, files, check, history>>
  PROVE  ContractsInv'
  <1> USE DEF ContractsInv
  <1>0. /\ proc[p] \in Books /\ proc \in [Procs -> Books] /\ Sound(proc[p].mem) /\ Present(p)
        /\ proc[p].current => Covered(proc[p].mem)
    BY DEF ContractsTypeOK, CopyKnows, Present
  <1>1. /\ UNCHANGED <<now, used, main, pending, blocked, lock, ops, seen, found, barred, check>>
        /\ check' \in Checks
    BY DEF world, files, history, ContractsTypeOK, Checks
  <1>2. CASE p = "window"
    <2> DEFINE b == [proc[p] EXCEPT !.pc = "ready", !.taken = {}, !.late = FALSE]
    <2>1. /\ b \in Books /\ b.pc = "ready" /\ b.mem = proc[p].mem /\ b.src = proc[p].src
          /\ b.current = proc[p].current
      BY <1>0 DEF Books
    <2>2. error' = TRUE /\ proc' = [proc EXCEPT ![p] = b]  BY <1>0, <1>2 DEF Stop
    <2> HIDE DEF b
    <2>3. seen.bad <= found.bad /\ seen.failed <= found.failed /\ Knows(proc["window"].mem, seen)
      BY <1>2 DEF WindowKnows
    <2>4. proc'["window"] = b /\ ~Idle'  BY <1>0, <1>2, <2>2 DEF Idle
    <2>5. WindowKnows'
      BY <1>1, <1>2, <2>1, <2>3, <2>4 DEF WindowKnows, Knows, KnowsBad
    <2> QED BY <1>0, <1>1, <1>2, <2>1, <2>2, <2>5, BookStep DEF world
  <1>3. CASE p # "window"
    <2>1. error' = error /\ proc' = [proc EXCEPT ![p] = Away("off")]  BY <1>3 DEF Stop
    <2>2. Away("off") \in Books /\ Away("off").mem = First /\ Away("off").pc = "off" /\ Sound(First)
      BY AwayIs
    <2>3. error' \in BOOLEAN  BY <2>1 DEF ContractsTypeOK
    <2> QED BY <1>1, <1>3, <2>1, <2>2, <2>3, BookStep DEF world
  <1> QED BY <1>2, <1>3

\* A save that fails stops whoever saves.
LEMMA CommitFailsStep ==
  ASSUME ContractsInv, NEW p \in Procs, CommitFails(p) PROVE ContractsInv'
  BY StopStep DEF CommitFails

\* A book that was loaded.
LEMMA LoadStep ==
  ASSUME ContractsInv, NEW p \in Procs, Loads(p), UNCHANGED <<world, files, check, history>>,
         IF p = "window" THEN error' = FALSE /\ proc[p].pc \in {"reloading", "starting"}
                         ELSE error' = error
  PROVE  ContractsInv'
  <1> USE DEF ContractsInv
  <1>1. PICK c \in Views : lock = "free" /\ proc' = [proc EXCEPT ![p] = Book("ready", c)]
    BY DEF Loads
  <1> DEFINE b == Book("ready", c)
  <1>2. Sound(c) /\ Knows(c, found) /\ Covered(c)  BY ViewsKnow
  <1>3. b \in Books /\ b.mem = c /\ b.src = c /\ b.pc = "ready"
    BY <1>2 DEF Book, Books, Sound
  <1>4. proc' = [proc EXCEPT ![p] = b]  BY <1>1
  <1> HIDE DEF b
  <1>5. /\ UNCHANGED <<now, used, main, pending, blocked, lock, ops, seen, found, barred, check>>
        /\ check' \in Checks /\ error' \in BOOLEAN
    BY DEF world, files, history, ContractsTypeOK, Checks
  <1>6. ASSUME p = "window" PROVE WindowKnows'
    <2>1. seen.bad <= found.bad /\ seen.failed <= found.failed
      BY <1>6 DEF WindowKnows
    <2>2. /\ seen.bad \in Nat /\ seen.failed \in Nat /\ found.bad \in Nat /\ found.failed \in Nat
          /\ c \in Contracts
      BY <1>2 DEF ContractsTypeOK, Findings, Sound
    <2>3. Knows(c, seen)  BY <1>2, <2>1, <2>2 DEF Knows, KnowsBad, Contracts
    <2>4. proc'["window"] = b  BY <1>4, <1>6 DEF ContractsTypeOK
    <2> QED BY <1>3, <1>5, <2>1, <2>3, <2>4 DEF WindowKnows, Knows, KnowsBad
  <1> QED BY <1>1, <1>2, <1>3, <1>4, <1>5, <1>6, BookStep DEF world

\* A reload that ends has the file and the journal, or leaves the window barred.
LEMMA ReloadEndsStep == ContractsInv /\ ReloadEnds => ContractsInv'
  <1> SUFFICES ASSUME ContractsInv, ReloadEnds PROVE ContractsInv'  OBVIOUS
  <1>1. /\ "window" \in Procs /\ proc["window"].pc = "reloading"
        /\ UNCHANGED <<world, files, check, history>>
    BY DEF ReloadEnds, Procs
  <1>2. CASE Loads("window") /\ error' = FALSE  BY <1>1, <1>2, LoadStep
  <1>3. CASE Stop("window")  BY <1>1, <1>3, StopStep
  <1> QED BY <1>2, <1>3 DEF ReloadEnds

\* A pass of the agent starts from the file and the journal.
LEMMA PassStep == ContractsInv /\ Pass => ContractsInv'
  <1> SUFFICES ASSUME ContractsInv, Pass PROVE ContractsInv'  OBVIOUS
  <1>1. "agent" \in Procs /\ Loads("agent") /\ UNCHANGED <<world, files, check, error, history>>
    BY DEF Pass, Procs, panel
  <1> QED BY <1>1, LoadStep

\* Steps that touch neither file nor books.
LEMMA ContractsStutter ==
  ASSUME ContractsInv, check' \in Checks, UNCHANGED <<world, files, proc, error, history>>
  PROVE  ContractsInv'
  <1>1. UNCHANGED <<now, used, main, pending, blocked, lock, proc, error, ops, seen, found, barred>>
    BY DEF world, files, history
  <1> QED BY <1>1
    DEF ContractsInv, ContractsTypeOK, Timely, FileKnows, WindowKnows, CopyKnows, Replaced,
        Sound, Accepted, Covered, Knows, KnowsBad, Bars, Absorbs, Present, Idle, Checks

\* The window starts from the file and the journal, or without a book.
LEMMA StartStep == ContractsInv /\ Start => ContractsInv'
  <1> SUFFICES ASSUME ContractsInv, Start PROVE ContractsInv'  OBVIOUS
  <1>1. /\ "window" \in Procs /\ proc["window"].pc = "starting"
        /\ UNCHANGED <<world, files, check, history>>
    BY DEF Start, Procs
  <1>2. CASE Loads("window") /\ error' = FALSE  BY <1>1, <1>2, LoadStep
  <1>3. CASE UNCHANGED <<proc, error>>
    <2>1. check' \in Checks  BY <1>1 DEF ContractsInv, ContractsTypeOK, Checks
    <2> QED BY <1>1, <1>3, <2>1, ContractsStutter
  <1> QED BY <1>2, <1>3 DEF Start

\* A comparison that starts changes no contract.
LEMMA StartCheckStep == ContractsInv /\ StartCheck => ContractsInv'
  <1> SUFFICES ASSUME ContractsInv, StartCheck PROVE ContractsInv'  OBVIOUS
  <1>1. Mine \in Contracts /\ now \in Nat
    BY DEF ContractsInv, ContractsTypeOK, Mine, Procs, Books
  <1>2. check' \in Checks  BY <1>1 DEF StartCheck, Checks, Contracts
  <1> QED BY <1>2, ContractsStutter DEF StartCheck

\* A window that is closed or dies forgets its copy; what it had not published goes with it.
LEMMA RestartStep == ContractsInv /\ Restart => ContractsInv'
  <1> SUFFICES ASSUME ContractsInv, Restart PROVE ContractsInv'  OBVIOUS
  <1> USE DEF ContractsInv
  <1> DEFINE b == Away("starting")
  <1>1. b \in Books /\ b.mem = First /\ b.pc = "starting" /\ Sound(First)  BY AwayIs
  <1>2. /\ "window" \in Procs /\ proc' = [proc EXCEPT !["window"] = b] /\ error' = TRUE
        /\ lock' = lock \/ (lock = "window" /\ lock' = "free")
        /\ check' = NoCheck /\ seen' = NoFindings
        /\ UNCHANGED <<world, main, pending, blocked, ops, found, barred>>
    BY DEF Restart, Procs
  <1> HIDE DEF b
  <1>3. check' \in Checks  BY <1>2 DEF NoCheck, Checks
  <1>4. WindowKnows'
    <2>1. proc'["window"] = b  BY <1>2 DEF ContractsTypeOK
    <2>2. ~Idle'  BY <1>2 DEF Idle
    <2>3. seen'.bad = 0 /\ seen'.failed = 0  BY <1>2 DEF NoFindings
    <2>4. KnowsBad(First, 0) /\ First.done >= 0  BY DEF First, KnowsBad
    <2>5. found'.bad >= 0 /\ found'.failed >= 0  BY <1>2 DEF ContractsTypeOK, Findings
    <2> QED BY <1>1, <2>1, <2>2, <2>3, <2>4, <2>5 DEF WindowKnows, Knows, KnowsBad
  <1> QED BY <1>1, <1>2, <1>3, <1>4, BookStep

\* A pass that ends, or dies, forgets the agent's copy.
LEMMA AgentEndsStep == ContractsInv /\ AgentEnds => ContractsInv'
  <1> SUFFICES ASSUME ContractsInv, AgentEnds PROVE ContractsInv'  OBVIOUS
  <1> USE DEF ContractsInv
  <1> DEFINE b == Away("off")
  <1>1. b \in Books /\ b.mem = First /\ b.pc = "off" /\ Sound(First)  BY AwayIs
  <1>2. /\ "agent" \in Procs /\ "agent" # "window" /\ proc' = [proc EXCEPT !["agent"] = b]
        /\ lock' = lock \/ (lock = "agent" /\ lock' = "free")
        /\ UNCHANGED <<world, main, pending, blocked, ops, found, barred, seen, error, check>>
    BY DEF AgentEnds, Procs, panel, history
  <1> HIDE DEF b
  <1>3. check' \in Checks /\ error' \in BOOLEAN  BY <1>2 DEF ContractsTypeOK, Checks
  <1> QED BY <1>1, <1>2, <1>3, BookStep
-----------------------------------------------------------------------------
(* Replacing the file, and cleaning up after it.                           *)

\* A save replaces the file by a copy that has absorbed the journal.
LEMMA CommitStep ==
  ASSUME ContractsInv, NEW p \in Procs, Commit(p) PROVE ContractsInv'
  <1> USE DEF ContractsInv
  <1> DEFINE b(c) == [Book("saved", c) EXCEPT !.taken = pending, !.late = ~proc[p].current]
             other(q) == IF proc[q].pc \in {"off", "starting"} THEN proc[q]
                         ELSE [proc[q] EXCEPT !.current = FALSE]
  <1>1. PICK c \in Merged(Base(p), pending) :
          /\ main' = c /\ lock = "free" /\ lock' = p /\ proc[p].pc = "published"
          /\ proc' = [q \in Procs |-> IF q = p THEN b(c) ELSE other(q)]
          /\ UNCHANGED <<world, pending, blocked, panel, history>>
    BY DEF Commit
  <1>2. /\ UNCHANGED <<now, used, pending, blocked, error, check, ops, seen, found, barred>>
        /\ proc \in [Procs -> Books] /\ pending \in SUBSET Contracts
        /\ \A q \in Procs : proc[q] \in Books /\ Sound(proc[q].mem)
    BY <1>1 DEF world, panel, history, ContractsTypeOK, CopyKnows
  <1>3. Sound(Base(p)) /\ Covered(Base(p))
    <2>1. CASE proc[p].current  BY <1>1, <1>2, <2>1 DEF Base, CopyKnows, Present
    <2>2. CASE ~proc[p].current  BY <2>2 DEF Base, FileKnows
    <2> QED BY <2>1, <2>2
  <1>4. /\ Sound(c) /\ Grown(Base(p), c) /\ Knows(c, found) /\ Covered(c)
        /\ \A e \in pending : Absorbs(c, e)
    BY <1>3, CoveredKnows
  <1>5. /\ b(c) \in Books /\ b(c).mem = c /\ b(c).src = c /\ b(c).pc = "saved"
        /\ b(c).current = TRUE /\ b(c).taken = pending
    BY <1>2, <1>4 DEF Book, Books, Sound
  <1>6. ASSUME NEW q \in Procs \ {p}
        PROVE  /\ other(q) \in Books /\ other(q).pc = proc[q].pc
               /\ other(q).mem = proc[q].mem /\ other(q).src = proc[q].src
               /\ proc[q].pc \notin {"off", "starting"} => other(q).current = FALSE
    BY <1>2 DEF Books
  <1>7. proc'[p] = b(c) /\ \A q \in Procs \ {p} : proc'[q] = other(q)  BY <1>1
  <1>8. proc' \in [Procs -> Books]  BY <1>1, <1>5, <1>6
  <1> HIDE DEF b, other
  <1>9. ContractsTypeOK'
    BY <1>1, <1>2, <1>4, <1>8 DEF ContractsTypeOK, Sound
  <1>10. Timely'  BY <1>2 DEF Timely
  <1>11. \A d : (Sound(d) => Sound(d)') /\ (Covered(d) => Covered(d)')
    BY <1>2 DEF Sound, Covered
  <1>12. FileKnows'
    <2>1. \A e \in pending' : Sound(e)'  BY <1>2, <1>11 DEF FileKnows
    <2>2. \A d : d = c => Sound(d)' /\ Covered(d)'  BY <1>4, <1>11
    <2>3. Sound(main)' /\ Covered(main)'
      BY <1>1, <2>2 DEF Sound, Covered, Accepted, KnowsBad, Bars
    <2> QED BY <2>1, <2>3 DEF FileKnows
  <1>13. ASSUME NEW q \in Procs PROVE CopyKnows(q)'
    <2>1. CASE q = p
      <3>1. \A d : d = c => Sound(d)' /\ Covered(d)'  BY <1>4, <1>11
      <3> QED BY <1>5, <1>7, <2>1, <3>1
        DEF CopyKnows, Sound, Covered, Accepted, KnowsBad, Bars
    <2>2. CASE q # p
      <3>1. proc'[q].pc = proc[q].pc /\ proc'[q].mem = proc[q].mem
        BY <1>6, <1>7, <2>2
      <3>2. ~(Present(q)' /\ proc'[q].current)
        BY <1>6, <1>7, <2>2 DEF Present
      <3>3. \A d : d = proc[q].mem => Sound(d)'  BY <1>2, <1>11
      <3> QED BY <3>1, <3>2, <3>3 DEF CopyKnows, Sound, Accepted
    <2> QED BY <2>1, <2>2
  <1>14. ASSUME NEW q \in Procs PROVE Replaced(q)'
    <2>1. CASE q = p
      <3>1. \A e \in proc'[p].taken : Absorbs(main, e)'
        BY <1>1, <1>4, <1>5, <1>7 DEF Absorbs, KnowsBad, Bars
      <3>2. \A r \in Procs \ {p} : Present(r)' => ~proc'[r].current
        BY <1>6, <1>7 DEF Present
      <3> QED BY <1>1, <1>5, <1>7, <2>1, <3>1, <3>2 DEF Replaced
    <2>2. CASE q # p
      <3>1. proc'[q].pc = proc[q].pc  BY <1>6, <1>7, <2>2
      <3>2. proc[q].pc # "saved"  BY <1>1 DEF Replaced, Procs
      <3> QED BY <3>1, <3>2 DEF Replaced
    <2> QED BY <2>1, <2>2
  <1>15. WindowKnows'
    <2>1. CASE p = "window"
      <3>1. proc'["window"] = b(c)  BY <1>7, <2>1
      <3>2. seen.bad <= found.bad /\ seen.failed <= found.failed
        BY <1>1, <2>1 DEF WindowKnows
      <3>3. Knows(c, seen)
        <4>1. /\ seen.bad \in Nat /\ seen.failed \in Nat /\ found.bad \in Nat /\ found.failed \in Nat
              /\ c \in Contracts
          BY <1>4 DEF ContractsTypeOK, Findings, Sound
        <4> QED BY <1>4, <3>2, <4>1 DEF Knows, KnowsBad, Contracts
      <3> QED BY <1>2, <1>5, <3>1, <3>2, <3>3 DEF WindowKnows, Knows, KnowsBad
    <2>2. CASE p # "window"
      <3>1. "window" \in Procs \ {p}  BY <2>2 DEF Procs
      <3>2. /\ proc'["window"].pc = proc["window"].pc /\ proc'["window"].mem = proc["window"].mem
            /\ proc'["window"].src = proc["window"].src
        BY <1>6, <1>7, <3>1
      <3>3. found' \in Findings /\ found.bad <= found'.bad /\ found.failed <= found'.failed
        BY <1>2 DEF ContractsTypeOK, Findings
      <3> QED BY <1>2, <3>2, <3>3, WindowStays
    <2> QED BY <2>1, <2>2
  <1> QED BY <1>9, <1>10, <1>12, <1>13, <1>14, <1>15

\* What the file has absorbed may be removed from the journal.
LEMMA CleanedCovered ==
  ASSUME ContractsInv, NEW T, pending' = pending \ T, \A e \in T \cap pending : Absorbs(main, e),
         UNCHANGED <<main, found, barred>>
  PROVE  Covered(main)'
  <1>1. /\ Covered(main) /\ main \in Contracts /\ pending \in SUBSET Contracts
        /\ found.bad \in Nat /\ found.failed \in Nat
    BY DEF ContractsInv, ContractsTypeOK, FileKnows, Findings
  <1>2. KnowsBad(main, found.bad) \/ \E e \in pending' : e.bad /\ e.at >= found.bad
    <2> SUFFICES ASSUME NEW e \in T \cap pending, e.bad, e.at >= found.bad
                 PROVE  KnowsBad(main, found.bad)
      BY <1>1 DEF Covered
    <2>1. KnowsBad(main, e.at)  BY DEF Absorbs
    <2> QED BY <1>1, <2>1 DEF KnowsBad, Contracts
  <1>3. main.done >= found.failed \/ \E e \in pending' : e.last = "failed" /\ e.done >= found.failed
    <2> SUFFICES ASSUME NEW e \in T \cap pending, e.last = "failed", e.done >= found.failed
                 PROVE  main.done >= found.failed
      BY <1>1 DEF Covered
    <2>1. main.done >= e.done  BY DEF Absorbs
    <2> QED BY <1>1, <2>1 DEF Contracts
  <1>4. \A x \in barred : Bars(main, x) \/ \E e \in pending' : x \in e.revoked
    BY <1>1 DEF Covered, Absorbs
  <1> QED BY <1>2, <1>3, <1>4 DEF Covered, KnowsBad, Bars

\* A save removes the entries the file has absorbed, and gives the lock back.
LEMMA CleanStep ==
  ASSUME ContractsInv, NEW p \in Procs, Clean(p) PROVE ContractsInv'
  <1> USE DEF ContractsInv
  <1>1. /\ proc[p].pc = "saved" /\ lock' = "free"
        /\ UNCHANGED <<now, used, main, blocked, check, ops, seen, found, barred>>
    BY DEF Clean, world, history
  <1>2. /\ proc[p] \in Books /\ proc \in [Procs -> Books] /\ proc[p].taken \in SUBSET Contracts
        /\ lock = p /\ proc[p].mem = main /\ proc[p].current
        /\ \A e \in proc[p].taken : Absorbs(main, e)
        /\ \A q \in Procs \ {p} : Present(q) => ~proc[q].current
        /\ error \in BOOLEAN
    BY <1>1 DEF ContractsTypeOK, Books, Replaced
  <1> DEFINE done  == [proc[p] EXCEPT !.pc = "ready", !.taken = {}]
             stops == [proc[p] EXCEPT !.pc = "ready", !.taken = {}, !.late = FALSE]
  <1>3. PICK b \in {done, stops, Away("off")} :
          /\ proc' = [proc EXCEPT ![p] = b]
          /\ p # "window" => error' = error
          /\ p = "window" => b \in {done, stops} /\ error' \in BOOLEAN
    <2>1. Stop(p) =>
            IF p = "window" THEN error' = TRUE /\ proc' = [proc EXCEPT ![p] = stops]
            ELSE error' = error /\ proc' = [proc EXCEPT ![p] = Away("off")]
      BY <1>2 DEF Stop
    <2>2. \/ Stop(p)
          \/ proc' = [proc EXCEPT ![p] = done] /\ error' = error
      BY <1>2 DEF Clean
    <2> HIDE DEF done, stops
    <2> QED BY <1>2, <2>1, <2>2
  <1>4. /\ b \in Books /\ b.pc \in {"ready", "off"} /\ b.mem \in {main, First} /\ Sound(b.mem)
        /\ b.pc = "ready" => b.mem = main /\ b.src = proc[p].src
        /\ p = "window" => b.pc = "ready"
    <2>1. CASE b \in {done, stops}
      <3>1. b \in Books /\ b.pc = "ready" /\ b.mem = main /\ b.src = proc[p].src
        BY <1>2, <2>1 DEF Books
      <3> QED BY <3>1 DEF FileKnows
    <2>2. CASE b = Away("off") /\ p # "window"
      <3>1. Away("off") \in Books /\ Away("off").mem = First /\ Away("off").pc = "off" /\ Sound(First)
        BY AwayIs
      <3> HIDE DEF done, stops
      <3> QED BY <2>2, <3>1
    <2> QED BY <1>3, <2>1, <2>2
  <1> HIDE DEF done, stops
  <1>5. PICK T \in SUBSET proc[p].taken : pending' = pending \ T
    BY DEF Clean
  <1>6. Covered(main)'  BY <1>1, <1>2, <1>5, CleanedCovered
  <1>7. /\ proc' \in [Procs -> Books] /\ proc'[p] = b
        /\ \A q \in Procs \ {p} : proc'[q] = proc[q]
    BY <1>2, <1>3, <1>4
  <1>8. pending' \in SUBSET Contracts /\ pending' \subseteq pending /\ IsFiniteSet(pending')
    BY <1>5, FS_Subset DEF ContractsTypeOK
  <1>9. ContractsTypeOK'  BY <1>1, <1>3, <1>7, <1>8 DEF ContractsTypeOK
  <1>10. Timely'  BY <1>1 DEF Timely
  <1>11. \A d : Sound(d) => Sound(d)'  BY <1>1 DEF Sound
  <1>12. Sound(main)'
    <2>1. \A d : d = main => Sound(d)'  BY <1>11 DEF FileKnows
    <2> QED BY <1>1, <2>1 DEF Sound, Accepted
  <1>13. FileKnows'
    <2>1. \A e \in pending' : Sound(e)'  BY <1>8, <1>11 DEF FileKnows
    <2> QED BY <1>6, <1>12, <2>1 DEF FileKnows
  <1>14. ASSUME NEW q \in Procs PROVE CopyKnows(q)'
    <2>1. CASE q = p
      <3>1. \A d : d = b.mem => Sound(d)'  BY <1>4, <1>11
      <3>2. b.pc = "ready" => b.mem = main'  BY <1>1, <1>4
      <3>3. Sound(proc[q].mem)'  BY <1>7, <2>1, <3>1 DEF Sound, Accepted
      <3>4. Present(q)' => proc'[q].mem = main'  BY <1>4, <1>7, <2>1, <3>2 DEF Present
      <3> QED BY <1>6, <3>3, <3>4 DEF CopyKnows, Covered, KnowsBad, Bars
    <2>2. CASE q # p
      <3>1. proc'[q] = proc[q]  BY <1>7, <2>2
      <3>2. ~(Present(q)' /\ proc'[q].current)  BY <1>2, <2>2, <3>1 DEF Present
      <3>3. \A d : d = proc[q].mem => Sound(d)'  BY <1>11 DEF CopyKnows
      <3> QED BY <3>1, <3>2, <3>3 DEF CopyKnows, Sound, Accepted
    <2> QED BY <2>1, <2>2
  <1>15. ASSUME NEW q \in Procs PROVE Replaced(q)'
    <2>1. CASE q = p  BY <1>4, <1>7, <2>1 DEF Replaced
    <2>2. CASE q # p
      <3>1. proc'[q] = proc[q] /\ lock # q  BY <1>2, <1>7, <2>2
      <3> QED BY <3>1 DEF Replaced
    <2> QED BY <2>1, <2>2
  <1>16. WindowKnows'
    <2>1. CASE p = "window"
      <3>1. /\ proc["window"].mem = proc["window"].src /\ Knows(proc["window"].mem, seen)
            /\ seen.bad <= found.bad /\ seen.failed <= found.failed
        BY <1>1, <2>1 DEF WindowKnows
      <3>2. proc'["window"].mem = proc["window"].mem /\ proc'["window"].src = proc["window"].src
        BY <1>2, <1>4, <1>7, <2>1
      <3> QED BY <1>1, <3>1, <3>2 DEF WindowKnows, Knows, KnowsBad
    <2>2. CASE p # "window"
      <3>1. proc'["window"] = proc["window"] /\ error' = error  BY <1>3, <1>7, <2>2 DEF Procs
      <3>2. found' \in Findings /\ found.bad <= found'.bad /\ found.failed <= found'.failed
        BY <1>1 DEF ContractsTypeOK, Findings
      <3> QED BY <1>1, <3>1, <3>2, WindowStays
    <2> QED BY <2>1, <2>2
  <1> QED BY <1>9, <1>10, <1>13, <1>14, <1>15, <1>16

\* Time only makes what is known older.
LEMMA TickStep == ContractsInv /\ Tick => ContractsInv'
  <1> SUFFICES ASSUME ContractsInv, Tick PROVE ContractsInv'  OBVIOUS
  <1> USE DEF ContractsInv
  <1>1. /\ now \in Nat \ {0} /\ now' = now + 1
        /\ UNCHANGED <<used, main, pending, blocked, lock, proc, error, check, ops, seen, found, barred>>
    BY DEF Tick, files, panel, history, ContractsTypeOK
  <1>2. ContractsTypeOK'  BY <1>1 DEF ContractsTypeOK
  <1>3. Timely'  BY <1>1 DEF Timely, ContractsTypeOK, Findings
  <1>4. \A c : Sound(c) => Sound(c)'
    <2>1. now' \in Nat /\ now <= now'  BY <1>1
    <2> QED BY <2>1, SoundStays
  <1>5. Sound(main)' /\ Covered(main)'
    <2>1. \A c : c = main => Sound(c)'  BY <1>4 DEF FileKnows
    <2>2. Sound(main)'  BY <1>1, <2>1 DEF Sound, Accepted
    <2> QED BY <1>1, <2>2 DEF FileKnows, Covered, KnowsBad, Bars
  <1>6. FileKnows'
    <2>1. \A e \in pending' : Sound(e)'  BY <1>1, <1>4 DEF FileKnows
    <2> QED BY <1>5, <2>1 DEF FileKnows
  <1>7. ASSUME NEW q \in Procs PROVE CopyKnows(q)' /\ Replaced(q)'
    <2>1. \A c : c = proc[q].mem => Sound(c)'  BY <1>4 DEF CopyKnows
    <2>2. Sound(proc[q].mem)'  BY <1>1, <2>1 DEF Sound, Accepted
    <2>3. CopyKnows(q)'  BY <1>1, <2>2 DEF CopyKnows, Covered, KnowsBad, Bars, Present
    <2>4. Replaced(q)'  BY <1>1 DEF Replaced, Absorbs, KnowsBad, Bars, Present
    <2> QED BY <2>3, <2>4
  <1>8. WindowKnows'  BY <1>1 DEF WindowKnows, Knows, KnowsBad, Idle
  <1> QED BY <1>2, <1>3, <1>6, <1>7, <1>8

-----------------------------------------------------------------------------
(* The theorems.                                                           *)

\* At first nothing is found and both sides have the first contract.
LEMMA ContractsInit == Init => ContractsInv
  <1> SUFFICES ASSUME Init PROVE ContractsInv  OBVIOUS
  <1>1. /\ now = 1 /\ used = {} /\ main = First /\ pending = {} /\ blocked = FALSE /\ lock = "free"
        /\ error = FALSE /\ check = NoCheck /\ ops = 0 /\ seen = NoFindings /\ found = NoFindings
        /\ barred = {}
    BY DEF Init
  <1>2. First \in Contracts /\ Sound(First)
    BY <1>1 DEF Sound, First, Accepted, Contracts, Verdicts
  <1>3. Covered(First) /\ Knows(First, NoFindings)
    BY <1>1 DEF Covered, Knows, KnowsBad, First, NoFindings
  <1>4. /\ proc \in [Procs -> Books]
        /\ \A p \in Procs : /\ proc[p].mem = First /\ proc[p].src = First
                            /\ proc[p].pc \in {"ready", "off"}
    BY <1>2 DEF Init, Away, Book, Books, Procs
  <1>5. ContractsTypeOK
    <2>1. IsFiniteSet(pending) /\ pending \in SUBSET Contracts  BY <1>1, FS_EmptySet
    <2>2. NoCheck \in [rev : Nat, started : Nat] /\ NoFindings \in Findings
      BY DEF NoCheck, NoFindings, Findings
    <2>3. now \in Nat \ {0} /\ used \in SUBSET Nat /\ barred \in SUBSET Nat /\ ops \in Nat
      BY <1>1
    <2>4. blocked \in BOOLEAN /\ error \in BOOLEAN /\ lock \in Procs \cup {"free"}  BY <1>1
    <2>5. check \in [rev : Nat, started : Nat] /\ seen \in Findings /\ found \in Findings
      BY <1>1, <2>2
    <2>6. main \in Contracts  BY <1>1, <1>2
    <2> QED BY <1>4, <2>1, <2>3, <2>4, <2>5, <2>6 DEF ContractsTypeOK
  <1>6. Timely  BY <1>1 DEF Timely, NoFindings
  <1>7. FileKnows  BY <1>1, <1>2, <1>3 DEF FileKnows
  <1>8. WindowKnows
    <2>1. proc["window"].mem = First /\ proc["window"].src = First  BY <1>4 DEF Procs
    <2>2. seen.bad <= found.bad /\ seen.failed <= found.failed  BY <1>1 DEF NoFindings
    <2>3. Knows(proc["window"].mem, seen)  BY <1>1, <1>3, <2>1
    <2> QED BY <2>1, <2>2, <2>3 DEF WindowKnows
  <1>9. \A p \in Procs : CopyKnows(p) /\ Replaced(p)
    BY <1>2, <1>3, <1>4 DEF CopyKnows, Replaced
  <1> QED BY <1>5, <1>6, <1>7, <1>8, <1>9 DEF ContractsInv

\* Every step keeps the invariant.
LEMMA ContractsStep == ContractsInv /\ [Next]_vars => ContractsInv'
  <1> SUFFICES ASSUME ContractsInv, [Next]_vars PROVE ContractsInv'  OBVIOUS
  <1>1. CASE UNCHANGED vars
    <2>1. check' \in Checks /\ UNCHANGED <<world, files, proc, error, history>>
      BY <1>1 DEF vars, panel, ContractsInv, ContractsTypeOK, Checks
    <2> QED BY <2>1, ContractsStutter
  <1>2. CASE Window
    BY <1>2, SetSettingsStep, ProfileGoneStep, StartCheckStep, CheckEndsStep, AdoptStep, ReloadStep,
       ReloadEndsStep, RestartStep, StartStep DEF Window
  <1>3. CASE Agent
    BY <1>3, PassStep, AgentChecksStep, AgentRenewsStep, AgentEndsStep DEF Agent
  <1>4. CASE Saving  BY <1>4, WriteEntryStep, CommitStep, CommitFailsStep, CleanStep DEF Saving
  <1>5. CASE Tick  BY <1>5, TickStep
  <1> QED BY <1>1, <1>2, <1>3, <1>4, <1>5 DEF Next

\* File, journal and both copies never lose a finding, whatever fails.
THEOREM ContractsCorrect == Spec => []ContractsInv
  <1> QED BY ContractsInit, ContractsStep, PTL DEF Spec

\* Whoever loads the contracts gets one that answers every published finding.
THEOREM LoadsAlwaysSafe == Spec => []LoadsAreSafe
  <1>1. ContractsInv => LoadsAreSafe
    <2> SUFFICES ASSUME ContractsInv, NEW c \in Views
                 PROVE  Accepted(c) /\ Answered(c, found) /\ (c.proof \in barred => c.bad)
      BY DEF LoadsAreSafe
    <2>1. Sound(c) /\ Knows(c, found) /\ \A x \in barred : Bars(c, x)  BY ViewsKnow
    <2>2. Answered(c, found)  BY <2>1 DEF Knows, KnowsBad, Answered
    <2> QED BY <2>1, <2>2 DEF Sound, Accepted, Bars
  <1> QED BY <1>1, ContractsCorrect, PTL

\* What the processes find and publish never makes file and journal unreadable, in whatever
\* order the journal is merged: a load is refused only while the lock is taken, after a
\* publication failed (the marker), or while the journal has more in it than a reader takes.
THEOREM RefusalsAreKnown ==
  Spec => [](Views # {} /\ (CannotLoad => lock # "free" \/ blocked \/ Overfull))
  <1>1. ContractsInv => Views # {}
    BY MergedSome DEF ContractsInv, ContractsTypeOK, Views
  <1>2. LoadsAreSafe => (CannotLoad => lock # "free" \/ blocked \/ Overfull)
    BY DEF LoadsAreSafe, CannotLoad
  <1> QED BY <1>1, <1>2, ContractsCorrect, LoadsAlwaysSafe, PTL

\* What is in the journal, and what was counted for it and is about to be written.
Writes(p) == IF proc[p].pc \in {"saving", "rereading"} THEN 1 ELSE 0
InHand    == Cardinality(pending) + Writes("window") + Writes("agent") <= MaxPending + 1

\* Entries are only written by those who counted, and nobody counts in other steps.
LEMMA NobodyCounts ==
  ASSUME ContractsInv, InHand, pending' \subseteq pending,
         \A q \in Procs : proc'[q].pc \in {"saving", "rereading"} => proc'[q].pc = proc[q].pc
  PROVE  InHand'
  <1>1. /\ Cardinality(pending) \in Nat /\ Cardinality(pending') \in Nat
        /\ Cardinality(pending') <= Cardinality(pending)
    BY FS_Subset, FS_CardinalityType DEF ContractsInv, ContractsTypeOK
  <1>2. \A q \in Procs : Writes(q)' <= Writes(q)  BY DEF Writes
  <1>3. /\ Writes("window") \in Nat /\ Writes("agent") \in Nat
        /\ Writes("window")' \in Nat /\ Writes("agent")' \in Nat
        /\ Writes("window")' <= Writes("window") /\ Writes("agent")' <= Writes("agent")
    BY <1>2 DEF Writes, Procs
  <1> QED BY <1>1, <1>3, ContractsAssumption DEF InHand

\* An operation counts before it writes, or has nothing to write.
LEMMA PublishCounts ==
  ASSUME ContractsInv, InHand, NEW p \in Procs, NEW c, NEW step \in {"saving", "rereading"},
         Publish(p, c, step)
  PROVE  InHand'
  <1>0. proc \in [Procs -> Books] /\ Written[step] \in {"published", "reloading"}
    BY DEF ContractsInv, ContractsTypeOK, Written
  <1>1. CASE c \notin pending /\ Cardinality(pending) < MaxPending /\ pending' = pending
    <2>1. Cardinality(pending) \in Nat
      BY FS_CardinalityType DEF ContractsInv, ContractsTypeOK
    <2>2. Writes("window")' \in 0..1 /\ Writes("agent")' \in 0..1  BY DEF Writes
    <2> QED BY <1>1, <2>1, <2>2, ContractsAssumption DEF InHand
  <1>2. CASE Goes(p, c, Written[step]) /\ pending' = pending
    <2>1. \A q \in Procs : proc'[q].pc \in {"saving", "rereading"} => proc'[q].pc = proc[q].pc
      BY <1>0, <1>2 DEF Goes, Books
    <2> QED BY <1>2, <2>1, NobodyCounts
  <1>3. CASE Unpublished(p, c)
    <2>1. \A q \in Procs : proc'[q].pc \in {"saving", "rereading"} => proc'[q].pc = proc[q].pc
      BY <1>0, <1>3 DEF Unpublished, Stop, Away, Book, Books
    <2> QED BY <1>3, <2>1, NobodyCounts DEF Unpublished
  <1> QED BY <1>1, <1>2, <1>3 DEF Publish

\* Whoever counted writes one entry.
LEMMA WriteCounts ==
  ASSUME ContractsInv, InHand, NEW p \in Procs, WriteEntry(p)
  PROVE  InHand'
  <1> DEFINE c == proc[p].mem
             step == proc[p].pc
  <1>0. /\ proc \in [Procs -> Books] /\ step \in {"saving", "rereading"}
        /\ Written[step] \in {"published", "reloading"}
    BY DEF ContractsInv, ContractsTypeOK, Written, WriteEntry
  <1> HIDE DEF c
  <1>1. CASE Goes(p, c, Written[step]) /\ pending' = pending \cup {c}
    <2>1. IsFiniteSet(pending)  BY DEF ContractsInv, ContractsTypeOK
    <2>2. /\ Cardinality(pending) \in Nat /\ Cardinality(pending') \in Nat
          /\ Cardinality(pending') <= Cardinality(pending) + 1
      BY <1>1, <2>1, OneMore, FS_CardinalityType
    <2>3. Writes(p) = 1 /\ Writes(p)' = 0 /\ \A q \in Procs \ {p} : Writes(q)' = Writes(q)
      BY <1>0, <1>1 DEF Writes, Goes, Books
    <2>4. Writes("window") \in Nat /\ Writes("agent") \in Nat  BY DEF Writes
    <2> QED BY <2>2, <2>3, <2>4, ContractsAssumption DEF InHand, Procs
  <1>2. CASE Unpublished(p, c)
    <2>1. \A q \in Procs : proc'[q].pc \in {"saving", "rereading"} => proc'[q].pc = proc[q].pc
      BY <1>0, <1>2 DEF Unpublished, Stop, Away, Book, Books
    <2> QED BY <1>2, <2>1, NobodyCounts DEF Unpublished
  <1> QED BY <1>1, <1>2 DEF WriteEntry, c

LEMMA InHandStep == ContractsInv /\ InHand /\ [Next]_vars => InHand'
  <1> SUFFICES ASSUME ContractsInv, InHand, [Next]_vars PROVE InHand'  OBVIOUS
  <1>0. proc \in [Procs -> Books] /\ "window" \in Procs /\ "agent" \in Procs
    BY DEF ContractsInv, ContractsTypeOK, Procs
  <1>1. ASSUME pending' = pending, proc' = proc PROVE InHand'  BY <1>1 DEF InHand, Writes
  <1>2. ASSUME NEW p \in Procs, NEW b, b.pc \notin {"saving", "rereading"},
               proc' = [proc EXCEPT ![p] = b], pending' \subseteq pending
        PROVE  InHand'
    BY <1>0, <1>2, NobodyCounts
  <1>3. ASSUME NEW p \in Procs, Stop(p), pending' \subseteq pending PROVE InHand'
    <2>1. \A q \in Procs : proc'[q].pc \in {"saving", "rereading"} => proc'[q].pc = proc[q].pc
      BY <1>0, <1>3 DEF Stop, Away, Book, Books
    <2> QED BY <1>3, <2>1, NobodyCounts
  <1>4. ASSUME NEW p \in Procs, Loads(p), pending' = pending PROVE InHand'
    BY <1>2, <1>4 DEF Loads, Book
  <1>5. CASE UNCHANGED vars  BY <1>1, <1>5 DEF vars, files
  <1>6. CASE SetSettings \/ ProfileGone \/ Adopt \/ Reload \/ AgentChecks \/ AgentRenews
    BY <1>0, <1>6, PublishCounts DEF SetSettings, ProfileGone, Adopt, Reload, AgentChecks, AgentRenews, Save
  <1>7. CASE CheckEnds
    <2>1. (\E c : Publish("window", c, "saving")) \/ UNCHANGED <<pending, proc>>
      BY <1>7 DEF CheckEnds, Save
    <2> QED BY <1>0, <1>1, <2>1, PublishCounts
  <1>8. CASE StartCheck \/ Tick  BY <1>1, <1>8 DEF StartCheck, Tick, files
  <1>9. CASE ReloadEnds \/ Start \/ Pass
    BY <1>0, <1>1, <1>3, <1>4, <1>9 DEF ReloadEnds, Start, Pass, files
  <1>10. CASE Restart \/ AgentEnds
    <2>1. Away("starting").pc = "starting" /\ Away("off").pc = "off"  BY DEF Away, Book
    <2> QED BY <1>0, <1>2, <1>10, <2>1 DEF Restart, AgentEnds
  <1>11. ASSUME NEW p \in Procs, Commit(p) PROVE InHand'
    <2>1. /\ pending' = pending
          /\ \A q \in Procs : proc'[q].pc \in {"saving", "rereading"} => proc'[q].pc = proc[q].pc
      BY <1>0, <1>11 DEF Commit, Book, Books
    <2> QED BY <2>1, NobodyCounts
  <1>12. ASSUME NEW p \in Procs, CommitFails(p) PROVE InHand'
    BY <1>3, <1>12 DEF CommitFails, files
  <1>13. ASSUME NEW p \in Procs, Clean(p) PROVE InHand'
    <2>1. pending' \subseteq pending  BY <1>13 DEF Clean
    <2>2. CASE proc' = [proc EXCEPT ![p].pc = "ready", ![p].taken = {}]
      <3>1. \A q \in Procs : proc'[q].pc \in {"saving", "rereading"} => proc'[q].pc = proc[q].pc
        BY <1>0, <2>2 DEF Books
      <3> QED BY <2>1, <3>1, NobodyCounts
    <2> QED BY <1>3, <1>13, <2>1, <2>2 DEF Clean
  <1> QED
    BY <1>5, <1>6, <1>7, <1>8, <1>9, <1>10, <1>11, <1>12, <1>13, WriteCounts
    DEF Next, Window, Agent, Saving

\* The journal is counted without its lock, so window and agent may both count the last
\* free place: it exceeds its limit by that one entry (which read_pending then refuses, and
\* with it every load and save), and never by more.
THEOREM OneEntryTooMany == Spec => [](Cardinality(pending) <= MaxPending + 1)
  <1>1. Init => InHand
    <2> SUFFICES ASSUME Init PROVE InHand  OBVIOUS
    <2>1. Cardinality(pending) = 0  BY FS_EmptySet DEF Init
    <2>2. Writes("window") = 0 /\ Writes("agent") = 0  BY DEF Init, Writes, Away, Book, Procs
    <2> QED BY <2>1, <2>2, ContractsAssumption DEF InHand
  <1>2. ContractsInv /\ InHand => Cardinality(pending) <= MaxPending + 1
    <2> SUFFICES ASSUME ContractsInv, InHand PROVE Cardinality(pending) <= MaxPending + 1  OBVIOUS
    <2>1. Cardinality(pending) \in Nat /\ Writes("window") \in 0..1 /\ Writes("agent") \in 0..1
      BY FS_CardinalityType DEF ContractsInv, ContractsTypeOK, Writes
    <2> QED BY <2>1, ContractsAssumption DEF InHand
  <1> QED BY <1>1, <1>2, InHandStep, ContractsCorrect, PTL DEF Spec

\* A repair is approved only while all that was found is answered.
THEOREM ApprovalsAreClean == Spec => []AllowedIsClean
  <1>1. ContractsInv => AllowedIsClean
    <2> SUFFICES ASSUME ContractsInv, NEW e \in 1..now, NEW c \in Views, Allows(e, c)
                 PROVE  e \notin barred /\ Answered(Mine, seen) /\ Answered(c, seen) /\ Answered(c, found)
      BY DEF AllowedIsClean
    <2>1. Sound(c) /\ Knows(c, found) /\ \A x \in barred : Bars(c, x)  BY ViewsKnow
    <2>2. Idle /\ ~c.bad /\ e \notin c.revoked  BY DEF Allows, Ready
    <2>3. e \notin barred  BY <2>1, <2>2 DEF Bars
    <2>4. Answered(Mine, seen)
      BY DEF ContractsInv, WindowKnows, Mine, Knows, KnowsBad, Answered
    <2>5. seen.bad <= found.bad /\ seen.failed <= found.failed
      BY <2>2 DEF ContractsInv, WindowKnows, Idle
    <2>6. /\ seen.bad \in Nat /\ seen.failed \in Nat /\ found.bad \in Nat /\ found.failed \in Nat
          /\ c \in Contracts
      BY <2>1 DEF ContractsInv, ContractsTypeOK, Findings, Sound
    <2>7. Knows(c, seen)  BY <2>1, <2>5, <2>6 DEF Knows, KnowsBad, Contracts
    <2> QED BY <2>1, <2>3, <2>4, <2>7 DEF Knows, KnowsBad, Answered
  <1> QED BY <1>1, ContractsCorrect, PTL

=============================================================================
