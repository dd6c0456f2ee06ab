----------------------- MODULE EscalationOutbox_proofs -----------------------
(***************************************************************************)
(* What the outbox guarantees for any number of rows, tickets,             *)
(* destinations and workers, with every fault: stalled workers, late       *)
(* requests and people who judge wrongly.                                  *)
(*                                                                         *)
(* Chained says how attempts at one ticket hang together: each has one     *)
(* root and one row without a successor, and only that one may be alive.   *)
(* Claimed says how rows and workers do: a row leaves the queue before it  *)
(* is sent, and belongs to one worker from then on.                        *)
(***************************************************************************)
EXTENDS EscalationOutbox, TLAPS

Last(e) == \A o \in Entries : Exists(o) => row[o].parent # e

Chained ==
  /\ \A e \in Entries : row[e].parent \in Entries =>
       /\ row[row[e].parent].state \in Dead
       /\ row[row[e].parent].delivery = row[e].delivery
  /\ \A e \in Entries : Exists(e) =>
       \E o \in Entries : Exists(o) /\ row[o].delivery = row[e].delivery /\ row[o].parent = NoEntry
  /\ \A e, f \in Entries :
       (Exists(e) /\ Exists(f) /\ row[e].delivery = row[f].delivery /\ Last(e) /\ Last(f)) => e = f

Claimed ==
  /\ \A e \in Entries : row[e].state \in {"none", "queued"} => tries[e] = 0
  /\ \A e \in Entries : checked[e] # "none" => row[e].state \in {"sent", "not_delivered"}
  /\ \A w \in Workers :
       /\ worker[w].entry \in Entries => row[worker[w].entry].state \notin {"none", "queued"}
       /\ worker[w].pc = "claimed" => tries[worker[w].entry] = 0
  /\ \A v, w \in Workers :
       (worker[v].entry \in Entries /\ worker[v].entry = worker[w].entry) => v = w

Inv == TypeOK /\ Chained /\ Claimed /\ SentOnce

-----------------------------------------------------------------------------
(* The ways one step changes the rows.                                     *)

\* A row that did not exist is queued, for a new ticket or after a dead attempt.
Added(e, r) ==
  /\ ~Exists(e) /\ r.state = "queued" /\ r.cfg \in Configs
  /\ \/ /\ r.delivery \in Deliveries /\ r.parent = NoEntry
        /\ \A o \in Entries : row[o].delivery = r.delivery => row[o].parent # NoEntry
     \/ /\ r.parent \in Entries /\ r.delivery = row[r.parent].delivery
        /\ row[r.parent].state \in Dead /\ Last(r.parent)
  /\ r = [state |-> "queued", delivery |-> r.delivery, cfg |-> r.cfg, parent |-> r.parent]
  /\ row' = [row EXCEPT ![e] = r]

\* A living attempt, not one that is settled, changes its state and nothing else.
Changed(e) ==
  LET old == row[e].state
      new == row'[e].state IN
  /\ old \in {"queued", "sending", "unknown", "failed"}
  /\ new \in Dead \cup {"sending", "unknown", "failed", "sent"}
  /\ row'[e] = [row[e] EXCEPT !.state = new]

\* Every row stays, or is a living attempt that changes its state.
Moved == /\ row' \in [Entries -> Rows]
         /\ \A e \in Entries : row'[e] = row[e] \/ Changed(e)

LEMMA EntryFacts ==
  ASSUME TypeOK, NEW e \in Entries
  PROVE  /\ Exists(e) => /\ row[e] \in [state : Dead \cup {"queued", "sending", "sent", "failed", "unknown"},
                                        delivery : Deliveries, cfg : Configs,
                                        parent : Entries \cup {NoEntry}]
                         /\ row[e].state # "none"
         /\ ~Exists(e) => row[e] = NoRow
         /\ row[e].parent \in Entries => Exists(e)
  BY OutboxAssumption DEF TypeOK, Rows, Exists, NoRow, Dead

LEMMA WorkerFacts ==
  ASSUME TypeOK, NEW w \in Workers
  PROVE  /\ worker[w].pc = "ready" => worker[w] \in
              [pc : {"ready"}, cfg : Configs, entry : {NoEntry}, answer : {"none"}]
         /\ worker[w].pc = "claimed" => worker[w] \in
              [pc : {"claimed"}, cfg : Configs, entry : Entries, answer : {"none"}]
         /\ worker[w].pc = "answered" => worker[w] \in
              [pc : {"answered"}, cfg : Configs, entry : Entries,
               answer : {"sent", "failed", "unknown"}]
         /\ worker[w].entry \in Entries => worker[w].pc \in {"claimed", "answered"}
  BY OutboxAssumption DEF TypeOK, Processes, Off

-----------------------------------------------------------------------------
(* Type correctness.                                                       *)

LEMMA TypeInit == Init => TypeOK
  BY DEF Init, TypeOK, Rows, Processes, Off

LEMMA AddedType ==
  ASSUME TypeOK, NEW e \in Entries, NEW d \in Deliveries, NEW c \in Configs,
         NEW p \in Entries \cup {NoEntry}, row' = [row EXCEPT ![e] = Queued(d, c, p)]
  PROVE  row' \in [Entries -> Rows]
  BY DEF TypeOK, Rows, Queued

LEMMA LapsedType ==
  ASSUME TypeOK
  PROVE  /\ Lapsed \in [Entries -> Rows]
         /\ \A e \in Entries : Lapsed[e] = row[e] \/ (row[e].state = "sending"
                                 /\ Lapsed[e] = [row[e] EXCEPT !.state = "unknown"])
<1>1. ASSUME NEW e \in Entries, row[e].state = "sending"
      PROVE  [row[e] EXCEPT !.state = "unknown"] \in Rows
  BY <1>1, EntryFacts DEF Rows, Exists
<1> QED
  BY <1>1 DEF TypeOK, Lapsed

LEMMA StateType ==
  ASSUME TypeOK, NEW e \in Entries, Exists(e),
         NEW s \in Dead \cup {"queued", "sending", "sent", "failed", "unknown"}
  PROVE  [row[e] EXCEPT !.state = s] \in Rows
  BY EntryFacts DEF Rows

LEMMA TypeStep == TypeOK /\ [Next]_vars => TypeOK'
<1> SUFFICES ASSUME TypeOK, [Next]_vars PROVE TypeOK'
  OBVIOUS
<1> USE DEF TypeOK
<1>1. ASSUME NEW e \in Entries, NEW d \in Deliveries, NEW c \in Configs, Enqueue(e, d, c)
      PROVE  TypeOK'
  BY <1>1, AddedType DEF Enqueue, clocks, outside
<1>2. ASSUME NEW e \in Entries, NEW p \in Entries, NEW c \in Configs, Reauthorize(p, e, c)
      PROVE  TypeOK'
  <2>1. row[p].delivery \in Deliveries
    BY <1>2, EntryFacts DEF Reauthorize, Exists
  <2> QED
    BY <1>2, <2>1, AddedType DEF Reauthorize, clocks, outside
<1>3. ASSUME NEW e \in Entries, Cancel(e)
      PROVE  TypeOK'
  <2>1. [row[e] EXCEPT !.state = "canceled"] \in Rows
    BY <1>3, StateType DEF Cancel, Exists, Dead
  <2> QED
    BY <1>3, <2>1 DEF Cancel, clocks, outside
<1>4. ASSUME NEW e \in Entries, NEW b \in BOOLEAN, Reconcile(e, b)
      PROVE  TypeOK'
  <2> DEFINE s == IF b THEN "sent" ELSE "not_delivered"
  <2>1. [row[e] EXCEPT !.state = s] \in Rows
    BY <1>4, StateType DEF Reconcile, Exists, Dead
  <2> QED
    BY <1>4, <2>1 DEF Reconcile, clocks, outside
<1>5. ASSUME NEW w \in Workers, Start(w) \/ Stop(w)
      PROVE  TypeOK'
  <2>1. Off \in Processes /\ \A c \in Configs : Ready(c) \in Processes
    BY DEF Processes, Ready
  <2> QED
    BY <1>5, <2>1 DEF Start, Stop, store, clocks, outside
<1>6. ASSUME NEW w \in Workers, Claim(w)
      PROVE  TypeOK'
  <2>1. ASSUME NEW e \in In("queued"), NEW v \in {"expired", "blocked", "sending"},
               row' = [Lapsed EXCEPT ![e].state = v]
        PROVE  row' \in [Entries -> Rows]
    <3>1. e \in Entries /\ row[e].state = "queued"
      BY DEF In
    <3>2. Lapsed[e] = row[e]
      BY <3>1, LapsedType
    <3>3. [row[e] EXCEPT !.state = v] \in Rows
      BY <3>1, StateType DEF Exists, Dead
    <3> QED
      BY <2>1, <3>1, <3>2, <3>3, LapsedType
  <2>2. \A e \in Entries : \A c : Verdict(e, c) \in {"expired", "blocked", "sending"}
    BY DEF Verdict
  <2>3. row' \in [Entries -> Rows]
    BY <1>6, <2>1, <2>2, LapsedType DEF Claim, In
  <2>4. /\ Off \in Processes
        /\ \A e \in Entries : [worker[w] EXCEPT !.pc = "claimed", !.entry = e] \in Processes
    BY <1>6, WorkerFacts DEF Claim, Processes
  <2>5. worker' \in [Workers -> Processes]
    BY <1>6, <2>4 DEF Claim, In
  <2> QED
    BY <1>6, <2>3, <2>5 DEF Claim, outside
<1>7. ASSUME NEW w \in Workers, Send(w)
      PROVE  TypeOK'
  <2> DEFINE e == worker[w].entry
  <2>1. worker[w] \in [pc : {"claimed"}, cfg : Configs, entry : Entries, answer : {"none"}]
    BY <1>7, WorkerFacts DEF Send
  <2>2. PICK a \in {"sent", "failed", "unknown"} : Answered(w, a)
    BY <1>7 DEF Send
  <2>3. [worker[w] EXCEPT !.pc = "answered", !.answer = a] \in Processes
    BY <2>1 DEF Processes
  <2>4. worker' \in [Workers -> Processes]
    BY <2>2, <2>3 DEF Answered
  <2>5. (IF tries[e] < 2 THEN tries[e] + 1 ELSE tries[e]) \in 0..2
    BY <2>1
  <2>6. tries' \in [Entries -> 0..2]
    BY <1>7, <2>1, <2>5 DEF Send
  <2>7. flying' \subseteq Entries /\ arrived' \subseteq Entries /\ astray' \subseteq Entries
    BY <1>7, <2>1 DEF Send, outside
  <2> QED
    BY <1>7, <2>4, <2>6, <2>7 DEF Send, store, clocks
<1>8. ASSUME NEW w \in Workers, Record(w)
      PROVE  TypeOK'
  <2> DEFINE e == worker[w].entry
             a == worker[w].answer
  <2>1. worker[w] \in [pc : {"answered"}, cfg : Configs, entry : Entries,
                       answer : {"sent", "failed", "unknown"}]
    BY <1>8, WorkerFacts DEF Record
  <2>2. row[e].state = "sending" => [row[e] EXCEPT !.state = a] \in Rows
    BY <2>1, StateType DEF Exists
  <2>3. row' \in [Entries -> Rows]
    BY <1>8, <2>1, <2>2 DEF Record
  <2>4. Ready(worker[w].cfg) \in Processes
    BY <2>1 DEF Processes, Ready
  <2>5. worker' \in [Workers -> Processes]
    BY <1>8, <2>4 DEF Record
  <2> QED
    BY <1>8, <2>3, <2>5 DEF Record, clocks, outside
<1>9. ASSUME NEW e \in Entries, Expire(e) \/ LeaseElapses(e) \/ Land(e)
      PROVE  TypeOK'
  BY <1>9 DEF Expire, LeaseElapses, Land, store, clocks, outside
<1>10. ASSUME UNCHANGED vars
       PROVE  TypeOK'
  BY <1>10 DEF vars, store, clocks, outside
<1> QED
  BY <1>1, <1>2, <1>3, <1>4, <1>5, <1>6, <1>7, <1>8, <1>9, <1>10 DEF Next, Operate, Step

-----------------------------------------------------------------------------
(* How attempts at one ticket hang together.                               *)

LEMMA ClaimMoves ==
  ASSUME TypeOK, TypeOK', NEW w \in Workers, Claim(w)
  PROVE  Moved
<1>1. \A e \in Entries : Lapsed[e] = row[e] \/ (row[e].state = "sending"
                              /\ Lapsed[e] = [row[e] EXCEPT !.state = "unknown"])
  BY LapsedType
<1>2. ASSUME NEW e \in In("queued"), NEW v \in {"expired", "blocked", "sending"},
             row' = [Lapsed EXCEPT ![e].state = v]
      PROVE  \A f \in Entries : row'[f] = row[f] \/ Changed(f)
  <2>1. e \in Entries /\ row[e].state = "queued" /\ Lapsed[e] = row[e]
    BY <1>1 DEF In
  <2>2. row'[e] = [row[e] EXCEPT !.state = v] /\ row[e] \in Rows
    BY <1>2, <2>1, LapsedType DEF TypeOK
  <2>3. row'[e].state = v
    BY <2>1, <2>2, EntryFacts DEF Exists
  <2>4. Changed(e)
    BY <2>1, <2>2, <2>3 DEF Changed, Dead
  <2>5. ASSUME NEW f \in Entries, f # e
        PROVE  row'[f] = row[f] \/ Changed(f)
    <3>1. row'[f] = Lapsed[f]
      BY <1>2, <2>5, LapsedType
    <3>2. row[f].state = "sending" => [row[f] EXCEPT !.state = "unknown"].state = "unknown"
      BY EntryFacts DEF Exists
    <3> QED
      BY <1>1, <3>1, <3>2 DEF Changed
  <2> QED
    BY <2>4, <2>5
<1>3. \A e \in Entries : \A c : Verdict(e, c) \in {"expired", "blocked", "sending"}
  BY DEF Verdict
<1>4. ASSUME row' = Lapsed
      PROVE  \A f \in Entries : row'[f] = row[f] \/ Changed(f)
  <2>1. \A f \in Entries : row[f].state = "sending"
           => [row[f] EXCEPT !.state = "unknown"].state = "unknown"
    BY EntryFacts DEF Exists
  <2> QED
    BY <1>1, <1>4, <2>1 DEF Changed
<1> QED
  BY <1>2, <1>3, <1>4 DEF Claim, Moved, In, TypeOK

LEMMA RecordMoves ==
  ASSUME TypeOK, TypeOK', NEW w \in Workers, Record(w)
  PROVE  Moved
<1> DEFINE e == worker[w].entry
           a == worker[w].answer
<1>1. e \in Entries /\ a \in {"sent", "failed", "unknown"}
  BY WorkerFacts DEF Record
<1>2. row' = row \/ (row[e].state = "sending" /\ row' = [row EXCEPT ![e].state = a])
  BY DEF Record
<1>3. row[e].state = "sending" => [row[e] EXCEPT !.state = a].state = a
  BY <1>1, EntryFacts DEF Exists
<1>4. row' \in [Entries -> Rows] /\ row \in [Entries -> Rows]
  BY DEF TypeOK
<1>5. CASE row' = row
  BY <1>4, <1>5 DEF Moved
<1>6. CASE row[e].state = "sending" /\ row' = [row EXCEPT ![e].state = a]
  <2> HIDE DEF e, a
  <2>1. row'[e] = [row[e] EXCEPT !.state = a] /\ row'[e].state = a
    BY <1>1, <1>3, <1>4, <1>6
  <2>2. Changed(e)
    BY <1>1, <1>6, <2>1 DEF Changed
  <2>3. \A f \in Entries : f # e => row'[f] = row[f]
    BY <1>4, <1>6
  <2> QED
    BY <1>4, <2>2, <2>3 DEF Moved
<1> QED
  BY <1>2, <1>5, <1>6

\* No step changes the rows in a third way.
LEMMA RowForms ==
  ASSUME TypeOK, TypeOK', [Next]_vars
  PROVE  (\E e \in Entries, r \in Rows : Added(e, r)) \/ Moved
<1>1. ASSUME NEW e \in Entries, NEW d \in Deliveries, NEW c \in Configs, Enqueue(e, d, c)
      PROVE  \E f \in Entries, r \in Rows : Added(f, r)
  <2>1. Queued(d, c, NoEntry) \in Rows
    BY DEF Queued, Rows
  <2>2. Added(e, Queued(d, c, NoEntry))
    BY <1>1 DEF Enqueue, Added, Queued
  <2> QED
    BY <2>1, <2>2
<1>2. ASSUME NEW e \in Entries, NEW p \in Entries, NEW c \in Configs, Reauthorize(p, e, c)
      PROVE  \E f \in Entries, r \in Rows : Added(f, r)
  <2>1. Exists(p) /\ row[p].delivery \in Deliveries /\ row[p].state \in Dead
    BY <1>2, EntryFacts DEF Reauthorize, Exists, Dead
  <2>2. Queued(row[p].delivery, c, p) \in Rows
    BY <2>1 DEF Queued, Rows
  <2>3. Added(e, Queued(row[p].delivery, c, p))
    BY <1>2, <2>1 DEF Reauthorize, Added, Queued, Last
  <2> QED
    BY <2>2, <2>3
<1>3. ASSUME NEW e \in Entries, Cancel(e)
      PROVE  Moved
  BY <1>3 DEF Cancel, Moved, Changed, TypeOK, Dead
<1>4. ASSUME NEW e \in Entries, NEW b \in BOOLEAN, Reconcile(e, b)
      PROVE  Moved
  <2> DEFINE s == IF b THEN "sent" ELSE "not_delivered"
  <2>1. row' = [row EXCEPT ![e].state = s] /\ row[e].state \in {"unknown", "failed"}
        /\ s \in Dead \cup {"sent"}
    BY <1>4 DEF Reconcile, Dead
  <2> QED
    BY <2>1 DEF Moved, Changed, TypeOK, Dead
<1>5. ASSUME UNCHANGED row
      PROVE  Moved
  BY <1>5 DEF Moved, TypeOK
<1> QED
  BY <1>1, <1>2, <1>3, <1>4, <1>5, ClaimMoves, RecordMoves
     DEF Next, Operate, Step, Start, Stop, Send, Expire, LeaseElapses, Land, store, vars

LEMMA MovedFacts ==
  ASSUME TypeOK, TypeOK', Moved, NEW e \in Entries
  PROVE  /\ row'[e].delivery = row[e].delivery /\ row'[e].parent = row[e].parent
         /\ Exists(e)' <=> Exists(e)
         /\ row[e].state \in Dead \cup {"sent"} => row'[e] = row[e]
<1>1. CASE row'[e] = row[e]
  BY <1>1 DEF Exists
<1>2. CASE Changed(e)
  <2>1. Exists(e)
    BY <1>2 DEF Changed, Exists
  <2>2. row[e] \in [state : Dead \cup {"queued", "sending", "sent", "failed", "unknown"},
                    delivery : Deliveries, cfg : Configs, parent : Entries \cup {NoEntry}]
    BY <2>1, EntryFacts
  <2> QED
    BY <1>2, <2>1, <2>2 DEF Changed, Exists, Dead
<1> QED
  BY <1>1, <1>2 DEF Moved

LEMMA MovedChained ==
  ASSUME TypeOK, TypeOK', Chained, Moved
  PROVE  Chained'
<1>1. ASSUME NEW e \in Entries, row'[e].parent \in Entries
      PROVE  /\ row'[row'[e].parent].state \in Dead
             /\ row'[row'[e].parent].delivery = row'[e].delivery
  BY <1>1, MovedFacts DEF Chained
<1>2. ASSUME NEW e \in Entries, Exists(e)'
      PROVE  \E o \in Entries : /\ Exists(o)' /\ row'[o].delivery = row'[e].delivery
                                /\ row'[o].parent = NoEntry
  BY <1>2, MovedFacts DEF Chained
<1>3. \A e \in Entries : Last(e)' <=> Last(e)
  BY MovedFacts DEF Last
<1>4. ASSUME NEW e \in Entries, NEW f \in Entries, Exists(e)', Exists(f)',
             row'[e].delivery = row'[f].delivery, Last(e)', Last(f)'
      PROVE  e = f
  BY <1>3, <1>4, MovedFacts DEF Chained
<1> QED
  BY <1>1, <1>2, <1>4 DEF Chained

LEMMA AddedChained ==
  ASSUME TypeOK, Chained, NEW e \in Entries, NEW r \in Rows, Added(e, r)
  PROVE  Chained'
<1>1. /\ row'[e] = r /\ \A o \in Entries : o # e => row'[o] = row[o]
      /\ ~Exists(e) /\ row[e] = NoRow /\ Exists(e)'
  BY EntryFacts DEF Added, Exists, TypeOK
<1>2. \A o \in Entries : o # e => row[o].parent # e
  BY <1>1, EntryFacts DEF Chained, NoRow, Dead
<1>3. r.parent # e
  <2>1. row[e].state = "none"
    BY <1>1 DEF NoRow
  <2> QED
    BY <2>1, OutboxAssumption DEF Added, Dead
<1>4. Last(e)'
  BY <1>1, <1>2, <1>3 DEF Last
<1>5. ASSUME NEW o \in Entries, row'[o].parent \in Entries
      PROVE  row'[row'[o].parent].state \in Dead /\ row'[row'[o].parent].delivery = row'[o].delivery
  BY <1>1, <1>2, <1>3, <1>5, OutboxAssumption DEF Chained, Added
<1>6. ASSUME NEW o \in Entries, Exists(o)'
      PROVE  \E p \in Entries : /\ Exists(p)' /\ row'[p].delivery = row'[o].delivery
                                /\ row'[p].parent = NoEntry
  <2>1. CASE o = e
    <3>1. CASE r.parent = NoEntry
      BY <1>1, <2>1, <3>1
    <3>2. CASE r.parent \in Entries /\ r.delivery = row[r.parent].delivery
               /\ row[r.parent].state \in Dead
      <4>1. Exists(r.parent)
        BY <3>2 DEF Exists, Dead
      <4>2. PICK p \in Entries : /\ Exists(p) /\ row[p].delivery = row[r.parent].delivery
                                 /\ row[p].parent = NoEntry
        BY <3>2, <4>1 DEF Chained
      <4> QED
        BY <1>1, <2>1, <3>2, <4>2 DEF Exists
    <3> QED
      BY <3>1, <3>2 DEF Added
  <2>2. CASE o # e
    <3>1. PICK p \in Entries : /\ Exists(p) /\ row[p].delivery = row[o].delivery
                               /\ row[p].parent = NoEntry
      BY <1>1, <1>6, <2>2 DEF Chained, Exists
    <3> QED
      BY <1>1, <2>2, <3>1 DEF Exists
  <2> QED
    BY <2>1, <2>2
<1>7. ASSUME NEW o \in Entries, o # e, Exists(o)', Last(o)', row'[o].delivery = r.delivery
      PROVE  FALSE
  <2>1. Exists(o) /\ Last(o) /\ row[o].delivery = r.delivery /\ r.parent # o
    BY <1>1, <1>7 DEF Last, Exists
  <2>2. CASE r.parent = NoEntry
    <3>1. PICK p \in Entries : /\ Exists(p) /\ row[p].delivery = r.delivery
                               /\ row[p].parent = NoEntry
      BY <2>1 DEF Chained
    <3> QED
      BY <2>2, <3>1, OutboxAssumption DEF Added
  <2>3. CASE r.parent \in Entries
    <3>1. Exists(r.parent) /\ Last(r.parent) /\ row[r.parent].delivery = r.delivery
      BY <2>3, OutboxAssumption DEF Added, Exists, Dead
    <3> QED
      BY <2>1, <2>3, <3>1 DEF Chained
  <2> QED
    BY <2>2, <2>3 DEF Added
<1>8. ASSUME NEW o \in Entries, NEW p \in Entries, Exists(o)', Exists(p)',
             row'[o].delivery = row'[p].delivery, Last(o)', Last(p)'
      PROVE  o = p
  <2>1. CASE o = e \/ p = e
    BY <1>1, <1>7, <1>8, <2>1
  <2>2. CASE o # e /\ p # e
    <3>1. Exists(o) /\ Last(o) /\ Exists(p) /\ Last(p) /\ row[o].delivery = row[p].delivery
      BY <1>1, <1>8, <2>2 DEF Last, Exists
    <3> QED
      BY <3>1 DEF Chained
  <2> QED
    BY <2>1, <2>2
<1> QED
  BY <1>5, <1>6, <1>8 DEF Chained

-----------------------------------------------------------------------------
(* How rows and workers belong together.                                   *)

Verdicts ==
  \A e \in Entries : checked'[e] # checked[e] => row'[e].state \in {"sent", "not_delivered"}

\* What a row that moves keeps, as far as claims and verdicts go.
LEMMA MovedStates ==
  ASSUME Moved, NEW e \in Entries
  PROVE  /\ row'[e].state \in {"none", "queued"} => row'[e].state = row[e].state
         /\ row[e].state \in {"sent", "not_delivered"} => row'[e].state = row[e].state
         /\ row[e].state \notin {"none", "queued"} => row'[e].state \notin {"none", "queued"}
  BY DEF Moved, Changed, Dead

\* The operators and the clocks leave workers and the network alone.
LEMMA RowsOnly ==
  ASSUME Inv, TypeOK', [Next]_vars, UNCHANGED <<worker, tries>>, Verdicts
  PROVE  Claimed' /\ SentOnce'
<1> USE DEF Inv
<1>1. ASSUME NEW e \in Entries, NEW r \in Rows, Added(e, r)
      PROVE  Claimed' /\ SentOnce'
  <2>1. /\ row'[e].state = "queued" /\ row[e].state = "none"
        /\ \A o \in Entries : o # e => row'[o] = row[o]
    BY <1>1 DEF Added, Exists, TypeOK
  <2> QED
    BY <2>1 DEF Claimed, SentOnce, Verdicts
<1>2. ASSUME Moved
      PROVE  Claimed' /\ SentOnce'
  BY <1>2, MovedStates DEF Claimed, SentOnce, Verdicts
<1> QED
  BY <1>1, <1>2, RowForms

LEMMA WorkerStep ==
  ASSUME Inv, TypeOK', [Next]_vars, NEW w \in Workers, Step(w)
  PROVE  Claimed' /\ SentOnce'
<1> USE DEF Inv
<1>1. ASSUME Start(w) \/ Stop(w)
      PROVE  Claimed' /\ SentOnce'
  <2>1. /\ worker'[w].pc \in {"off", "ready"} /\ worker'[w].entry = NoEntry
        /\ \A v \in Workers \ {w} : worker'[v] = worker[v]
        /\ UNCHANGED <<row, checked, tries>>
    BY <1>1 DEF Start, Stop, Off, Ready, TypeOK, store
  <2> QED
    BY <2>1, OutboxAssumption DEF Claimed, SentOnce
<1>2. ASSUME Claim(w)
      PROVE  Claimed' /\ SentOnce'
  <2>1. Moved /\ UNCHANGED <<checked, tries>>
    BY <1>2, ClaimMoves DEF Claim
  <2>2. ASSUME worker' = worker \/ worker' = [worker EXCEPT ![w] = Off]
        PROVE  Claimed' /\ SentOnce'
    <3>1. \A v \in Workers : worker'[v] = worker[v] \/ worker'[v] = Off
      BY <2>2 DEF TypeOK
    <3>2. Off.pc = "off" /\ Off.entry \notin Entries
      BY OutboxAssumption DEF Off
    <3> QED
      BY <2>1, <3>1, <3>2, MovedStates DEF Claimed, SentOnce
  <2>3. ASSUME NEW e \in In("queued"), row' = [Lapsed EXCEPT ![e].state = "sending"],
               worker' = [worker EXCEPT ![w].pc = "claimed", ![w].entry = e]
        PROVE  Claimed' /\ SentOnce'
    <3>1. e \in Entries /\ row[e].state = "queued" /\ tries[e] = 0
      BY DEF In, Claimed
    <3>2. row'[e].state = "sending"
      <4>1. Lapsed[e] \in Rows /\ Lapsed[e] = row[e]
        BY <3>1, LapsedType
      <4>2. [row[e] EXCEPT !.state = "sending"].state = "sending"
        BY <3>1, EntryFacts DEF Exists
      <4> QED
        BY <2>3, <3>1, <4>1, <4>2, LapsedType
    <3>3. /\ worker'[w].pc = "claimed" /\ worker'[w].entry = e
          /\ \A v \in Workers \ {w} : worker'[v] = worker[v]
      <4>1. worker[w] \in [pc : {"ready"}, cfg : Configs, entry : {NoEntry}, answer : {"none"}]
        BY <1>2, WorkerFacts DEF Claim
      <4>2. worker' = [worker EXCEPT ![w] = [worker[w] EXCEPT !.pc = "claimed", !.entry = e]]
        BY <2>3
      <4> QED
        BY <4>1, <4>2 DEF TypeOK
    <3>4. \A v \in Workers : worker[v].entry # e
      BY <3>1 DEF Claimed
    <3> QED
      BY <2>1, <3>1, <3>2, <3>3, <3>4, MovedStates DEF Claimed, SentOnce
  <2> QED
    BY <1>2, <2>2, <2>3 DEF Claim
<1>3. ASSUME Send(w)
      PROVE  Claimed' /\ SentOnce'
  <2> DEFINE e == worker[w].entry
  <2>1. e \in Entries /\ tries[e] = 0 /\ row[e].state \notin {"none", "queued"}
    BY <1>3, WorkerFacts DEF Send, Claimed
  <2>2. /\ tries'[e] = 1 /\ \A f \in Entries \ {e} : tries'[f] = tries[f]
        /\ UNCHANGED <<row, checked>>
    BY <1>3, <2>1 DEF Send, TypeOK, store
  <2>3. /\ worker'[w].pc = "answered" /\ worker'[w].entry = e
        /\ \A v \in Workers \ {w} : worker'[v] = worker[v]
    BY <1>3, WorkerFacts DEF Send, Answered, TypeOK
  <2>4. \A v \in Workers \ {w} : worker[v].entry # e
    BY <2>1 DEF Claimed
  <2> QED
    BY <2>1, <2>2, <2>3, <2>4, WorkerFacts DEF Claimed, SentOnce
<1>4. ASSUME Record(w)
      PROVE  Claimed' /\ SentOnce'
  <2>1. Moved /\ UNCHANGED <<checked, tries>>
    BY <1>4, RecordMoves DEF Record
  <2>2. /\ worker'[w].pc = "ready" /\ worker'[w].entry = NoEntry
        /\ \A v \in Workers \ {w} : worker'[v] = worker[v]
    BY <1>4 DEF Record, Ready, TypeOK
  <2> QED
    BY <2>1, <2>2, MovedStates, OutboxAssumption DEF Claimed, SentOnce
<1> QED
  BY <1>1, <1>2, <1>3, <1>4 DEF Step

LEMMA OthersLeaveWorkers ==
  ASSUME Inv, TypeOK', [Next]_vars, ~(\E w \in Workers : Step(w))
  PROVE  UNCHANGED <<worker, tries>> /\ Verdicts
<1>1. ASSUME NEW e \in Entries, NEW b \in BOOLEAN, Reconcile(e, b)
      PROVE  Verdicts
  <2>1. row[e].state \in {"unknown", "failed"}
        /\ row'[e] = [row[e] EXCEPT !.state = IF b THEN "sent" ELSE "not_delivered"]
    BY <1>1 DEF Reconcile, Inv, TypeOK
  <2>2. row'[e].state \in {"sent", "not_delivered"}
    BY <2>1, EntryFacts DEF Exists, Inv
  <2> QED
    BY <1>1, <2>2 DEF Reconcile, Verdicts, Inv, TypeOK
<1>2. ASSUME UNCHANGED checked
      PROVE  Verdicts
  BY <1>2 DEF Verdicts
<1> QED
  BY <1>1, <1>2 DEF Next, Operate, Enqueue, Cancel, Reconcile, Reauthorize, Expire, LeaseElapses,
                    Land, store, vars

-----------------------------------------------------------------------------
(* The invariant, and what follows from it.                                *)

LEMMA InvInit == Init => Inv
  BY TypeInit, OutboxAssumption
     DEF Init, Inv, Chained, Claimed, SentOnce, Exists, NoRow, Off

LEMMA InvStep == Inv /\ [Next]_vars => Inv'
<1> SUFFICES ASSUME Inv, [Next]_vars PROVE Inv'
  OBVIOUS
<1>1. TypeOK /\ TypeOK'
  BY TypeStep DEF Inv
<1>2. Chained'
  BY <1>1, RowForms, AddedChained, MovedChained DEF Inv
<1>3. Claimed' /\ SentOnce'
  BY <1>1, WorkerStep, RowsOnly, OthersLeaveWorkers
<1> QED
  BY <1>1, <1>2, <1>3 DEF Inv

\* Rows, verdicts and processes keep their types (TypeOK).
THEOREM TypeCorrect == Spec => []TypeOK
<1> QED
  BY InvInit, InvStep, PTL DEF Spec, Inv

LEMMA ChainedLive == TypeOK /\ Chained => OneLiveAttempt
<1> SUFFICES ASSUME TypeOK, Chained, NEW e \in Entries, NEW f \in Entries,
                    Exists(e), Exists(f), row[e].state \notin Dead, row[f].state \notin Dead,
                    row[e].delivery = row[f].delivery
             PROVE  e = f
  BY DEF OneLiveAttempt
<1>1. Last(e) /\ Last(f)
  BY DEF Last, Chained
<1> QED
  BY <1>1 DEF Chained

\* One attempt per ticket is alive at a time, under any faults and misjudgements
\* (OneLiveAttempt): reauthorize_at only ever extends a dead end.
THEOREM OneAttemptAlive == Spec => []OneLiveAttempt
<1>1. Inv => OneLiveAttempt
  BY ChainedLive DEF Inv
<1> QED
  BY <1>1, InvInit, InvStep, PTL DEF Spec

\* No row reaches the network twice (SentOnce): step commits before it sends.
THEOREM NeverSentTwice == Spec => []SentOnce
<1>1. Inv => SentOnce
  BY DEF Inv
<1> QED
  BY <1>1, InvInit, InvStep, PTL DEF Spec

LEMMA EveryStepSettled == Inv /\ [Next]_vars => \A e \in Entries : SettledStep(e)
<1> SUFFICES ASSUME Inv, [Next]_vars, NEW e \in Entries PROVE SettledStep(e)
  OBVIOUS
<1>1. TypeOK /\ TypeOK'
  BY TypeStep DEF Inv
<1>2. row[e].state \in Dead \cup {"sent"} => row'[e] = row[e]
  <2>1. ASSUME NEW f \in Entries, NEW r \in Rows, Added(f, r), row[e].state \in Dead \cup {"sent"}
        PROVE  row'[e] = row[e]
    BY <1>1, <2>1 DEF Added, Exists, Dead, TypeOK
  <2> QED
    BY <1>1, <2>1, RowForms, MovedFacts
<1>3. ASSUME checked[e] # "none"
      PROVE  checked'[e] = checked[e]
  <2>1. row[e].state \in {"sent", "not_delivered"}
    BY <1>3 DEF Inv, Claimed
  <2>2. ASSUME NEW f \in Entries, NEW b \in BOOLEAN, Reconcile(f, b)
        PROVE  checked'[e] = checked[e]
    BY <1>1, <2>1, <2>2 DEF Reconcile, TypeOK
  <2> QED
    BY <2>2 DEF Next, Operate, Step, Enqueue, Cancel, Reauthorize, Expire, LeaseElapses, Land,
                Start, Stop, Claim, Send, Record, store, vars
<1> QED
  BY <1>2, <1>3 DEF SettledStep

\* A settled attempt and a verdict never change (SettledIsFinal), although a stalled
\* worker may still come back with its answer.
THEOREM SettledStaysFinal == Spec => SettledIsFinal
<1> QED
  BY InvInit, InvStep, EveryStepSettled, PTL DEF Spec, SettledIsFinal
-----------------------------------------------------------------------------
(* The destination.  Faithful says what keeps the outbox true to it: for a row *)
(* that no fault has touched, whoever holds it is still waited for.        *)

\* A worker's claim on an untouched row stands, and its answer is what happened.
Honest(w) ==
  LET e == worker[w].entry IN
  e \in Entries =>
    /\ worker[w].cfg = row[e].cfg
    /\ e \notin astray =>
         /\ row[e].state = "sending" /\ e \notin overdue
         /\ worker[w].answer = "sent" => e \in arrived
         /\ worker[w].answer = "failed" => e \notin arrived

Faithful ==
  /\ flying \subseteq astray
  /\ \A e \in Entries : tries[e] = 0 => e \notin arrived \cup flying
  /\ \A e \in overdue : row[e].state \notin {"none", "queued"}
  /\ \A w \in Workers : Honest(w)

\* OutboxMatchesDestination for one row.
Matches(e) ==
  e \notin astray =>
    /\ row[e].state = "sent" => e \in arrived
    /\ row[e].state \in Dead \cup {"none", "queued", "failed"} => e \notin arrived

Known == Inv /\ Faithful /\ \A e \in Entries : Matches(e)

LEMMA KnownMatches == Known => OutboxMatchesDestination
  BY DEF Known, Matches, OutboxMatchesDestination

LEMMA KnownInit == Init => Known
<1> SUFFICES ASSUME Init PROVE Known
  OBVIOUS
<1>1. Inv
  BY InvInit
<1>2. Faithful /\ \A e \in Entries : Matches(e)
  BY OutboxAssumption DEF Init, Faithful, Honest, Matches, Off, NoRow
<1> QED
  BY <1>1, <1>2 DEF Known

\* The operators' steps touch no row that a worker holds, and judge as it is.
LEMMA OperateKnown ==
  ASSUME Known, Inv', NEW e \in Entries, Operate(e)
  PROVE  Faithful' /\ \A f \in Entries : Matches(f)'
<1> USE DEF Known, Inv
<1>1. UNCHANGED <<overdue, worker, tries, flying, arrived>> /\ overdue \subseteq Entries
  BY DEF Operate, Enqueue, Reauthorize, Cancel, Reconcile, clocks, outside, TypeOK
<1>2. ASSUME astray' = astray, row[e].state \in {"none", "queued"},
             row'[e].state \in {"queued", "canceled"},
             \A f \in Entries : f # e => row'[f] = row[f]
      PROVE  Faithful' /\ \A f \in Entries : Matches(f)'
  <2>1. tries[e] = 0 /\ e \notin arrived /\ e \notin overdue
        /\ \A w \in Workers : worker[w].entry # e
    BY <1>2 DEF Claimed, Faithful
  <2>2. ASSUME NEW w \in Workers
        PROVE  Honest(w)'
    BY <1>1, <1>2, <2>1 DEF Faithful, Honest
  <2> QED
    BY <1>1, <1>2, <2>1, <2>2 DEF Faithful, Matches
<1>3. ASSUME NEW d \in Deliveries, NEW c \in Configs, Enqueue(e, d, c)
      PROVE  Faithful' /\ \A f \in Entries : Matches(f)'
  BY <1>2, <1>3 DEF Enqueue, Queued, Exists, TypeOK, outside
<1>4. ASSUME NEW p \in Entries, NEW c \in Configs, Reauthorize(p, e, c)
      PROVE  Faithful' /\ \A f \in Entries : Matches(f)'
  BY <1>2, <1>4 DEF Reauthorize, Queued, Exists, TypeOK, outside
<1>5. ASSUME Cancel(e)
      PROVE  Faithful' /\ \A f \in Entries : Matches(f)'
  <2>1. row'[e].state = "canceled"
    BY <1>5, EntryFacts DEF Cancel, TypeOK, Exists
  <2> QED
    BY <1>2, <1>5, <2>1 DEF Cancel, TypeOK, outside
<1>6. ASSUME NEW b \in BOOLEAN, Reconcile(e, b)
      PROVE  Faithful' /\ \A f \in Entries : Matches(f)'
  <2>1. /\ row[e].state \in {"unknown", "failed"}
        /\ row'[e] = [row[e] EXCEPT !.state = IF b THEN "sent" ELSE "not_delivered"]
        /\ \A f \in Entries : f # e => row'[f] = row[f]
        /\ astray' = IF b <=> e \in arrived THEN astray ELSE astray \cup {e}
    BY <1>6 DEF Reconcile, TypeOK
  <2>2. row'[e].state = (IF b THEN "sent" ELSE "not_delivered") /\ row'[e].cfg = row[e].cfg
    BY <2>1, EntryFacts DEF Exists
  <2>3. ASSUME NEW w \in Workers
        PROVE  Honest(w)'
    BY <1>1, <2>1, <2>2, <2>3 DEF Faithful, Honest
  <2>4. ASSUME NEW f \in Entries
        PROVE  Matches(f)'
    BY <1>1, <2>1, <2>2, <2>4 DEF Matches, Dead
  <2> QED
    BY <1>1, <2>1, <2>2, <2>3, <2>4 DEF Faithful
<1> QED
  BY <1>3, <1>4, <1>5, <1>6 DEF Operate

\* Clocks and the network: what goes wrong here is counted as astray.
LEMMA WorldKnown ==
  ASSUME Known, Inv', NEW e \in Entries, Expire(e) \/ LeaseElapses(e) \/ Land(e)
  PROVE  Faithful' /\ \A f \in Entries : Matches(f)'
<1> USE DEF Known, Inv, Faithful, Honest, Matches
<1>1. CASE Expire(e)
  BY <1>1 DEF Expire, store, outside
<1>2. CASE LeaseElapses(e)
  BY <1>2 DEF LeaseElapses, store
<1>3. CASE Land(e)
  <2>1. e \in astray /\ tries[e] # 0
    BY <1>3 DEF Land
  <2> QED
    BY <1>3, <2>1 DEF Land, store, clocks
<1> QED
  BY <1>1, <1>2, <1>3

\* A claim is honest from the start, an answer tells what was done, and what is
\* recorded is the answer.
LEMMA WorkerKnown ==
  ASSUME Known, Inv', NEW w \in Workers, Step(w)
  PROVE  Faithful' /\ \A f \in Entries : Matches(f)'
<1> USE DEF Known, Inv
<1>1. overdue \subseteq Entries /\ \A v \in Workers : Honest(v)
  BY DEF TypeOK, Faithful
<1>2. ASSUME UNCHANGED <<store, clocks, tries, outside>>,
             \A v \in Workers : worker'[v] = worker[v] \/ worker'[v].entry = NoEntry
      PROVE  Faithful' /\ \A f \in Entries : Matches(f)'
  <2>1. \A v \in Workers : Honest(v)'
    BY <1>1, <1>2, OutboxAssumption DEF Honest, store, clocks, outside
  <2> QED
    BY <1>2, <2>1 DEF Faithful, Matches, store, clocks, outside
<1>3. ASSUME Start(w) \/ Stop(w)
      PROVE  Faithful' /\ \A f \in Entries : Matches(f)'
  <2>1. \A v \in Workers : worker'[v] = worker[v] \/ worker'[v].entry = NoEntry
    BY <1>3 DEF Start, Stop, Off, Ready, TypeOK
  <2> QED
    BY <1>2, <1>3, <2>1 DEF Start, Stop
<1>4. ASSUME Claim(w)
      PROVE  Faithful' /\ \A f \in Entries : Matches(f)'
  <2>1. /\ UNCHANGED <<tries, flying, arrived, astray>> /\ overdue' \subseteq overdue
        /\ \A f \in overdue : row[f].state = "sending" => f \notin overdue'
    BY <1>4 DEF Claim, outside
  <2>2. ASSUME NEW f \in Entries, row'[f] = Lapsed[f],
               \A v \in Workers : worker'[v].entry = f => worker'[v] = worker[v]
        PROVE  /\ Matches(f)' /\ (f \in overdue' => row'[f].state \notin {"none", "queued"})
               /\ \A v \in Workers : worker'[v].entry = f => Honest(v)'
    <3>1. \/ row'[f] = row[f]
          \/ row[f].state = "sending" /\ f \in overdue
             /\ row'[f].state = "unknown" /\ row'[f].cfg = row[f].cfg
      BY <2>2, EntryFacts DEF Lapsed, Exists
    <3> QED
      BY <1>1, <2>1, <2>2, <3>1 DEF Matches, Faithful, Honest, Dead
  <2>3. ASSUME In("queued") = {}, row' = Lapsed, worker' = [worker EXCEPT ![w] = Off]
        PROVE  Faithful' /\ \A f \in Entries : Matches(f)'
    <3>1. \A v \in Workers : worker'[v] = worker[v] \/ worker'[v].entry = NoEntry
      BY <2>3 DEF Off, TypeOK
    <3> QED
      BY <1>1, <2>1, <2>2, <2>3, <3>1, OutboxAssumption DEF Faithful, Honest
  <2>4. ASSUME NEW e \in In("queued"), NEW v \in {"expired", "blocked", "sending"},
               v = Verdict(e, worker[w].cfg), row' = [Lapsed EXCEPT ![e].state = v],
               worker' = IF v = "sending"
                         THEN [worker EXCEPT ![w].pc = "claimed", ![w].entry = e] ELSE worker
        PROVE  Faithful' /\ \A f \in Entries : Matches(f)'
    <3>1. /\ e \in Entries /\ row[e].state = "queued" /\ tries[e] = 0
          /\ e \notin arrived /\ e \notin overdue /\ \A u \in Workers : worker[u].entry # e
      BY DEF In, Claimed, Faithful
    <3>2. /\ row'[e].state = v /\ row'[e].cfg = row[e].cfg
          /\ \A f \in Entries : f # e => row'[f] = Lapsed[f]
      <4>1. Lapsed[e] \in Rows /\ Lapsed[e] = row[e]
        BY <3>1, LapsedType
      <4>2. [row[e] EXCEPT !.state = v].state = v /\ [row[e] EXCEPT !.state = v].cfg = row[e].cfg
        BY <3>1, EntryFacts DEF Exists
      <4> QED
        BY <2>4, <3>1, <4>1, <4>2, LapsedType
    <3>3. \A u \in Workers : u # w => worker'[u] = worker[u]
      BY <2>4 DEF TypeOK
    <3>4. CASE v = "sending"
      <4>1. row[e].cfg = worker[w].cfg
        BY <2>4, <3>4 DEF Verdict
      <4>2. /\ worker'[w].pc = "claimed" /\ worker'[w].entry = e
            /\ worker'[w].answer = "none" /\ worker'[w].cfg = worker[w].cfg
        <5>1. worker[w] \in [pc : {"ready"}, cfg : Configs, entry : {NoEntry}, answer : {"none"}]
          BY <1>4, WorkerFacts DEF Claim
        <5>2. worker' = [worker EXCEPT ![w] = [worker[w] EXCEPT !.pc = "claimed", !.entry = e]]
          BY <2>4, <3>4
        <5> QED
          BY <5>1, <5>2 DEF TypeOK
      <4>3. Honest(w)' /\ Matches(e)'
        BY <2>1, <3>1, <3>2, <3>4, <4>1, <4>2 DEF Honest, Matches, Dead
      <4>4. ASSUME NEW f \in Entries, f # e
            PROVE  /\ Matches(f)' /\ (f \in overdue' => row'[f].state \notin {"none", "queued"})
                   /\ \A u \in Workers : worker'[u].entry = f => Honest(u)'
        BY <2>2, <3>2, <3>3, <4>2, <4>4
      <4>5. \A u \in Workers : Honest(u)'
        BY <3>1, <3>3, <4>3, <4>4 DEF Honest
      <4> QED
        BY <1>1, <2>1, <3>1, <4>3, <4>4, <4>5 DEF Faithful
    <3>5. CASE v # "sending"
      <4>1. worker' = worker
        BY <2>4, <3>5
      <4>2. Matches(e)'
        BY <2>1, <3>1, <3>2, <3>5 DEF Matches, Dead
      <4>3. ASSUME NEW f \in Entries, f # e
            PROVE  /\ Matches(f)' /\ (f \in overdue' => row'[f].state \notin {"none", "queued"})
                   /\ \A u \in Workers : worker'[u].entry = f => Honest(u)'
        BY <2>2, <3>2, <4>1, <4>3
      <4>4. \A u \in Workers : Honest(u)'
        BY <3>1, <4>1, <4>3 DEF Honest
      <4> QED
        BY <1>1, <2>1, <3>1, <4>2, <4>3, <4>4 DEF Faithful
    <3> QED
      BY <3>4, <3>5
  <2>5. \A e \in Entries : Verdict(e, worker[w].cfg) \in {"expired", "blocked", "sending"}
    BY DEF Verdict
  <2> QED
    BY <1>4, <2>3, <2>4, <2>5 DEF Claim, In
<1>5. ASSUME Send(w)
      PROVE  Faithful' /\ \A f \in Entries : Matches(f)'
  <2> DEFINE e == worker[w].entry
  <2>1. e \in Entries /\ \A v \in Workers \ {w} : worker[v].entry # e
    BY <1>5, WorkerFacts DEF Send, Claimed
  <2>2. /\ UNCHANGED <<row, overdue>> /\ tries'[e] # 0
        /\ \A f \in Entries \ {e} : tries'[f] = tries[f]
    BY <1>5, <2>1 DEF Send, TypeOK, store, clocks
  <2>3. /\ worker'[w].entry = e /\ worker'[w].cfg = worker[w].cfg
        /\ \A v \in Workers \ {w} : worker'[v] = worker[v]
        /\ \/ worker'[w].answer \in {"sent", "unknown"} /\ arrived' = arrived \cup {e}
              /\ UNCHANGED <<flying, astray>>
           \/ worker'[w].answer \in {"failed", "unknown"} /\ UNCHANGED <<flying, arrived, astray>>
           \/ astray' = astray \cup {e} /\ flying' = flying \cup {e} /\ arrived' = arrived
    <3>1. worker[w] \in [pc : {"claimed"}, cfg : Configs, entry : Entries, answer : {"none"}]
      BY <1>5, WorkerFacts DEF Send
    <3> QED
      BY <1>5, <3>1 DEF Send, Answered, TypeOK, outside
  <2>4. tries[e] = 0 /\ e \notin arrived
    BY <1>5, <2>1 DEF Send, Claimed, Faithful
  <2>5. \A v \in Workers : Honest(v)'
    BY <1>1, <2>1, <2>2, <2>3, <2>4 DEF Honest
  <2>6. \A f \in Entries : Matches(f)'
    BY <1>1, <2>1, <2>2, <2>3 DEF Matches, Honest, Dead
  <2> QED
    BY <1>1, <2>1, <2>2, <2>3, <2>5, <2>6 DEF Faithful
<1>6. ASSUME Record(w)
      PROVE  Faithful' /\ \A f \in Entries : Matches(f)'
  <2> DEFINE e == worker[w].entry
             a == worker[w].answer
  <2>1. e \in Entries /\ a \in {"sent", "failed", "unknown"}
        /\ \A v \in Workers \ {w} : worker[v].entry # e
    BY <1>6, WorkerFacts DEF Record, Claimed
  <2>2. /\ UNCHANGED <<tries, overdue, flying, arrived, astray>>
        /\ \A f \in Entries \ {e} : row'[f] = row[f]
        /\ \/ row'[e] = row[e] /\ row[e].state # "sending"
           \/ row'[e].state = a /\ row[e].state = "sending"
    <3>1. row[e].state = "sending" => [row[e] EXCEPT !.state = a].state = a
      BY <2>1, EntryFacts DEF Exists
    <3> QED
      BY <1>6, <2>1, <3>1 DEF Record, TypeOK, clocks, outside
  <2>3. worker'[w].entry = NoEntry /\ \A v \in Workers \ {w} : worker'[v] = worker[v]
    BY <1>6 DEF Record, Ready, TypeOK
  <2>4. \A v \in Workers : Honest(v)'
    BY <1>1, <2>1, <2>2, <2>3, OutboxAssumption DEF Honest
  <2>5. \A f \in Entries : Matches(f)'
    BY <1>1, <2>1, <2>2 DEF Matches, Honest, Dead
  <2> QED
    BY <1>1, <2>1, <2>2, <2>4, <2>5 DEF Faithful
<1> QED
  BY <1>3, <1>4, <1>5, <1>6 DEF Step

LEMMA KnownStep == Known /\ [Next]_vars => Known'
<1> SUFFICES ASSUME Known, [Next]_vars PROVE Known'
  OBVIOUS
<1>1. Inv'
  BY InvStep DEF Known
<1>2. CASE UNCHANGED vars
  BY <1>1, <1>2 DEF vars, store, clocks, outside, Known, Faithful, Honest, Matches
<1> QED
  BY <1>1, <1>2, OperateKnown, WorldKnown, WorkerKnown DEF Next, Known

\* What the outbox says of a row is what its destination saw, for every row that no
\* fault has touched (OutboxMatchesDestination).
THEOREM OutboxIsTrue == Spec => []OutboxMatchesDestination
<1> QED
  BY KnownInit, KnownStep, KnownMatches, PTL DEF Spec

LEMMA EverySendClaimed ==
  ASSUME Known, [Next]_vars, NEW e \in Entries, Handed(e)
  PROVE  /\ tries[e] = 0 /\ (e \notin astray => row[e].state = "sending")
         /\ \E w \in Workers : /\ worker[w].entry = e /\ worker[w].cfg = row[e].cfg
                               /\ \A v \in Workers \ {w} : worker[v].entry # e
<1> USE DEF Known, Inv
<1>1. PICK w \in Workers : Send(w)
  BY DEF Handed, Next, Operate, Step, Enqueue, Cancel, Reconcile, Reauthorize, Expire, LeaseElapses,
         Land, Start, Stop, Claim, Record, vars
<1>2. worker[w].entry = e
  BY <1>1, WorkerFacts DEF Send, Handed, TypeOK
<1>3. tries[e] = 0 /\ \A v \in Workers \ {w} : worker[v].entry # e
  BY <1>1, <1>2 DEF Send, Claimed
<1>4. worker[w].cfg = row[e].cfg /\ (e \notin astray => row[e].state = "sending")
  BY <1>2 DEF Faithful, Honest
<1> QED
  BY <1>2, <1>3, <1>4

\* Whatever is sent is sent for the first time, to the authorised destination, by the
\* one worker whose claim on it stands (SentUnderClaim).
THEOREM SendsAreClaimed == Spec => SentUnderClaim
<1>1. Known /\ [Next]_vars =>
        \A e \in Entries : Handed(e) =>
          /\ tries[e] = 0 /\ (e \notin astray => row[e].state = "sending")
          /\ \E w \in Workers : /\ worker[w].entry = e /\ worker[w].cfg = row[e].cfg
                                /\ \A v \in Workers \ {w} : worker[v].entry # e
  BY EverySendClaimed
<1> QED
  BY <1>1, KnownInit, KnownStep, PTL DEF Spec, SentUnderClaim
=============================================================================
