--------------------------- MODULE EscalationOutbox ---------------------------
(***************************************************************************)
(* The outbox of evidence that leaves the system: an operator authorises   *)
(* one delivery of a ticket to one destination, a worker process sends it  *)
(* once, and whatever is uncertain afterwards is settled by a person.      *)
(*                                                                         *)
(*   src/src/ticket_escalation.rs    the outbox and the worker             *)
(*   src/src/team_server.rs          the routes operators reach it by      *)
(*                                                                         *)
(* Server and workers are processes of their own on one SQLite file.  Each *)
(* operation is one transaction, but a worker's step is three: claim, send *)
(* (no transaction at all), record.  The worker may die in between, a      *)
(* second one may run, and a person may look at the destination meanwhile. *)
(***************************************************************************)
EXTENDS Naturals, FiniteSets

CONSTANTS
  Entries,     \* ids of outbox rows
  NoEntry,
  Deliveries,  \* tickets of the inbox
  NoDelivery,
  Configs,     \* fingerprints of destination and credential
  NoConfig,
  Workers,     \* worker processes that may run at the same time
  MaxEntries,  \* 1000 rows
  Faults       \* "suspend": a worker stalls past its lease; "late": a request
               \* is handled at the destination after its sender gave up on it;
               \* "misreport": a person reports what is not so at the destination

ASSUME OutboxAssumption ==
  /\ NoEntry \notin Entries /\ NoDelivery \notin Deliveries /\ NoConfig \notin Configs
  /\ MaxEntries \in Nat /\ Faults \subseteq {"suspend", "late", "misreport"}

VARIABLES
  row,      \* ticket_escalation_outbox
  checked,  \* ticket_escalation_reconciliation: "none", "delivered" or "absent"
  expired,  \* rows whose authorization has run out
  overdue,  \* rows that have been "sending" for 60 s
  worker,   \* the processes
  tries,    \* history: how often a row was handed to the network, up to 2
  flying,   \* requests on their way after their sender gave up
  arrived,  \* rows the destination has acted on
  astray    \* history: rows one of the three faults has happened to

store  == <<row, checked>>
clocks == <<expired, overdue>>
outside == <<flying, arrived, astray>>
vars   == <<store, clocks, worker, tries, outside>>

NoRow == [state |-> "none", delivery |-> NoDelivery, cfg |-> NoConfig, parent |-> NoEntry]
Off   == [pc |-> "off", cfg |-> NoConfig, entry |-> NoEntry, answer |-> "none"]
Ready(c) == [pc |-> "ready", cfg |-> c, entry |-> NoEntry, answer |-> "none"]

Exists(e) == row[e].state # "none"
In(state) == {e \in Entries : row[e].state = state}
Room      == Cardinality({e \in Entries : Exists(e)}) < MaxEntries
Queued(d, c, p) == [state |-> "queued", delivery |-> d, cfg |-> c, parent |-> p]

-----------------------------------------------------------------------------
(* The operators, through the team server.                                 *)

\* A delivery that has an original row already gets no second one.
Enqueue(e, d, c) ==
  /\ ~Exists(e) /\ Room
  /\ \A o \in Entries : row[o].delivery = d => row[o].parent # NoEntry
  /\ row' = [row EXCEPT ![e] = Queued(d, c, NoEntry)]
  /\ UNCHANGED <<checked, clocks, worker, tries, outside>>

Cancel(e) ==
  /\ row[e].state = "queued"
  /\ row' = [row EXCEPT ![e].state = "canceled"]
  /\ UNCHANGED <<checked, clocks, worker, tries, outside>>

\* Somebody inspected the destination; this never queues another send.
Reconcile(e, delivered) ==
  /\ row[e].state \in {"unknown", "failed"}
  /\ "misreport" \in Faults \/ (delivered <=> e \in arrived)
  /\ row' = [row EXCEPT ![e].state = IF delivered THEN "sent" ELSE "not_delivered"]
  /\ checked' = [checked EXCEPT ![e] = IF delivered THEN "delivered" ELSE "absent"]
  /\ astray' = IF delivered <=> e \in arrived THEN astray ELSE astray \cup {e}
  /\ UNCHANGED <<clocks, worker, tries, flying, arrived>>

\* Mutant: a second child of the same attempt.
Reauthorize_Again(p, e, c) ==
  /\ ~Exists(e) /\ Room
  /\ row[p].state \in {"expired", "blocked", "canceled", "not_delivered"}
  /\ row' = [row EXCEPT ![e] = Queued(row[p].delivery, c, p)]
  /\ UNCHANGED <<checked, clocks, worker, tries, outside>>

\* A new attempt, once, after one that was never dispatched or never arrived.
Reauthorize(p, e, c) ==
  /\ ~Exists(e) /\ Room /\ \A o \in Entries : Exists(o) => row[o].parent # p
  /\ \/ row[p].state \in {"expired", "blocked", "canceled"}
     \/ row[p].state = "not_delivered" /\ checked[p] = "absent"
  /\ row' = [row EXCEPT ![e] = Queued(row[p].delivery, c, p)]
  /\ UNCHANGED <<checked, clocks, worker, tries, outside>>

-----------------------------------------------------------------------------
(* A worker process: claim, send, record, and again.                       *)

Start(w) ==
  /\ worker[w].pc = "off"
  /\ \E c \in Configs : worker' = [worker EXCEPT ![w] = Ready(c)]
  /\ UNCHANGED <<store, clocks, tries, outside>>

\* It has made its 32 attempts, found nothing to do, or was killed.
Stop(w) ==
  /\ worker[w].pc # "off" /\ worker' = [worker EXCEPT ![w] = Off]
  /\ UNCHANGED <<store, clocks, tries, outside>>

\* Mutant: an attempt whose sender went away is queued again.
Lapsed_Requeued ==
  [e \in Entries |-> IF row[e].state = "sending" /\ e \in overdue
                     THEN [row[e] EXCEPT !.state = "queued"] ELSE row[e]]

\* What every claim writes first: nobody knows what became of an overdue send.
Lapsed ==
  [e \in Entries |-> IF row[e].state = "sending" /\ e \in overdue
                     THEN [row[e] EXCEPT !.state = "unknown"] ELSE row[e]]

\* Mutant: the authorization is for any destination.
Verdict_AnyConfig(e, c) == IF e \in expired THEN "expired" ELSE "sending"

\* Whether a queued row may be sent now, to the destination c.
Verdict(e, c) ==
  CASE e \in expired     -> "expired"
    [] row[e].cfg # c    -> "blocked"
    [] OTHER             -> "sending"

\* One transaction: the authorization is used up before anything is sent.  The code
\* takes the oldest queued row; here any may be it.
Claim(w) ==
  /\ worker[w].pc = "ready"
  /\ overdue' = overdue \ {e \in overdue : row[e].state = "sending"}
  /\ \/ /\ In("queued") = {} /\ row' = Lapsed
        /\ worker' = [worker EXCEPT ![w] = Off]
     \/ \E e \in In("queued") :
          LET v == Verdict(e, worker[w].cfg) IN
          /\ row' = [Lapsed EXCEPT ![e].state = v]
          /\ worker' = IF v = "sending"
                       THEN [worker EXCEPT ![w].pc = "claimed", ![w].entry = e] ELSE worker
  /\ UNCHANGED <<checked, expired, tries, outside>>

Answered(w, answer) ==
  worker' = [worker EXCEPT ![w].pc = "answered", ![w].answer = answer]

\* One HTTP request: it is carried out or not, and its answer says so, or is
\* lost, or is none the sender can interpret; a rejection means not carried out.
Send(w) ==
  LET e == worker[w].entry IN
  /\ worker[w].pc = "claimed"
  /\ tries' = [tries EXCEPT ![e] = IF @ < 2 THEN @ + 1 ELSE @]
  /\ \/ /\ arrived' = arrived \cup {e} /\ UNCHANGED <<flying, astray>>
        /\ Answered(w, "sent") \/ Answered(w, "unknown")
     \/ /\ UNCHANGED outside
        /\ Answered(w, "failed") \/ Answered(w, "unknown")
     \/ /\ "late" \in Faults /\ flying' = flying \cup {e} /\ UNCHANGED arrived
        /\ astray' = astray \cup {e}
        /\ Answered(w, "unknown")
  /\ UNCHANGED <<store, clocks>>

\* Mutants: the answer is written whatever the row says; a lost one is a refusal.
Record_Anyway(w) ==
  /\ worker[w].pc = "answered"
  /\ row' = [row EXCEPT ![worker[w].entry].state = worker[w].answer]
  /\ worker' = [worker EXCEPT ![w] = Ready(worker[w].cfg)]
  /\ UNCHANGED <<checked, clocks, tries, outside>>
Record_LostIsFailed(w) ==
  LET e == worker[w].entry IN
  /\ worker[w].pc = "answered"
  /\ row' = IF row[e].state = "sending"
            THEN [row EXCEPT ![e].state = IF worker[w].answer = "sent" THEN "sent" ELSE "failed"]
            ELSE row
  /\ worker' = [worker EXCEPT ![w] = Ready(worker[w].cfg)]
  /\ UNCHANGED <<checked, clocks, tries, outside>>

\* The answer counts only while the row is still this worker's to settle.
Record(w) ==
  LET e == worker[w].entry IN
  /\ worker[w].pc = "answered"
  /\ row' = IF row[e].state = "sending" THEN [row EXCEPT ![e].state = worker[w].answer] ELSE row
  /\ worker' = [worker EXCEPT ![w] = Ready(worker[w].cfg)]
  /\ UNCHANGED <<checked, clocks, tries, outside>>

-----------------------------------------------------------------------------
(* Clocks and the network.                                                 *)

Expire(e) ==
  /\ Exists(e) /\ e \notin expired /\ expired' = expired \cup {e}
  /\ UNCHANGED <<store, overdue, worker, tries, outside>>

\* Mutant: the lease is shorter than the request may take.
LeaseElapses_Early(e) ==
  /\ row[e].state = "sending" /\ e \notin overdue /\ overdue' = overdue \cup {e}
  /\ UNCHANGED <<store, expired, worker, tries, outside>>

\* A request ends after 20 s at most, so after 60 s its worker has recorded the
\* answer or is gone, unless the process itself was stopped for that long.
LeaseElapses(e) ==
  /\ row[e].state = "sending" /\ e \notin overdue /\ overdue' = overdue \cup {e}
  /\ "suspend" \in Faults \/ \A w \in Workers : worker[w].entry # e
  /\ astray' = IF \A w \in Workers : worker[w].entry # e THEN astray ELSE astray \cup {e}
  /\ UNCHANGED <<store, expired, worker, tries, flying, arrived>>

Land(e) ==
  /\ e \in flying /\ flying' = flying \ {e} /\ arrived' = arrived \cup {e}
  /\ UNCHANGED <<store, clocks, worker, tries, astray>>

-----------------------------------------------------------------------------

Init ==
  /\ row = [e \in Entries |-> NoRow] /\ checked = [e \in Entries |-> "none"]
  /\ expired = {} /\ overdue = {} /\ worker = [w \in Workers |-> Off]
  /\ tries = [e \in Entries |-> 0] /\ flying = {} /\ arrived = {} /\ astray = {}

Operate(e) ==
  \/ \E c \in Configs : \/ \E d \in Deliveries : Enqueue(e, d, c)
                        \/ \E p \in Entries : Reauthorize(p, e, c)
  \/ Cancel(e)
  \/ \E delivered \in BOOLEAN : Reconcile(e, delivered)

Step(w) == Start(w) \/ Claim(w) \/ Send(w) \/ Record(w) \/ Stop(w)

Next ==
  \/ \E e \in Entries : Operate(e) \/ Expire(e) \/ LeaseElapses(e) \/ Land(e)
  \/ \E w \in Workers : Step(w)

Spec == Init /\ [][Next]_vars

-----------------------------------------------------------------------------
(* Properties.                                                             *)

Dead  == {"expired", "blocked", "canceled", "not_delivered"}
Rows  ==
  [state : Dead \cup {"queued", "sending", "sent", "failed", "unknown"},
   delivery : Deliveries, cfg : Configs, parent : Entries \cup {NoEntry}] \cup {NoRow}
Processes ==
  {Off} \cup [pc : {"ready"}, cfg : Configs, entry : {NoEntry}, answer : {"none"}]
        \cup [pc : {"claimed"}, cfg : Configs, entry : Entries, answer : {"none"}]
        \cup [pc : {"answered"}, cfg : Configs, entry : Entries,
              answer : {"sent", "failed", "unknown"}]

\* Every variable holds a value of the type the tables and processes give it.
TypeOK ==
  /\ row \in [Entries -> Rows] /\ checked \in [Entries -> {"none", "delivered", "absent"}]
  /\ expired \subseteq Entries /\ overdue \subseteq Entries
  /\ worker \in [Workers -> Processes] /\ tries \in [Entries -> 0..2]
  /\ flying \subseteq Entries /\ arrived \subseteq Entries /\ astray \subseteq Entries

\* A delivery has one attempt at a time that has reached the destination or still
\* may: a new one exists only where every earlier one is known to be dead, however
\* operators, retries and workers interleave (reauthorize_at).
OneLiveAttempt ==
  \A e, f \in Entries :
    (Exists(e) /\ Exists(f) /\ row[e].state \notin Dead /\ row[f].state \notin Dead
     /\ row[e].delivery = row[f].delivery) => e = f

\* An authorization is used once: no row is handed to the network twice, not by two
\* workers, not after a crash, a lapsed lease or a verdict (step commits first).
SentOnce == \A e \in Entries : tries[e] <= 1

\* What the outbox says of a row is what the destination saw of it, unless a person
\* misreported that row or its request outlived the lease it was sent under.
OutboxMatchesDestination ==
  \A e \in Entries \ astray :
    /\ row[e].state = "sent" => e \in arrived
    /\ row[e].state \in Dead \cup {"none", "queued", "failed"} => e \notin arrived

Handed(e) == tries'[e] # tries[e]

\* What is sent is sent for the first time, to the destination that was authorised, by
\* one worker only, and under a claim that still holds (not cancelled, not given up)
\* unless that worker was stalled past its lease.
SentUnderClaim ==
  [][\A e \in Entries : Handed(e) =>
       /\ tries[e] = 0 /\ (e \notin astray => row[e].state = "sending")
       /\ \E w \in Workers : /\ worker[w].entry = e /\ worker[w].cfg = row[e].cfg
                             /\ \A v \in Workers \ {w} : worker[v].entry # e]_vars

SettledStep(e) ==
  /\ row[e].state \in Dead \cup {"sent"} => row'[e] = row[e]
  /\ checked[e] # "none" => checked'[e] = checked[e]

\* A settled attempt stays settled as it was, whoever answers late: the worker whose
\* lease lapsed does not overwrite what a person has established since.
SettledIsFinal == [][\A e \in Entries : SettledStep(e)]_vars
=============================================================================
