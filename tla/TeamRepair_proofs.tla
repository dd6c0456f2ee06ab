--------------------------- MODULE TeamRepair_proofs ---------------------------
(***************************************************************************)
(* What client and team server guarantee together, for any number of runs, *)
(* targets, approvals, identities and people, with every fault of either.  *)
(*                                                                         *)
(* The server keeps its own invariant (SP!Inv), as every call is one of    *)
(* its steps, and the engine keeps its own (RunInv), as every frame is one *)
(* of its handlers.  TeamInv says what relates them: what is attempted in  *)
(* the file was approved and used up for that very target, what the server *)
(* recorded of it is what the file says, and what the worker is out for is *)
(* still there when its answer comes.                                      *)
(*                                                                         *)
(* Together they keep the promise of GovernedRollout.  For that the        *)
(* invariant also has to say (Unsent) that a run does not go on over a     *)
(* target whose permit was noted and whose change was not sent: no permit  *)
(* is ever noted where another one was.                                    *)
(***************************************************************************)
EXTENDS RepairRun_proofs, TeamRepair, WellFoundedInduction

SP == INSTANCE RepairAuthority_proofs WITH
        Requests <- Approvals, NoRequest <- NoApproval, Results <- Settled,
        Bindings <- Cited,
        EventIds <- {EventNo(s, n) : s \in Slots, n \in 1..MaxBoots}

-----------------------------------------------------------------------------
(* The invariant.                                                          *)

Standing == {"pending", "approved", "denied", "expired", "consumed"}
Views    == [req : Approvals, binding : Bindings, gen : 1..MaxGen, state : Standing]
Work     == [kind : {"mode", "request", "check", "consume", "outcome"}, gen : 1..MaxGen,
             by : Mine, binding : Cited \cup {NoReceipt.binding},
             req : Approvals \cup {NoApproval}, slot : Slots \cup {<<0, 0>>},
             res : {"waiting", "done", "error"}, state : Standing \cup {"none"}]

\* No receipt outlives the frame that got it.
Client ==
  /\ receipt = NoReceipt /\ gen \in 1..MaxGen /\ token \in Mine \cup {NoToken}
  /\ view \in Views \cup {NoView}
  /\ worker \in Work \cup {NoWorker} /\ worker.gen <= gen

\* A target that waits for the answer to a consume is still in review, or given up.
Held(s) ==
  /\ book.tgt[s].phase \in {"Review", "Unknown"}
  /\ book.run[s[1]].team /\ Production(book, s[1])
  /\ restart \/ book.tgt[s].before # "desired"

\* What the worker asks for exists, and what it brings back stands on the server.
Asking ==
  worker.kind \in {"request", "check", "consume"} =>
    /\ worker.req \in Approvals /\ worker.binding \in Cited
    /\ worker.res = "done" => S!Exists(worker.req) /\ worker.state \in Standing
Consuming ==
  worker.kind = "consume" =>
    /\ Held(<<worker.binding.run, worker.binding.tgt>>)
    /\ worker.res = "done" => /\ approval[worker.req].state = "consumed"
                              /\ approval[worker.req].binding = worker.binding
Reporting ==
  worker.kind = "outcome" =>
    LET s == worker.slot IN
    /\ s \in Slots /\ book.tgt[s].event # NoEvent
    /\ disk.tgt[s].event = book.tgt[s].event /\ disk.tgt[s].approval = book.tgt[s].approval
    /\ worker.res = "done" => outcome[book.tgt[s].approval] = EventOf(s)

\* What the file calls attempted was approved for that target, and used up.
Approved ==
  \A s \in Slots : disk.tgt[s].attempted =>
    LET q == disk.tgt[s].approval IN
    /\ q \in Approvals /\ approval[q].state = "consumed"
    /\ approval[q].binding.run = s[1] /\ approval[q].binding.tgt = s[2]

\* What was sent under team control, the file calls attempted.
Attempts ==
  \A s \in Slots :
    disk.run[s[1]].team /\ sent[<<s[1], s[2], "Apply">>] > 0 => disk.tgt[s].attempted

\* A result event is the verdict of its target, and only events are delivered.
Eventful ==
  \A s \in Slots :
    /\ disk.tgt[s].delivered => disk.tgt[s].event # NoEvent
    /\ disk.tgt[s].event # NoEvent =>
         /\ disk.tgt[s].event.boot \in 1..MaxBoots
         /\ disk.tgt[s].phase \in Settled /\ disk.tgt[s].event.result = disk.tgt[s].phase

\* The open run is the newest: an earlier one is what it can cite.
Kinded(b) == \A r \in Runs : /\ b.run[r].kind \in Kinds \cup {"none"}
                             /\ b.run[r].kind = "none" => ~b.run[r].team
Latest(b) == \A q, r \in Runs : Unfinished(b, r) /\ b.run[q].kind # "none" => q <= r

\* A run with a target that was called attempted, but not sent, does not go on.
Unsent ==
  \A s \in Slots :
    disk.tgt[s].attempted /\ sent[<<s[1], s[2], "Apply">>] = 0 => ~Unfinished(book, s[1])

Journals == Approved /\ Attempts /\ Eventful /\ CentralMatchesJournal
Opening  == Kinded(book) /\ Kinded(disk) /\ Latest(book) /\ Unsent

TeamInv ==
  RunInv /\ SP!Inv /\ Client /\ Asking /\ Consuming /\ Reporting /\ Journals /\ Opening
-----------------------------------------------------------------------------
(* The server: what the client's worker and everybody else do to it are    *)
(* steps of RepairAuthority.                                               *)

\* The id of an event is positive.
LEMMA EventNumbers ==
  ASSUME NEW s \in Slots, NEW n \in 1..MaxBoots
  PROVE  EventNo(s, n) \in Nat \ {0}
  <1> DEFINE x == (n - 1) * MaxRuns
             y == (x + s[1] - 1) * NTargets
  <1>1. n - 1 \in Nat /\ MaxRuns \in Nat /\ NTargets \in Nat  BY RunAssumption
  <1>2. s[1] - 1 \in Nat /\ s[2] \in Nat \ {0}  BY RunAssumption DEF Slots, Runs, Targets
  <1>3. x \in Nat
    <2>1. \A i, k \in Nat : i * k \in Nat  OBVIOUS
    <2> QED BY <1>1, <2>1
  <1>4. y \in Nat
    <2> HIDE DEF x
    <2>1. \A i, k \in Nat : i * k \in Nat  OBVIOUS
    <2>2. x + s[1] - 1 \in Nat  BY <1>2, <1>3 DEF Slots, Runs
    <2> QED BY <1>1, <2>1, <2>2
  <1>5. EventNo(s, n) = y + s[2]  BY DEF EventNo
  <1> HIDE DEF y
  <1> QED BY <1>2, <1>4, <1>5

\* The server's assumptions hold of what the client gives it.
LEMMA ServerAssumption == SP!AuthorityAssumption
  <1>1. {EventNo(s, n) : s \in Slots, n \in 1..MaxBoots} \subseteq Nat \ {0}  BY EventNumbers
  <1>2. Cited \subseteq [run : Nat, tgt : Nat, proof : Nat]
    BY RunAssumption DEF Cited, Runs, Targets
  <1>3. SP!NoBinding \notin Cited  BY RunAssumption DEF SP!NoBinding, Cited, Runs
  <1> QED BY <1>1, <1>2, <1>3, RunAssumption, TeamAssumption DEF SP!AuthorityAssumption

\* A step of the server keeps its invariant, and takes nothing back.
LEMMA ServerInvStep ==
  SP!Inv /\ [SP!Next]_(SP!vars) => SP!Inv' /\ \A q \in Approvals : SP!FinalStep(q)
  BY ServerAssumption, SP!InvStep, SP!EveryStepFinal

\* What the server has, it keeps: approvals, what they are bound to, uses, outcomes.
ServerGrows ==
  \A q \in Approvals :
    /\ S!Exists(q) => S!Exists(q)' /\ approval'[q].binding = approval[q].binding
    /\ approval[q].state = "consumed" => approval'[q].state = "consumed"
    /\ outcome[q] # S!NoOutcome => outcome'[q] = outcome[q]

\* A step of the server's specification keeps its invariant, and what it has.
LEMMA ServerStep ==
  ASSUME SP!Inv, SP!Next \/ UNCHANGED serverVars
  PROVE  SP!Inv' /\ ServerGrows
  <1>1. [SP!Next]_(SP!vars)  BY DEF serverVars, SP!vars, SP!store, SP!world
  <1>2. SP!Inv' /\ \A q \in Approvals : SP!FinalStep(q)  BY <1>1, ServerInvStep
  <1>3. ASSUME NEW q \in Approvals, S!Exists(q)
        PROVE  S!Exists(q)' /\ approval'[q].binding = approval[q].binding
    BY <1>2, <1>3 DEF SP!FinalStep, SP!Exists, S!Exists
  <1>4. ASSUME NEW q \in Approvals, approval[q].state = "consumed"
        PROVE  approval'[q].state = "consumed"
    BY <1>2, <1>4 DEF SP!FinalStep
  <1>5. ASSUME NEW q \in Approvals, outcome[q] # S!NoOutcome
        PROVE  outcome'[q] = outcome[q]
    BY <1>2, <1>5 DEF SP!FinalStep, SP!NoOutcome, S!NoOutcome
  <1> QED BY <1>2, <1>3, <1>4, <1>5 DEF ServerGrows

\* What the server has on an approval that exists, or was reported on.
LEMMA ServerKnown ==
  ASSUME SP!Inv
  PROVE  /\ \A q \in Approvals : S!Exists(q) =>
              /\ approval[q].state \in Standing /\ approval[q].binding \in Cited
              /\ approval[q].by \in Tokens
         /\ \A q \in Approvals : approval[q].state = "consumed" => S!Exists(q)
         /\ \A q \in Approvals : outcome[q] # S!NoOutcome =>
              /\ outcome[q].approval = q /\ outcome[q].result \in Settled
              /\ approval[q].state = "consumed"
              /\ outcome[q].run = approval[q].binding.run
              /\ outcome[q].tgt = approval[q].binding.tgt
  <1>1. SP!TypeOK /\ SP!OutcomeBelongs  BY DEF SP!Inv
  <1>2. ASSUME NEW q \in Approvals, S!Exists(q)
        PROVE  /\ approval[q].state \in Standing /\ approval[q].binding \in Cited
               /\ approval[q].by \in Tokens
    BY <1>1, <1>2 DEF SP!TypeOK, SP!Rows, SP!NoRow, S!Exists, Standing
  <1>3. ASSUME NEW q \in Approvals, outcome[q] # S!NoOutcome
        PROVE  /\ outcome[q].approval = q /\ outcome[q].result \in Settled
               /\ approval[q].state = "consumed"
               /\ outcome[q].run = approval[q].binding.run
               /\ outcome[q].tgt = approval[q].binding.tgt
    <2>1. outcome[q] \in SP!Events  BY <1>1, <1>3 DEF SP!TypeOK, S!NoOutcome, SP!NoOutcome
    <2>2. outcome[q].result \in Settled  BY <2>1 DEF SP!Events
    <2> QED BY <1>1, <1>3, <2>2 DEF SP!OutcomeBelongs, S!NoOutcome, SP!NoOutcome
  <1>4. \A q \in Approvals : approval[q].state = "consumed" => S!Exists(q)  BY DEF S!Exists
  <1> QED BY <1>2, <1>3, <1>4

\* The two instances of the server count the same way.
LEMMA CardinalitySame == \A X : SP!Cardinality(X) = S!Cardinality(X)
  BY Zenon DEF SP!Cardinality, S!Cardinality

\* What everybody else does at the server leaves the outcomes alone.
LEMMA OutsideMoves ==
  ASSUME SP!Inv, Outside
  PROVE  SP!Next /\ SP!Inv' /\ ServerGrows /\ outcome' = outcome
  <1>1. ASSUME NEW k \in Others, NEW q \in Approvals, NEW v \in {"approved", "denied"},
               S!Decide(k, q, v)
        PROVE  SP!Next /\ outcome' = outcome
    <2>1. SP!Decide(k, q, v) /\ outcome' = outcome
      BY <1>1 DEF S!Decide, S!Authorized, S!Exists, S!Lapsing, S!Open, S!Expire, S!Log, S!world,
                  SP!Decide, SP!Authorized, SP!Exists, SP!Lapsing, SP!Open, SP!Expire, SP!Log,
                  SP!world
    <2> QED BY <2>1, TeamAssumption DEF SP!Next, SP!Serve
  <1>2. ASSUME NEW k \in Others, S!List(k)
        PROVE  SP!Next /\ outcome' = outcome
    <2>1. SP!List(k) /\ outcome' = outcome
      BY <1>2 DEF S!List, S!Visible, S!Authorized, S!Exists, S!Lapsing, S!Open, S!Expire, S!Log,
                  S!world, SP!List, SP!Visible, SP!Authorized, SP!Exists, SP!Lapsing, SP!Open,
                  SP!Expire, SP!Log, SP!world
    <2> QED BY <2>1, TeamAssumption DEF SP!Next, SP!Serve
  <1>3. ASSUME S!World
        PROVE  SP!Next /\ outcome' = outcome
    <2>1. SP!World /\ outcome' = outcome
      BY <1>3 DEF S!World, S!Revoke, S!JwtExpires, S!ChangeRole, S!DeadlinePasses, S!CaptureAges,
                  S!ProofExpires, S!Authorized, S!Exists, S!Open, S!store,
                  SP!World, SP!Revoke, SP!JwtExpires, SP!ChangeRole, SP!DeadlinePasses,
                  SP!CaptureAges, SP!ProofExpires, SP!Authorized, SP!Exists, SP!Open, SP!store
    <2> QED BY <2>1 DEF SP!Next
  <1>4. SP!Next /\ outcome' = outcome  BY <1>1, <1>2, <1>3 DEF Outside
  <1> QED BY <1>4, ServerStep

\* A request creates its approval.
LEMMA RequestMoves ==
  ASSUME SP!Inv, Client, Asking, CallRequest
  PROVE  /\ SP!Next /\ SP!Inv' /\ ServerGrows /\ outcome' = outcome
         /\ S!Exists(worker.req)' /\ worker'.state \in Standing \cup {"none"}
         /\ worker'.res = "done" => worker'.state = "pending"
  <1> DEFINE q == worker.req
  <1>1. /\ worker \in Work /\ q \in Approvals /\ worker.binding \in Cited /\ worker.by \in Tokens
        /\ S!Create(worker.by, q, worker.binding) /\ Acted("pending")
    BY TeamAssumption DEF CallRequest, Client, Asking, Work, NoWorker
  <1>2. SP!Create(worker.by, q, worker.binding)
    <2> HIDE DEF q
    <2>1. \A r : SP!Exists(r) <=> S!Exists(r)  BY DEF S!Exists, SP!Exists
    <2>2. {r \in Approvals : SP!Exists(r)} = {r \in Approvals : S!Exists(r)}  BY <2>1
    <2>3. SP!Cardinality({r \in Approvals : SP!Exists(r)}) < MaxRows
      BY <1>1, <2>2, CardinalitySame DEF S!Create
    <2>4. SP!Authorized(worker.by)  BY <1>1 DEF S!Create, S!Authorized, SP!Authorized
    <2>5. SP!Log("request", {q})  BY <1>1 DEF S!Create, S!Log, SP!Log
    <2> QED BY <1>1, <2>1, <2>3, <2>4, <2>5 DEF S!Create, S!world, SP!Create, SP!world
  <1>3. SP!Next  BY <1>1, <1>2 DEF SP!Next, SP!Serve
  <1>4. SP!Inv' /\ ServerGrows  BY <1>3, ServerStep
  <1>5. outcome' = outcome /\ S!Exists(q)'
    <2>1. outcome' = outcome /\ approval' = [approval EXCEPT ![q] =
            [state |-> "pending", binding |-> worker.binding, by |-> worker.by, decider |-> NoToken]]
      BY <1>1 DEF S!Create
    <2>2. approval'[q].state = "pending"  BY <1>1, <2>1 DEF SP!Inv, SP!TypeOK
    <2>3. worker'.req = q  BY <1>1 DEF Acted, Answer, Work
    <2> QED BY <2>1, <2>2, <2>3 DEF S!Exists
  <1>6. /\ worker'.state \in Standing \cup {"none"}
        /\ worker'.res = "done" => worker'.state = "pending"
    BY <1>1 DEF Acted, Answer, Work, Standing
  <1> QED BY <1>3, <1>4, <1>5, <1>6

\* A check lists, and what lapsed on the list is written off.
LEMMA CheckMoves ==
  ASSUME SP!Inv, Client, Asking, CallCheck
  PROVE  /\ SP!Next \/ UNCHANGED serverVars
         /\ SP!Inv' /\ ServerGrows /\ outcome' = outcome
         /\ worker'.res = "done" => S!Exists(worker.req)' /\ worker'.state \in Standing
         /\ worker'.state \in Standing \cup {"none"}
  <1> DEFINE q == worker.req
             L == {r \in S!Visible(worker.by) : S!Lapsing(r)}
  <1>1. /\ worker \in Work /\ q \in Approvals /\ worker.by \in Tokens
        /\ S!Authorized(worker.by) /\ worker'.req = q
        /\ IF L = {} THEN UNCHANGED serverVars ELSE S!Expire(L)
        /\ IF q \in S!Visible(worker.by) THEN Acted(approval'[q].state) ELSE Answer("error", "none")
    <2>1. /\ worker \in Work /\ q \in Approvals /\ worker.by \in Tokens
      BY TeamAssumption DEF CallCheck, Client, Asking, Work, NoWorker
    <2>2. /\ S!Authorized(worker.by)
          /\ IF L = {} THEN UNCHANGED serverVars ELSE S!Expire(L)
          /\ IF q \in S!Visible(worker.by) THEN Acted(approval'[q].state)
             ELSE Answer("error", "none")
      BY DEF CallCheck
    <2>3. worker'.req = q  BY <2>1, <2>2 DEF Acted, Answer, Work
    <2> QED BY <2>1, <2>2, <2>3
  <1>2. S!Visible(worker.by) = SP!Visible(worker.by) /\ \A r : S!Lapsing(r) <=> SP!Lapsing(r)
    BY DEF S!Visible, SP!Visible, S!Lapsing, SP!Lapsing, S!Exists, SP!Exists, S!Open, SP!Open
  <1>3. (SP!Next \/ UNCHANGED serverVars) /\ outcome' = outcome
    <2>1. CASE L = {}  BY <1>1, <2>1 DEF serverVars
    <2>2. CASE L # {}
      <3>1. L = {r \in SP!Visible(worker.by) : SP!Lapsing(r)}  BY <1>2
      <3> HIDE DEF L
      <3>2. SP!Expire(L) /\ outcome' = outcome
        BY <1>1, <2>2 DEF S!Expire, SP!Expire, S!Log, SP!Log, S!world, SP!world
      <3>3. SP!Authorized(worker.by)  BY <1>1 DEF S!Authorized, SP!Authorized
      <3>4. SP!List(worker.by)  BY <2>2, <3>1, <3>2, <3>3 DEF SP!List
      <3> QED BY <1>1, <3>2, <3>4 DEF SP!Next, SP!Serve
    <2> QED BY <2>1, <2>2
  <1>4. SP!Inv' /\ ServerGrows  BY <1>3, ServerStep
  <1>5. \A r \in Approvals : S!Exists(r)' => approval'[r].state \in Standing
    BY <1>4 DEF SP!Inv, SP!TypeOK, SP!Rows, SP!NoRow, S!Exists, Standing
  <1>6. q \in S!Visible(worker.by) => S!Exists(q)
    BY DEF S!Visible
  <1>7. worker'.res = "done" =>
          q \in S!Visible(worker.by) /\ worker'.state = approval'[q].state
    BY <1>1 DEF Acted, Answer, Work
  <1>8. worker'.state = approval'[q].state \/ worker'.state = "none"
    BY <1>1 DEF Acted, Answer, Work
  <1>9. q \in S!Visible(worker.by) => approval'[q].state \in Standing /\ S!Exists(q)'
    BY <1>1, <1>4, <1>5, <1>6 DEF ServerGrows, S!Exists
  <1>10. worker'.state \in Standing \cup {"none"}
    BY <1>1, <1>9 DEF Acted, Answer, Work
  <1> QED BY <1>3, <1>4, <1>7, <1>9, <1>10, <1>1

\* A use that is granted is of the very binding it was asked for.
LEMMA ConsumeMoves ==
  ASSUME SP!Inv, Client, Asking, CallConsume
  PROVE  /\ SP!Next /\ SP!Inv' /\ ServerGrows /\ outcome' = outcome
         /\ worker'.state \in Standing \cup {"none"}
         /\ worker'.res = "done" =>
              /\ worker'.state = "consumed" /\ S!Exists(worker.req)'
              /\ approval'[worker.req].state = "consumed"
              /\ approval'[worker.req].binding = worker.binding
  <1> DEFINE q == worker.req
  <1>1. /\ worker \in Work /\ q \in Approvals /\ worker.binding \in Cited /\ worker.by \in Tokens
        /\ S!Consume(worker.by, q, worker.binding) /\ worker'.req = q
        /\ IF approval'[q].state = "consumed" THEN Acted("consumed") ELSE Answer("error", "none")
    <2>1. worker \in Work /\ q \in Approvals /\ worker.binding \in Cited /\ worker.by \in Tokens
      BY TeamAssumption DEF CallConsume, Client, Asking, Work, NoWorker
    <2>2. /\ S!Consume(worker.by, q, worker.binding)
          /\ IF approval'[q].state = "consumed" THEN Acted("consumed") ELSE Answer("error", "none")
      BY DEF CallConsume
    <2>3. worker'.req = q  BY <2>1, <2>2 DEF Acted, Answer, Work
    <2> QED BY <2>1, <2>2, <2>3
  <1>2. SP!Consume(worker.by, q, worker.binding)
    BY <1>1 DEF S!Consume, S!Authorized, S!Exists, S!Lapsing, S!Open, S!Expire, S!Log, S!world,
                SP!Consume, SP!Authorized, SP!Exists, SP!Lapsing, SP!Open, SP!Expire, SP!Log,
                SP!world
  <1>3. SP!Next  BY <1>1, <1>2 DEF SP!Next, SP!Serve
  <1>4. SP!Inv' /\ ServerGrows  BY <1>3, ServerStep
  <1>5. outcome' = outcome  BY <1>1 DEF S!Consume, S!Expire
  <1>6. approval'[q].state = "consumed" => approval[q].binding = worker.binding
    <2>1. approval[q] \in SP!Rows  BY <1>1 DEF SP!Inv, SP!TypeOK
    <2>2. S!Expire({q}) => approval'[q].state = "expired"
      BY <1>1, <2>1 DEF S!Expire, SP!Rows, SP!NoRow
    <2> QED BY <1>1, <2>2 DEF S!Consume
  <1>7. S!Exists(q) /\ approval'[q].binding = approval[q].binding /\ S!Exists(q)'
    BY <1>1, <1>4 DEF S!Consume, ServerGrows, S!Exists
  <1>8. /\ worker'.state \in Standing \cup {"none"}
        /\ worker'.res = "done" => worker'.state = "consumed" /\ approval'[q].state = "consumed"
    BY <1>1 DEF Acted, Answer, Work, Standing
  <1> QED BY <1>1, <1>3, <1>4, <1>5, <1>6, <1>7, <1>8

\* What a worker reports is the event of a settled target of the file.
LEMMA ReportedEvent ==
  ASSUME Reporting, worker.kind = "outcome", Eventful, disk \in Book, Consistent(disk)
  PROVE  LET s == worker.slot IN
         /\ s \in Slots /\ book.tgt[s].approval \in Approvals
         /\ EventOf(s).approval = book.tgt[s].approval
         /\ EventOf(s).run = s[1] /\ EventOf(s).tgt = s[2]
         /\ EventOf(s).result = disk.tgt[s].phase /\ EventOf(s).result \in Settled
         /\ EventOf(s).result = disk.tgt[s].event.result
         /\ EventOf(s).id = EventNo(s, disk.tgt[s].event.boot) /\ EventOf(s).id \in Nat \ {0}
         /\ \E n \in 1..MaxBoots : EventOf(s).id = EventNo(s, n)
         /\ EventOf(s).approval = disk.tgt[s].approval
  <1> DEFINE s == worker.slot
  <1>1. /\ s \in Slots /\ book.tgt[s].event # NoEvent
        /\ disk.tgt[s].event = book.tgt[s].event /\ disk.tgt[s].approval = book.tgt[s].approval
    BY DEF Reporting
  <1> HIDE DEF s
  <1>2. /\ disk.tgt[s].event.boot \in 1..MaxBoots
        /\ disk.tgt[s].phase \in Settled /\ disk.tgt[s].event.result = disk.tgt[s].phase
    BY <1>1 DEF Eventful
  <1>3. disk.tgt[s].approval \in Approvals
    <2>1. disk.tgt[s] \in TargetRec  BY <1>1 DEF Book
    <2>2. disk.tgt[s].approval # NoApproval  BY <1>1 DEF Consistent
    <2> QED BY <2>1, <2>2 DEF TargetRec
  <1>4. EventNo(s, disk.tgt[s].event.boot) \in Nat \ {0}  BY <1>1, <1>2, EventNumbers
  <1> QED BY <1>1, <1>2, <1>3, <1>4 DEF EventOf, s

\* A report is recorded, or has been recorded before.
LEMMA ReportMoves ==
  ASSUME SP!Inv, Client, Reporting, Eventful, disk \in Book, Consistent(disk), CallOutcome
  PROVE  LET s == worker.slot
             q == book.tgt[s].approval IN
         /\ SP!Next \/ UNCHANGED serverVars
         /\ SP!Inv' /\ ServerGrows
         /\ \A p \in Approvals : p # q => outcome'[p] = outcome[p]
         /\ outcome'[q] = EventOf(s) /\ worker'.state = "none"
  <1> DEFINE s == worker.slot
             e == EventOf(s)
             q == e.approval
  <1>1. /\ s \in Slots /\ q = book.tgt[s].approval /\ q \in Approvals
        /\ e.run = s[1] /\ e.tgt = s[2] /\ e.result \in Settled
        /\ \E n \in 1..MaxBoots : e.id = EventNo(s, n)
    BY ReportedEvent DEF CallOutcome
  <1>2. worker \in Work /\ worker.by \in Tokens
    BY TeamAssumption DEF CallOutcome, Client, Work, NoWorker
  <1>3. CASE S!Report(worker.by, e) /\ Acted("none")
    <2>1. e \in SP!Events
      <3>1. approval[q].state = "consumed" /\ e.run = approval[q].binding.run
            /\ e.tgt = approval[q].binding.tgt
        BY <1>3 DEF S!Report
      <3>2. approval[q].binding \in Cited  BY <1>1, <3>1, ServerKnown
      <3>3. e = [id |-> e.id, approval |-> q, run |-> e.run, tgt |-> e.tgt, result |-> e.result]
        BY DEF EventOf
      <3>4. e.id \in {EventNo(v, n) : v \in Slots, n \in 1..MaxBoots}  BY <1>1
      <3> HIDE DEF e, q
      <3> QED BY <1>1, <3>1, <3>2, <3>3, <3>4 DEF SP!Events
    <2>2. SP!Report(worker.by, e)
      <3> HIDE DEF e
      <3>1. \A r \in Approvals : outcome[r] # SP!NoOutcome <=> outcome[r] # S!NoOutcome
        BY DEF SP!NoOutcome, S!NoOutcome
      <3>2. {r \in Approvals : outcome[r] # SP!NoOutcome} = {r \in Approvals : outcome[r] # S!NoOutcome}
        BY <3>1
      <3>3. SP!Cardinality({r \in Approvals : outcome[r] # SP!NoOutcome}) < MaxOutcomes
        BY <1>3, <3>2, CardinalitySame DEF S!Report
      <3>4. SP!Authorized(worker.by)  BY <1>3 DEF S!Report, S!Authorized, SP!Authorized
      <3>5. SP!Log("outcome", {q})  BY <1>3 DEF S!Report, S!Log, SP!Log
      <3>6. outcome[q] = SP!NoOutcome  BY <1>3 DEF S!Report, S!NoOutcome, SP!NoOutcome
      <3> QED BY <1>3, <3>3, <3>4, <3>5, <3>6 DEF S!Report, S!world, SP!Report, SP!world
    <2>3. SP!Next  BY <1>2, <2>1, <2>2 DEF SP!Next, SP!Serve
    <2>4. outcome' = [outcome EXCEPT ![q] = e]  BY <1>3 DEF S!Report
    <2>5. outcome \in [Approvals -> SP!Events \cup {SP!NoOutcome}]  BY DEF SP!Inv, SP!TypeOK
    <2>6. outcome'[q] = e /\ \A p \in Approvals : p # q => outcome'[p] = outcome[p]
      <3> HIDE DEF e
      <3> QED BY <1>1, <2>4, <2>5
    <2>7. worker'.state = "none"  BY <1>2, <1>3 DEF Acted, Answer, Work
    <2> QED BY <1>1, <2>3, <2>6, <2>7, ServerStep
  <1>4. CASE outcome[q] = e /\ Answer("done", "none") /\ UNCHANGED serverVars
    <2>1. outcome' = outcome  BY <1>4 DEF serverVars
    <2>2. worker'.state = "none"  BY <1>2, <1>4 DEF Answer, Work
    <2> QED BY <1>1, <1>4, <2>1, <2>2, ServerStep
  <1> QED BY <1>3, <1>4 DEF CallOutcome
-----------------------------------------------------------------------------
(* Steps the client's own state stays out of.                              *)

\* While the client stands still and the server goes on, the file stays approved.
LEMMA ClientRests ==
  ASSUME TeamInv, UNCHANGED vars, SP!Inv', ServerGrows
  PROVE  /\ RunInv' /\ Effect /\ SP!Inv' /\ Approved' /\ Attempts' /\ Eventful' /\ Opening'
         /\ outcome' = outcome => CentralMatchesJournal'
  <1>1. UNCHANGED <<book, disk, sent>>  BY DEF vars, journalVars, workVars
  <1>2. RunInv' /\ Effect  BY NextStep DEF TeamInv
  <1>3. Approved'
    <2> SUFFICES ASSUME NEW s \in Slots, disk.tgt[s].attempted
                 PROVE  LET q == disk.tgt[s].approval IN
                        /\ q \in Approvals /\ approval'[q].state = "consumed"
                        /\ approval'[q].binding.run = s[1] /\ approval'[q].binding.tgt = s[2]
      BY <1>1 DEF Approved
    <2>1. LET q == disk.tgt[s].approval IN
          /\ q \in Approvals /\ approval[q].state = "consumed"
          /\ approval[q].binding.run = s[1] /\ approval[q].binding.tgt = s[2]
      BY DEF TeamInv, Journals, Approved
    <2> QED BY <2>1, ServerKnown DEF TeamInv, ServerGrows
  <1>4. Attempts' /\ Eventful'  BY <1>1 DEF TeamInv, Journals, Attempts, Eventful
  <1>5. Opening'  BY <1>1 DEF TeamInv, Opening, Kinded, Latest, Unsent, Unfinished
  <1>6. outcome' = outcome => CentralMatchesJournal'
    <2>1. CentralMatchesJournal  BY DEF TeamInv, Journals
    <2>2. S!NoOutcome' = S!NoOutcome  BY DEF S!NoOutcome
    <2> QED BY <1>1, <2>1, <2>2 DEF CentralMatchesJournal
  <1> QED BY <1>2, <1>3, <1>4, <1>5, <1>6

\* Everybody else's steps keep the invariant.
LEMMA OutsideStep == ASSUME TeamInv, Outside PROVE TeamInv' /\ Effect /\ UNCHANGED vars
  <1>1. UNCHANGED <<vars, teamVars>>  BY DEF Outside
  <1>2. SP!Inv' /\ ServerGrows /\ outcome' = outcome  BY OutsideMoves DEF TeamInv
  <1>3. RunInv' /\ Effect /\ Journals' /\ Opening'
    BY <1>1, <1>2, ClientRests DEF Journals
  <1>4. UNCHANGED <<book, disk, receipt, gen, token, view, worker, restart>>
    BY <1>1 DEF vars, teamVars, journalVars, uiVars, envVars
  <1>5. Client'  BY <1>4 DEF TeamInv, Client
  <1>6. Asking'  BY <1>2, <1>4 DEF TeamInv, Asking, ServerGrows
  <1>7. Consuming'
    <2>1. Held(<<worker.binding.run, worker.binding.tgt>>)' <=> Held(<<worker.binding.run, worker.binding.tgt>>)
      BY <1>4 DEF Held, Production
    <2>2. worker.kind = "consume" /\ worker.res = "done" => worker.req \in Approvals /\ S!Exists(worker.req)
      BY DEF TeamInv, Asking
    <2> QED BY <1>2, <1>4, <2>1, <2>2 DEF TeamInv, Consuming, ServerGrows
  <1>8. Reporting'  BY <1>2, <1>4 DEF TeamInv, Reporting, EventOf
  <1> QED BY <1>1, <1>2, <1>3, <1>5, <1>6, <1>7, <1>8 DEF TeamInv

\* So does the worker's call, whatever becomes of it.
LEMMA WorkerCallStep == ASSUME TeamInv, WorkerCall PROVE TeamInv' /\ Effect /\ UNCHANGED vars
  <1>1. UNCHANGED <<vars, token, view>>  BY DEF WorkerCall
  <1>2. UNCHANGED <<book, disk, receipt, gen, token, view, restart>>
    BY <1>1 DEF vars, journalVars, uiVars, envVars
  <1>3. worker \in Work \cup {NoWorker} /\ worker.gen <= gen  BY DEF TeamInv, Client
  <1>4. worker \in Work /\ \E res \in {"done", "error"} : \E st : Answer(res, st)
    BY <1>3 DEF WorkerCall, CallFails, CallMode, CallRequest, CallCheck, CallConsume, CallOutcome,
                Acted, NoWorker
  <1>5. /\ worker'.kind = worker.kind /\ worker'.gen = worker.gen /\ worker'.by = worker.by
        /\ worker'.binding = worker.binding /\ worker'.req = worker.req
        /\ worker'.slot = worker.slot /\ worker'.res \in {"done", "error"}
        /\ worker' = [kind |-> worker.kind, gen |-> worker.gen, by |-> worker.by,
                      binding |-> worker.binding, req |-> worker.req, slot |-> worker.slot,
                      res |-> worker'.res, state |-> worker'.state]
    BY <1>4 DEF Answer, Work
  <1>6. Held(<<worker.binding.run, worker.binding.tgt>>)' <=> Held(<<worker.binding.run, worker.binding.tgt>>)
    BY <1>2, <1>5 DEF Held, Production
  <1>7. disk \in Book /\ Consistent(disk)  BY Known DEF TeamInv
  <1>8. SP!Inv /\ Client /\ Asking /\ Reporting /\ Eventful /\ CentralMatchesJournal /\ Consuming
    BY DEF TeamInv, Journals
  <1> DEFINE Rest == /\ SP!Inv' /\ ServerGrows /\ worker'.state \in Standing \cup {"none"}
                     /\ CentralMatchesJournal'
                     /\ Asking' /\ Consuming' /\ Reporting'
  <1>9. ASSUME CallFails \/ CallMode PROVE Rest
    <2>1. UNCHANGED serverVars  BY <1>9 DEF CallFails, CallMode
    <2>2. SP!Inv' /\ ServerGrows  BY <1>8, <2>1, ServerStep
    <2>3. outcome' = outcome  BY <2>1 DEF serverVars
    <2>4. worker'.state = "none" /\ (worker'.res = "done" => worker.kind = "mode")
      BY <1>4, <1>9 DEF CallFails, CallMode, Answer, Work
    <2> QED BY <1>1, <1>2, <1>5, <1>6, <1>8, <2>2, <2>3, <2>4, ClientRests
            DEF Asking, Consuming, Reporting
  <1>10. ASSUME CallRequest PROVE Rest
    <2>1. worker.kind = "request"  BY <1>10 DEF CallRequest
    <2>2. /\ SP!Inv' /\ ServerGrows /\ outcome' = outcome
          /\ S!Exists(worker.req)' /\ worker'.state \in Standing \cup {"none"}
          /\ worker'.res = "done" => worker'.state = "pending"
      BY <1>8, <1>10, RequestMoves
    <2> QED BY <1>1, <1>2, <1>5, <1>8, <2>1, <2>2, ClientRests
            DEF Asking, Consuming, Reporting, Standing
  <1>11. ASSUME CallCheck PROVE Rest
    <2>1. worker.kind = "check"  BY <1>11 DEF CallCheck
    <2>2. /\ SP!Inv' /\ ServerGrows /\ outcome' = outcome
          /\ worker'.res = "done" => S!Exists(worker.req)' /\ worker'.state \in Standing
          /\ worker'.state \in Standing \cup {"none"}
      BY <1>8, <1>11, CheckMoves
    <2> QED BY <1>1, <1>2, <1>5, <1>8, <2>1, <2>2, ClientRests
            DEF Asking, Consuming, Reporting
  <1>12. ASSUME CallConsume PROVE Rest
    <2>1. worker.kind = "consume"  BY <1>12 DEF CallConsume
    <2>2. /\ SP!Inv' /\ ServerGrows /\ outcome' = outcome
          /\ worker'.state \in Standing \cup {"none"}
          /\ worker'.res = "done" =>
               /\ worker'.state = "consumed" /\ S!Exists(worker.req)'
               /\ approval'[worker.req].state = "consumed"
               /\ approval'[worker.req].binding = worker.binding
      BY <1>8, <1>12, ConsumeMoves
    <2> QED BY <1>1, <1>2, <1>5, <1>6, <1>8, <2>1, <2>2, ClientRests
            DEF Asking, Consuming, Reporting, Standing
  <1>13. ASSUME CallOutcome PROVE Rest
    <2> DEFINE s == worker.slot
               q == book.tgt[s].approval
    <2>1. worker.kind = "outcome"  BY <1>13 DEF CallOutcome
    <2>2. /\ SP!Inv' /\ ServerGrows
          /\ \A p \in Approvals : p # q => outcome'[p] = outcome[p]
          /\ outcome'[q] = EventOf(s) /\ worker'.state = "none"
      BY <1>7, <1>8, <1>13, ReportMoves
    <2>3. /\ s \in Slots /\ q \in Approvals /\ q = disk.tgt[s].approval
          /\ EventOf(s).run = s[1] /\ EventOf(s).tgt = s[2]
          /\ EventOf(s).result = disk.tgt[s].phase
          /\ EventOf(s).result = disk.tgt[s].event.result
          /\ EventOf(s).id = EventNo(s, disk.tgt[s].event.boot) /\ EventOf(s).id # 0
      BY <1>7, <1>8, <2>1, ReportedEvent
    <2>4. EventOf(s)' = EventOf(s)  BY <1>2, <1>5 DEF EventOf
    <2>5. Asking' /\ Consuming'  BY <1>5, <2>1 DEF Asking, Consuming
    <2>6. Reporting'
      BY <1>2, <1>5, <1>8, <2>1, <2>2, <2>4 DEF Reporting
    <2>7. s = <<s[1], s[2]>>  BY <2>3 DEF Slots
    <2>8. CentralMatchesJournal'
      <3> HIDE DEF s, q
      <3>1. ASSUME NEW p \in Approvals, outcome'[p] # S!NoOutcome
            PROVE  LET v == <<outcome'[p].run, outcome'[p].tgt>> IN
                   /\ disk.tgt[v].approval = p /\ disk.tgt[v].phase = outcome'[p].result
                   /\ disk.tgt[v].event.result = outcome'[p].result
                   /\ outcome'[p].id = EventNo(v, disk.tgt[v].event.boot)
        <4>1. CASE p = q  BY <2>2, <2>3, <2>7, <4>1
        <4>2. CASE p # q  BY <1>8, <2>2, <3>1, <4>2 DEF CentralMatchesJournal
        <4> QED BY <4>1, <4>2
      <3>2. ASSUME NEW v \in Slots, disk.tgt[v].delivered
            PROVE  outcome'[disk.tgt[v].approval].id = EventNo(v, disk.tgt[v].event.boot)
        <4>1. /\ disk.tgt[v].approval \in Approvals
              /\ outcome[disk.tgt[v].approval].id = EventNo(v, disk.tgt[v].event.boot)
          <5>1. disk.tgt[v].event # NoEvent  BY <1>8, <3>2 DEF Eventful
          <5>2. disk.tgt[v].approval # NoApproval  BY <1>7, <5>1 DEF Consistent
          <5>3. disk.tgt[v] \in TargetRec  BY <1>7 DEF Book
          <5> QED BY <1>8, <3>2, <5>2, <5>3 DEF CentralMatchesJournal, TargetRec
        <4>2. outcome[disk.tgt[v].approval] # S!NoOutcome
          <5>1. disk.tgt[v].event # NoEvent  BY <1>8, <3>2 DEF Eventful
          <5>2. disk.tgt[v].event.boot \in 1..MaxBoots  BY <1>8, <5>1 DEF Eventful
          <5>3. EventNo(v, disk.tgt[v].event.boot) # 0  BY <5>2, EventNumbers
          <5> QED BY <4>1, <5>3 DEF S!NoOutcome
        <4> QED BY <2>2, <4>1, <4>2 DEF ServerGrows
      <3>3. S!NoOutcome' = S!NoOutcome  BY DEF S!NoOutcome
      <3> QED BY <1>2, <3>1, <3>2, <3>3 DEF CentralMatchesJournal
    <2> QED BY <2>2, <2>5, <2>6, <2>8
  <1>14. Rest
    BY <1>9, <1>10, <1>11, <1>12, <1>13 DEF WorkerCall
  <1>15. worker' \in Work
    <2>1. worker'.state \in Standing \cup {"none"}  BY <1>14
    <2> QED BY <1>4, <1>5, <2>1 DEF Work
  <1>16. Client'  BY <1>2, <1>3, <1>5, <1>8, <1>15 DEF Client
  <1>17. RunInv' /\ Effect /\ Approved' /\ Attempts' /\ Eventful' /\ Opening'
    BY <1>1, <1>14, ClientRests
  <1> QED BY <1>1, <1>14, <1>16, <1>17 DEF TeamInv, Journals
-----------------------------------------------------------------------------
(* What the engine's handlers leave alone: who approved what, what was     *)
(* reported, and which runs are under team control.                        *)

\* From b to d only run r moves on, and its claims stay.
Alike(b, d, r) ==
  /\ \A s \in Slots : SameClaims(d.tgt[s], b.tgt[s]) /\ (s[1] # r => d.tgt[s] = b.tgt[s])
  /\ \A q \in Runs : /\ d.run[q].kind = b.run[q].kind /\ d.run[q].team = b.run[q].team
                     /\ Unfinished(d, q) => Unfinished(b, q)

\* Claims, kinds and authority of what b has are what d has.
Keeps(b, d) ==
  /\ \A s \in Slots : SameClaims(d.tgt[s], b.tgt[s])
  /\ \A q \in Runs : b.run[q].kind # "none" =>
                       d.run[q].kind = b.run[q].kind /\ d.run[q].team = b.run[q].team

\* A journal is like itself, and keeps its claims.
LEMMA AlikeSelf ==
  ASSUME NEW b, NEW r
  PROVE  Alike(b, b, r) /\ Keeps(b, b)
  BY DEF Alike, Keeps, SameClaims

\* What is like a journal keeps its claims, and being like it carries on.
LEMMA AlikeChains ==
  ASSUME NEW a, NEW b, NEW d, NEW r, Alike(a, b, r)
  PROVE  Keeps(a, b) /\ (Alike(b, d, r) => Alike(a, d, r))
  <1>1. Keeps(a, b)  BY DEF Alike, Keeps
  <1>2. ASSUME Alike(b, d, r) PROVE Alike(a, d, r)
    BY <1>2 DEF Alike, SameClaims
  <1> QED BY <1>1, <1>2

\* Claims that are kept twice are kept.
LEMMA KeepsChains ==
  ASSUME NEW a, NEW b, NEW d, Keeps(a, b), Keeps(b, d)
  PROVE  Keeps(a, d)
  BY DEF Keeps, SameClaims

\* A target that moves on with its claims, and its run with it.
LEMMA MovedAlike ==
  ASSUME NEW b \in Book, NEW r \in Runs, NEW c \in TargetRec, SameClaims(c, Cur(b, r))
  PROVE  /\ Alike(b, Put(b, r, c), r) /\ Alike(b, Moved(b, r, c), r)
         /\ Put(b, r, c) \in Book /\ Moved(b, r, c) \in Book
  <1> DEFINE d == Put(b, r, c)
             e == Advance(d, r)
             s0 == <<r, b.run[r].cur>>
  <1>1. /\ d \in Book /\ d.run = b.run /\ d.tgt = [b.tgt EXCEPT ![s0] = c]
        /\ \A s \in Slots : s # s0 => d.tgt[s] = b.tgt[s]
    BY PutIsLocal
  <1>2. b.tgt \in [Slots -> TargetRec] /\ s0 \in Slots /\ Cur(b, r) = b.tgt[s0] /\ s0[1] = r
    BY CurrentSlot
  <1> HIDE DEF d, s0
  <1>3. \A s \in Slots : SameClaims(d.tgt[s], b.tgt[s]) /\ (s[1] # r => d.tgt[s] = b.tgt[s])
    <2> SUFFICES ASSUME NEW s \in Slots
                 PROVE  SameClaims(d.tgt[s], b.tgt[s]) /\ (s[1] # r => d.tgt[s] = b.tgt[s])
      OBVIOUS
    <2>1. CASE s = s0
      <3>1. d.tgt[s] = c  BY <1>1, <1>2, <2>1
      <3> QED BY <1>2, <2>1, <3>1
    <2>2. CASE s # s0  BY <1>1, <2>2 DEF SameClaims
    <2> QED BY <2>1, <2>2
  <1>4. Alike(b, d, r)  BY <1>1, <1>3 DEF Alike, Unfinished
  <1>5. /\ e \in Book /\ e.tgt = d.tgt
        /\ \A q \in Runs : /\ q # r => e.run[q] = d.run[q]
                           /\ e.run[q].kind = d.run[q].kind /\ e.run[q].team = d.run[q].team
        /\ e.run[r].fin = d.run[r].fin \/ e.run[r].fin = TRUE
    BY <1>1, AdvanceSteps
  <1>6. Alike(d, e, r)
    <2> HIDE DEF e
    <2>1. \A q \in Runs : Unfinished(e, q) => Unfinished(d, q)  BY <1>5 DEF Unfinished
    <2> QED BY <1>5, <2>1 DEF Alike, SameClaims
  <1>7. Moved(b, r, c) = e  BY DEF Moved, d, e
  <1> HIDE DEF e
  <1>8. Alike(b, e, r)  BY <1>4, <1>6, AlikeChains
  <1> QED BY <1>1, <1>4, <1>5, <1>7, <1>8 DEF d

\* A phase is set, or the current target given up, and its claims stay.
LEMMA PhaseAlike ==
  ASSUME NEW b \in Book, NEW r \in Runs, NEW ph \in Phases
  PROVE  /\ Alike(b, SetPhase(b, r, ph), r) /\ SetPhase(b, r, ph) \in Book
         /\ Alike(b, FailCurrent(b, r), r) /\ FailCurrent(b, r) \in Book
  <1>1. /\ SetPhase(b, r, ph) = Put(b, r, [Cur(b, r) EXCEPT !.phase = ph])
        /\ [Cur(b, r) EXCEPT !.phase = ph] \in TargetRec
        /\ SameClaims([Cur(b, r) EXCEPT !.phase = ph], Cur(b, r))
    BY SetPhaseIsPut
  <1>2. "Unknown" \in Phases  BY DEF Phases, Settled
  <1>3. /\ [Cur(b, r) EXCEPT !.phase = "Unknown"] \in TargetRec
        /\ SameClaims([Cur(b, r) EXCEPT !.phase = "Unknown"], Cur(b, r))
    BY <1>2, SetPhaseIsPut
  <1>4. FailCurrent(b, r) = Moved(b, r, [Cur(b, r) EXCEPT !.phase = "Unknown"])  BY FailMoves
  <1> QED BY <1>1, <1>3, <1>4, MovedAlike

\* What a change that is sent without a receipt is: none of a team's.
Ungoverned(b, r) ==
  \A s \in Slots : sent'[<<s[1], s[2], "Apply">>] # sent[<<s[1], s[2], "Apply">>] =>
    s[1] = r /\ ~b.run[r].team /\ Alike(b, disk', r)

\* Without a receipt in hand the driver signs nothing and sends nothing for a team.
LEMMA DriveQuiet ==
  ASSUME NEW m \in Hands, m.receipt = NoReceipt, NEW r \in Runs, NEW d, Drive(m, d, r)
  PROVE  /\ Alike(m.book, book', r) /\ receipt' = NoReceipt
         /\ disk' = d \/ (~error /\ Alike(m.book, disk', r))
         /\ Ungoverned(m.book, r)
  <1> DEFINE b == m.book
  <1>1. b \in Book  BY DEF Hands
  <1>2. Alike(b, b, r)  BY AlikeSelf
  <1>3. /\ Alike(b, FailCurrent(b, r), r)
        /\ Alike(b, SetPhase(b, r, "Review"), r)
    BY <1>1, PhaseAlike DEF Phases
  <1>4. ASSUME NEW k \in Hands, k.book = b, k.receipt = NoReceipt, NEW e, Fail(k, e, r)
        PROVE  /\ Alike(b, book', r) /\ receipt' = NoReceipt
               /\ disk' = e \/ (~error /\ Alike(b, disk', r))
    <2> DEFINE f == FailCurrent(k.book, r)
               n == [k EXCEPT !.book = f]
    <2>1. Become(n) /\ Save(f, e)  BY <1>4 DEF Fail
    <2> HIDE DEF f
    <2>2. n.book = f /\ n.receipt = NoReceipt  BY <1>4 DEF Hands
    <2> HIDE DEF n
    <2>3. book' = f /\ receipt' = NoReceipt  BY <2>1, <2>2 DEF Become
    <2>4. disk' = e \/ (~error /\ disk' = f)  BY <2>1 DEF Save, SaveOk, SaveFails
    <2>5. Alike(b, f, r)  BY <1>3, <1>4 DEF f
    <2> QED BY <2>3, <2>4, <2>5
  <1>5. sent' = sent => Ungoverned(b, r)  BY DEF Ungoverned
  <1>6. CASE DriveStops(m, r) /\ Become(m) /\ disk' = d /\ UNCHANGED <<error, sent>>
    BY <1>2, <1>5, <1>6 DEF Become
  <1>7. CASE Fail(m, d, r) /\ UNCHANGED sent
    BY <1>4, <1>5, <1>7
  <1>8. CASE /\ UNCHANGED sent
             /\ LET x == SetPhase(b, r, "Review") IN
                  Become([m EXCEPT !.book = x, !.receipt = NoReceipt]) /\ Save(x, d)
    <2> DEFINE x == SetPhase(b, r, "Review")
               n == [m EXCEPT !.book = x, !.receipt = NoReceipt]
    <2>1. Become(n) /\ Save(x, d)  BY <1>8
    <2>2. Alike(b, x, r)  BY <1>3
    <2> HIDE DEF x
    <2>3. n.book = x /\ n.receipt = NoReceipt  BY DEF Hands
    <2> HIDE DEF n
    <2>4. book' = x /\ receipt' = NoReceipt  BY <2>1, <2>3 DEF Become
    <2>5. disk' = d \/ (~error /\ disk' = x)  BY <2>1 DEF Save, SaveOk, SaveFails
    <2> QED BY <1>5, <1>8, <2>2, <2>4, <2>5
  <1>9. CASE Probe(m, d) /\ UNCHANGED sent
    <2>1. book' = b /\ receipt' = NoReceipt  BY <1>9 DEF Probe, Become, Hands
    <2>2. disk' = d \/ (~error /\ disk' = b)  BY <1>9 DEF Probe, SaveOk, SaveFails
    <2> QED BY <1>2, <1>5, <1>9, <2>1, <2>2
  <1>10. CASE (NeedsReceipt(b, r) => ReceiptMatches(m, r)) /\ Dispatch(m, d, r)
    <2>1. ~NeedsReceipt(b, r)  BY <1>10 DEF ReceiptMatches
    <2>2. AfterUse(m, r) = NoReceipt  BY <2>1 DEF AfterUse
    <2> DEFINE t == b.run[r].cur
               c == Cur(b, r)
    <2>3. CASE /\ SaveFails(d) /\ UNCHANGED sent
               /\ Become([m EXCEPT !.book = b, !.receipt = NoReceipt])
      BY <1>2, <1>5, <2>3 DEF Become, Hands, SaveFails
    <2>4. CASE /\ SaveOk(b)
               /\ Become([m EXCEPT !.book = b, !.receipt = AfterUse(m, r),
                                   !.reviewed = @ /\ c.phase # "Apply",
                                   !.job = [run |-> r, tgt |-> t, op |-> c.phase, res |-> "none"]])
               /\ sent' = IF c.phase \in Mutation /\ sent[<<r, t, c.phase>>] < 2
                          THEN [sent EXCEPT ![<<r, t, c.phase>>] = @ + 1] ELSE sent
      <3>1. book' = b /\ receipt' = NoReceipt /\ disk' = b /\ ~error
        BY <2>2, <2>4 DEF Become, Hands, SaveOk
      <3>2. Ungoverned(b, r)
        <4> SUFFICES ASSUME NEW s \in Slots,
                            sent'[<<s[1], s[2], "Apply">>] # sent[<<s[1], s[2], "Apply">>]
                     PROVE  s[1] = r /\ ~b.run[r].team /\ Alike(b, disk', r)
          BY DEF Ungoverned
        <4>1. sent' = [sent EXCEPT ![<<r, t, c.phase>>] = sent[<<r, t, c.phase>>] + 1]  BY <2>4
        <4> HIDE DEF t, c
        <4>2. <<s[1], s[2], "Apply">> = <<r, t, c.phase>>  BY <4>1
        <4>3. s[1] = r /\ c.phase = "Apply"  BY <4>2
        <4>4. ~b.run[r].team  BY <2>1, <4>3 DEF NeedsReceipt, c
        <4> QED BY <1>2, <3>1, <4>3, <4>4
      <3> QED BY <1>2, <3>1, <3>2
    <2>5. CASE /\ ghosts >= JobLimit /\ ~error
               /\ Fail([m EXCEPT !.book = b, !.receipt = AfterUse(m, r)], b, r)
               /\ UNCHANGED sent
      <3> DEFINE n == [m EXCEPT !.book = b, !.receipt = AfterUse(m, r)]
      <3>1. n \in Hands /\ n.book = b /\ n.receipt = NoReceipt
        BY <1>1, <2>2 DEF Hands, Receipts
      <3> HIDE DEF n
      <3>2. Fail(n, b, r)  BY <2>5 DEF n
      <3>3. /\ Alike(b, book', r) /\ receipt' = NoReceipt
            /\ disk' = b \/ (~error /\ Alike(b, disk', r))
        BY <1>4, <3>1, <3>2
      <3> QED BY <1>2, <1>5, <2>5, <3>3
    <2> QED BY <1>10, <2>1, <2>3, <2>4, <2>5 DEF Dispatch
  <1> QED BY <1>6, <1>7, <1>8, <1>9, <1>10 DEF Drive

\* The same after the save that most handlers begin with.
LEMMA SaveThenDriveQuiet ==
  ASSUME NEW m \in Hands, m.receipt = NoReceipt, NEW r \in Runs, SaveThenDrive(m, r)
  PROVE  /\ Alike(m.book, book', r) /\ receipt' = NoReceipt
         /\ disk' = disk \/ (~error /\ Alike(m.book, disk', r))
         /\ Ungoverned(m.book, r)
  <1>1. CASE ~error /\ Drive(m, m.book, r)
    BY <1>1, DriveQuiet, AlikeSelf
  <1>2. CASE SaveFails(disk) /\ Become(m) /\ UNCHANGED sent
    BY <1>2, AlikeSelf DEF SaveFails, Become, Ungoverned
  <1> QED BY <1>1, <1>2 DEF SaveThenDrive

\* Until a save fails, file and memory agree on claims, kinds and authority.
LEMMA MemoryAgrees ==
  ASSUME RunInv, ~error
  PROVE  /\ Keeps(disk, book) /\ Keeps(book, disk)
         /\ \A q \in Runs : book.run[q].kind = disk.run[q].kind /\ book.run[q].team = disk.run[q].team
         /\ \A s \in Slots : /\ SameClaims(book.tgt[s], disk.tgt[s])
                             /\ disk.tgt[s].phase \in Settled => book.tgt[s].phase = disk.tgt[s].phase
  <1> USE Known
  <1>1. CASE book = disk  BY <1>1 DEF Keeps, SameClaims
  <1>2. CASE book = Interrupt(disk)
    <2>1. \A q \in Runs : book.run[q].kind = disk.run[q].kind /\ book.run[q].team = disk.run[q].team
      BY <1>2, InterruptRuns
    <2>2. Onward(disk, book)  BY <1>2, InterruptGood
    <2>3. ASSUME NEW s \in Slots PROVE SameClaims(book.tgt[s], disk.tgt[s])
      <3>1. book.tgt[s] = IF Unfinished(disk, s[1])
                              /\ disk.tgt[s].phase \notin {"Passed", "Restored", "Failed"}
                          THEN [disk.tgt[s] EXCEPT !.phase = "Unknown"] ELSE disk.tgt[s]
        <4>1. Interrupt(disk).tgt = [v \in Slots |->
                IF Unfinished(disk, v[1]) /\ disk.tgt[v].phase \notin {"Passed", "Restored", "Failed"}
                THEN [disk.tgt[v] EXCEPT !.phase = "Unknown"] ELSE disk.tgt[v]]
          BY InterruptRuns
        <4> QED BY <1>2, <4>1
      <3>2. disk.tgt[s] \in TargetRec  BY DEF Book
      <3> QED BY <3>1, <3>2 DEF SameClaims, TargetRec
    <2> QED BY <2>1, <2>2, <2>3 DEF Keeps, SameClaims, Onward
  <1> QED BY <1>1, <1>2

\* What a step leaves to prove of the journal when the server is not in it.
Writes(b) ==
  /\ disk' = disk \/ (~error /\ Keeps(b, disk'))
  /\ \A s \in Slots :
       sent'[<<s[1], s[2], "Apply">>] > 0 /\ disk'.run[s[1]].team =>
         sent[<<s[1], s[2], "Apply">>] > 0 /\ disk.run[s[1]].team

\* An outcome is about a target.
LEMMA OutcomeSlot ==
  ASSUME SP!Inv, NEW q \in Approvals, outcome[q] # S!NoOutcome
  PROVE  <<outcome[q].run, outcome[q].tgt>> \in Slots /\ outcome[q].result \in Settled
  <1>1. approval[q].binding \in Cited /\ outcome[q].run = approval[q].binding.run
        /\ outcome[q].tgt = approval[q].binding.tgt /\ outcome[q].result \in Settled
    BY ServerKnown
  <1> QED BY <1>1 DEF Cited, Slots

\* A step without the server that writes nothing but what keeps the claims of the
\* memory leaves the file approved, and what the server knows of it true.
LEMMA JournalsKept ==
  ASSUME RunInv, SP!Inv, Effect, Journals, UNCHANGED serverVars, Writes(book)
  PROVE  Journals' /\ Keeps(disk, disk')
  <1>1. Keeps(disk, disk')
    <2>1. CASE disk' = disk  BY <2>1, AlikeSelf
    <2>2. CASE ~error /\ Keeps(book, disk')  BY <2>2, MemoryAgrees, KeepsChains
    <2> QED BY <2>1, <2>2 DEF Writes
  <1>2. \A s \in Slots : SameClaims(disk'.tgt[s], disk.tgt[s])  BY <1>1 DEF Keeps
  <1>3. \A s \in Slots : disk.tgt[s].phase \in Settled => disk'.tgt[s].phase = disk.tgt[s].phase
    BY DEF Effect, Onward
  <1>4. approval' = approval /\ outcome' = outcome /\ S!NoOutcome' = S!NoOutcome
    BY DEF serverVars, S!NoOutcome
  <1>5. Approved'  BY <1>2, <1>4 DEF Journals, Approved, SameClaims
  <1>6. Attempts'  BY <1>2 DEF Journals, Attempts, Writes, SameClaims
  <1>7. Eventful'  BY <1>2, <1>3 DEF Journals, Eventful, SameClaims
  <1>8. CentralMatchesJournal'
    <2>1. ASSUME NEW q \in Approvals, outcome[q] # S!NoOutcome
          PROVE  LET s == <<outcome[q].run, outcome[q].tgt>> IN
                 /\ disk'.tgt[s].approval = q /\ disk'.tgt[s].phase = outcome[q].result
                 /\ disk'.tgt[s].event.result = outcome[q].result
                 /\ outcome[q].id = EventNo(s, disk'.tgt[s].event.boot)
      <3> DEFINE s == <<outcome[q].run, outcome[q].tgt>>
      <3>1. /\ disk.tgt[s].approval = q /\ disk.tgt[s].phase = outcome[q].result
            /\ disk.tgt[s].event.result = outcome[q].result
            /\ outcome[q].id = EventNo(s, disk.tgt[s].event.boot)
        BY <2>1 DEF Journals, CentralMatchesJournal
      <3>2. s \in Slots /\ outcome[q].result \in Settled  BY <2>1, OutcomeSlot
      <3> HIDE DEF s
      <3>3. /\ SameClaims(disk'.tgt[s], disk.tgt[s]) /\ disk'.tgt[s].phase = disk.tgt[s].phase
        BY <1>2, <1>3, <3>1, <3>2
      <3>4. /\ disk'.tgt[s].approval = q /\ disk'.tgt[s].phase = outcome[q].result
            /\ disk'.tgt[s].event.result = outcome[q].result
            /\ outcome[q].id = EventNo(s, disk'.tgt[s].event.boot)
        BY <3>1, <3>3 DEF SameClaims
      <3> QED BY <3>4 DEF s
    <2>2. ASSUME NEW s \in Slots, disk'.tgt[s].delivered
          PROVE  outcome[disk'.tgt[s].approval].id = EventNo(s, disk'.tgt[s].event.boot)
      BY <1>2, <2>2 DEF Journals, CentralMatchesJournal, SameClaims
    <2> QED BY <1>4, <2>1, <2>2 DEF CentralMatchesJournal
  <1> QED BY <1>1, <1>5, <1>6, <1>7, <1>8 DEF Journals

\* What the file has on approvals and authority, it keeps.
SameUses ==
  /\ \A s \in Slots : /\ disk'.tgt[s].approval = disk.tgt[s].approval
                      /\ disk'.tgt[s].attempted = disk.tgt[s].attempted
  /\ \A q \in Runs : disk.run[q].kind # "none" => disk'.run[q].team = disk.run[q].team

\* A run that goes on went on before, or is new.
Opens == \A q \in Runs : Unfinished(book', q) => Unfinished(book, q) \/ disk.run[q].kind = "none"

\* What is sent stays sent.
LEMMA SentStays ==
  ASSUME RunInv, Effect, NEW s \in Slots, sent'[<<s[1], s[2], "Apply">>] = 0
  PROVE  sent[<<s[1], s[2], "Apply">>] = 0
  <1>1. sent \in [Runs \X Targets \X Mutation -> 0..2]  BY DEF RunInv, Outer
  <1>2. <<s[1], s[2], "Apply">> \in Runs \X Targets \X Mutation  BY DEF Slots, Mutation
  <1>3. CASE sent' = sent  BY <1>3
  <1>4. ASSUME NEW v, sent' = [sent EXCEPT ![v] = 1]
        PROVE  sent[<<s[1], s[2], "Apply">>] = 0
    <2>1. v # <<s[1], s[2], "Apply">>  BY <1>1, <1>2, <1>4
    <2> QED BY <1>1, <1>2, <1>4, <2>1
  <1> QED BY <1>3, <1>4 DEF Effect, Sends, Sent

\* While uses stay the same, a target that was not sent keeps its run from going on.
LEMMA UnsentKept ==
  ASSUME TeamInv, Effect, SameUses, Opens
  PROVE  Unsent'
  <1> SUFFICES ASSUME NEW s \in Slots, disk'.tgt[s].attempted,
                      sent'[<<s[1], s[2], "Apply">>] = 0
               PROVE  ~Unfinished(book', s[1])
    BY DEF Unsent, Unfinished
  <1>1. RunInv /\ Unsent  BY DEF TeamInv, Opening
  <1>2. disk.tgt[s].attempted  BY DEF SameUses
  <1>3. ~Unfinished(book, s[1])  BY <1>1, <1>2, SentStays DEF Unsent
  <1>4. disk.run[s[1]].kind # "none" /\ s[1] \in Runs
    <2>1. Consistent(disk)  BY <1>1, Known
    <2> QED BY <1>2, <2>1 DEF Consistent, Production, Slots
  <1> QED BY <1>3, <1>4 DEF Opens

\* What a step of the engine leaves to prove of the composition.
Calm ==
  /\ receipt' = NoReceipt /\ UNCHANGED <<gen, teamVars, serverVars>>
  /\ Keeps(book, book') /\ Writes(book)
  /\ Kinded(book') /\ Kinded(disk') /\ Latest(book') /\ Opens
  /\ \A s \in Slots : Held(s) => Held(s)'

\* A step of the engine that is calm keeps the invariant, and what the file has.
LEMMA CalmStep ==
  ASSUME TeamInv, RunInv', Effect, Calm
  PROVE  TeamInv' /\ SameUses
  <1>1. UNCHANGED <<gen, token, view, worker, serverVars, approval, outcome>>
    BY DEF Calm, teamVars, serverVars
  <1>2. Journals' /\ Keeps(disk, disk')  BY JournalsKept DEF TeamInv, Calm
  <1>3. SP!Inv'
    <2>1. SP!Inv' /\ ServerGrows  BY <1>1, ServerStep DEF TeamInv
    <2> QED BY <2>1
  <1>4. Client'  BY <1>1 DEF TeamInv, Calm, Client
  <1>5. Asking'  BY <1>1 DEF TeamInv, Asking, S!Exists
  <1>6. Consuming'
    <2> DEFINE s == <<worker.binding.run, worker.binding.tgt>>
    <2>1. worker.kind = "consume" => s \in Slots
      <3>1. worker.kind = "consume" => worker.binding \in Cited  BY DEF TeamInv, Asking
      <3> QED BY <3>1 DEF Cited, Slots
    <2>2. worker.kind = "consume" => Held(s)  BY DEF TeamInv, Consuming
    <2>3. s' = s  BY <1>1
    <2> HIDE DEF s
    <2>4. worker.kind = "consume" => Held(s)'  BY <2>1, <2>2, <2>3 DEF Calm, Held, Production
    <2> QED BY <1>1, <2>4 DEF TeamInv, Consuming, s, Held
  <1>7. Reporting'
    <2>1. ASSUME NEW s \in Slots
          PROVE  /\ book'.tgt[s].event = book.tgt[s].event /\ disk'.tgt[s].event = disk.tgt[s].event
                 /\ book'.tgt[s].approval = book.tgt[s].approval
                 /\ disk'.tgt[s].approval = disk.tgt[s].approval
      BY <1>2 DEF Calm, Keeps, SameClaims
    <2>2. worker.kind = "outcome" => worker.slot \in Slots  BY DEF TeamInv, Reporting
    <2> QED BY <1>1, <2>1, <2>2 DEF TeamInv, Reporting, EventOf
  <1>8. SameUses  BY <1>2 DEF Keeps, SameClaims, SameUses
  <1>9. Opening'
    <2>1. Unsent'  BY <1>8, UnsentKept DEF Calm
    <2> QED BY <2>1 DEF Calm, Opening
  <1> QED BY <1>2, <1>3, <1>4, <1>5, <1>6, <1>7, <1>8, <1>9 DEF TeamInv

\* Changes that are sent, and none of them under team control.
LocalOnly ==
  \A s \in Slots : sent'[<<s[1], s[2], "Apply">>] # sent[<<s[1], s[2], "Apply">>] =>
    ~book.run[s[1]].team

\* Nothing that concerns the team.
Aside == LocalOnly /\ SameUses

\* The open run's next steps, from the memory m that a handler has in hand.
LEMMA CalmHandler ==
  ASSUME TeamInv, RunInv', Effect, NEW r \in Runs, NEW m \in Hands, m.receipt = NoReceipt,
         Alike(book, m.book, r),
         SaveThenDrive(m, r), UNCHANGED <<gen, teamVars, serverVars>>,
         \A s \in Slots : Held(s) => s[1] # r
  PROVE  TeamInv' /\ Aside
  <1>1. /\ Alike(m.book, book', r) /\ receipt' = NoReceipt
        /\ disk' = disk \/ (~error /\ Alike(m.book, disk', r))
        /\ Ungoverned(m.book, r)
    BY SaveThenDriveQuiet
  <1>2. Alike(book, book', r) /\ Keeps(book, book')  BY <1>1, AlikeChains
  <1>3. disk' = disk \/ (~error /\ Alike(book, disk', r) /\ Keeps(book, disk'))
    BY <1>1, AlikeChains
  <1>4. LocalOnly  BY <1>1 DEF LocalOnly, Ungoverned, Alike
  <1>5. ASSUME NEW s \in Slots,
               sent'[<<s[1], s[2], "Apply">>] > 0 /\ disk'.run[s[1]].team
        PROVE  sent[<<s[1], s[2], "Apply">>] > 0 /\ disk.run[s[1]].team
    <2>1. s[1] \in Runs  BY DEF Slots
    <2>2. CASE sent'[<<s[1], s[2], "Apply">>] # sent[<<s[1], s[2], "Apply">>]
      BY <1>1, <1>5, <2>1, <2>2 DEF Ungoverned, Alike
    <2>3. CASE sent'[<<s[1], s[2], "Apply">>] = sent[<<s[1], s[2], "Apply">>]
      <3>1. disk'.run[s[1]].team = disk.run[s[1]].team
        BY <1>3, <2>1, MemoryAgrees DEF TeamInv, Alike
      <3> QED BY <1>5, <2>3, <3>1
    <2> QED BY <2>2, <2>3
  <1>6. Writes(book)  BY <1>3, <1>5 DEF Writes
  <1>7. Kinded(book') /\ Kinded(disk') /\ Latest(book') /\ Opens
    BY <1>2, <1>3 DEF TeamInv, Opening, Kinded, Latest, Opens, Alike
  <1>8. \A s \in Slots : Held(s) => Held(s)'
    <2>1. restart' = restart  BY DEF Effect
    <2>2. \A s \in Slots : s[1] \in Runs  BY DEF Slots
    <2> QED BY <1>2, <2>1, <2>2 DEF Held, Alike, Production
  <1>9. Calm  BY <1>1, <1>2, <1>6, <1>7, <1>8 DEF Calm
  <1> QED BY <1>4, <1>9, CalmStep DEF Aside

\* A target that waits is not in the open run unless it is the current one, in review.
LEMMA HeldElsewhere ==
  ASSUME RunInv, NEW r \in Runs, Unfinished(book, r), NEW s \in Slots, Held(s), s[1] = r
  PROVE  Cur(book, r).phase = "Review" /\ s = <<r, book.run[r].cur>>
  <1> USE Known
  <1>1. s[2] \in Targets /\ s = <<r, s[2]>>  BY DEF Slots
  <1>2. Path(book, r) /\ Pending(book, r)  BY DEF Order
  <1>3. book.run[r].cur \in Targets  BY CurrentSlot
  <1>4. s[2] = book.run[r].cur
    <2>1. ~(s[2] < book.run[r].cur)  BY <1>1, <1>2 DEF Path, Held
    <2>2. ~(s[2] > book.run[r].cur)  BY <1>1, <1>2 DEF Path, Held
    <2> QED BY <1>1, <1>3, <2>1, <2>2 DEF Targets
  <1>5. Cur(book, r).phase # "Unknown"  BY <1>2 DEF Pending, Settled
  <1> QED BY <1>1, <1>4, <1>5 DEF Cur, Held
-----------------------------------------------------------------------------
(* The engine's steps under team control, one lemma each.                  *)

\* What all of them start from.
LEMMA Start ==
  ASSUME TeamInv
  PROVE  /\ RunInv /\ receipt = NoReceipt /\ Now.receipt = NoReceipt
         /\ Now \in Hands /\ Now.book = book /\ book \in Book /\ disk \in Book
         /\ Kinded(book) /\ Kinded(disk) /\ Latest(book)
  <1>1. RunInv /\ receipt = NoReceipt /\ Kinded(book) /\ Kinded(disk) /\ Latest(book)
    BY DEF TeamInv, Client, Opening
  <1> QED BY <1>1, Known DEF Now

\* The answer of a job under team control sends no change of its own.
LEMMA TeamPollJob ==
  ASSUME TeamInv, PollJob, UNCHANGED <<teamVars, serverVars>>
  PROVE  TeamInv' /\ Effect /\ Aside
  <1> USE Known, Start
  <1> DEFINE r == selected
             d == AfterJob(book, r, job.res)
             m == [Now EXCEPT !.job = NoJob, !.book = d]
  <1>1. SaveThenDrive(m, r) /\ UNCHANGED <<selected, ghosts, gen, envVars>> /\ job # NoJob
    BY DEF PollJob, NoJob
  <1>2. r \in Runs /\ Unfinished(book, r) /\ Cur(book, r).phase \in Ops /\ job.res \in Results
    BY <1>1 DEF Jobs, Results
  <1>3. Alike(book, d, r) /\ d \in Book
    <2>1. \E c \in TargetRec : AfterJob(book, r, job.res) = Moved(book, r, c) /\ SameClaims(c, Cur(book, r))
      <3>1. \E c \in TargetRec :
              /\ AfterJob(book, r, job.res) = Moved(book, r, c) /\ SameClaims(c, Cur(book, r))
              /\ Tally(restart, Cur(book, r), 1, 0) => Tally(restart, c, 1, 0)
              /\ c.phase \in {"Baseline", "Restored", "Verify", "Unknown"}
        BY <1>2, AfterJobMoves
      <3> QED BY <3>1
    <2> QED BY <1>2, <2>1, MovedAlike
  <1> HIDE DEF d
  <1>4. m \in Hands /\ m.receipt = NoReceipt /\ m.book = d  BY <1>3 DEF Hands, Jobs
  <1> HIDE DEF m
  <1>5. \A s \in Slots : Held(s) => s[1] # r  BY <1>2, HeldElsewhere DEF Ops
  <1>6. RunInv' /\ Effect  BY PollJobStep
  <1> QED BY <1>1, <1>2, <1>3, <1>4, <1>5, <1>6, CalmHandler

\* Nor does the answer of a health check.
LEMMA TeamPollHealth ==
  ASSUME TeamInv, PollHealth, UNCHANGED <<teamVars, serverVars>>
  PROVE  TeamInv' /\ Effect /\ Aside
  <1> USE Known, Start
  <1> DEFINE r == selected
             ok == health = "pass"
             d == AfterHealth(book, r, ok)
             m == [Now EXCEPT !.health = "idle", !.reviewed = FALSE, !.book = d]
  <1>1. SaveThenDrive(m, r) /\ UNCHANGED <<selected, ghosts, gen, envVars>> /\ health # "idle"
    BY DEF PollHealth
  <1>2. r \in Runs /\ Unfinished(book, r) /\ Cur(book, r).phase \in {"Baseline", "Verify"}
    BY <1>1
  <1>3. Alike(book, d, r) /\ d \in Book
    <2>1. \E c \in TargetRec : d = Moved(book, r, c) /\ SameClaims(c, Cur(book, r))
      <3>1. ok \in BOOLEAN  OBVIOUS
      <3> HIDE DEF ok
      <3>2. \E c \in TargetRec :
              /\ d = Moved(book, r, c) /\ SameClaims(c, Cur(book, r))
              /\ c.phase \in {"Review", "Passed", "Failed", "Restore"}
              /\ Tally(restart, Cur(book, r), 1, 0) =>
                   Tally(restart, c, 1, 0) /\ (c.phase = "Restore" => 0 = 0)
        BY <1>2, <3>1, AfterHealthMoves
      <3> QED BY <3>2
    <2> QED BY <1>2, <2>1, MovedAlike
  <1> HIDE DEF d
  <1>4. m \in Hands /\ m.receipt = NoReceipt /\ m.book = d  BY <1>3 DEF Hands
  <1> HIDE DEF m
  <1>5. \A s \in Slots : Held(s) => s[1] # r  BY <1>2, HeldElsewhere
  <1>6. RunInv' /\ Effect  BY PollHealthStep
  <1> QED BY <1>1, <1>2, <1>3, <1>4, <1>5, <1>6, CalmHandler

\* Nor does the frame that goes on without an answer.
LEMMA TeamPollDrive ==
  ASSUME TeamInv, PollDrive, UNCHANGED <<teamVars, serverVars>>
  PROVE  TeamInv' /\ Effect /\ Aside
  <1> USE Known, Start
  <1> DEFINE r == selected
  <1>1. /\ Drive(Now, disk, r) /\ r \in Runs /\ Unfinished(book, r) /\ ~error
        /\ UNCHANGED <<selected, ghosts, gen, envVars>> /\ ~DriveStops(Now, r)
    BY DEF PollDrive
  <1>2. book = disk  BY <1>1, OpenIsSaved
  <1>3. SaveThenDrive(Now, r)  BY <1>1, <1>2 DEF SaveThenDrive
  <1>4. Cur(book, r).phase # "Review"  BY <1>1 DEF DriveStops
  <1>5. \A s \in Slots : Held(s) => s[1] # r  BY <1>1, <1>4, HeldElsewhere
  <1>6. RunInv' /\ Effect  BY PollDriveStep
  <1>7. Alike(book, Now.book, r)  BY AlikeSelf
  <1> QED BY <1>1, <1>3, <1>5, <1>6, <1>7, CalmHandler

\* Local consent is not for a change that needs a team's.
LEMMA TeamApprove ==
  ASSUME TeamInv, Approve, UNCHANGED <<teamVars, serverVars>>
  PROVE  TeamInv' /\ Effect /\ Aside
  <1> USE Known, Start
  <1> DEFINE r == selected
             ph == IF Change(book, r) THEN "Apply" ELSE "Verify"
             d == SetPhase(book, r, ph)
             m == [Now EXCEPT !.book = d, !.reviewed = FALSE]
  <1>1. /\ SaveThenDrive(m, r) /\ UNCHANGED <<selected, ghosts, gen, envVars>>
        /\ r \in Runs /\ Unfinished(book, r) /\ ~TeamChange(book, r)
    BY DEF Approve
  <1>2. ph \in Phases  BY DEF Phases
  <1> HIDE DEF ph
  <1>3. Alike(book, d, r) /\ d \in Book  BY <1>1, <1>2, PhaseAlike
  <1> HIDE DEF d
  <1>4. m \in Hands /\ m.receipt = NoReceipt /\ m.book = d  BY <1>3 DEF Hands
  <1> HIDE DEF m
  <1>5. ASSUME NEW s \in Slots, Held(s) PROVE s[1] # r
    <2> SUFFICES ASSUME s[1] = r PROVE FALSE
      OBVIOUS
    <2>1. s = <<r, book.run[r].cur>>  BY <1>1, <1>5, HeldElsewhere
    <2>2. Production(book, r) /\ Change(book, r) /\ book.run[r].team
      BY <1>5, <2>1 DEF Held, Change, Cur
    <2> QED BY <1>1, <2>2 DEF TeamChange
  <1>6. RunInv' /\ Effect  BY ApproveStep
  <1> QED BY <1>1, <1>3, <1>4, <1>5, <1>6, CalmHandler

\* A run that is given up keeps its claims; what waits in it waits for nothing.
LEMMA TeamCancel ==
  ASSUME TeamInv, Cancel, UNCHANGED <<teamVars, serverVars>>
  PROVE  TeamInv' /\ Effect /\ Aside
  <1> USE Known, Start
  <1> DEFINE r == selected
             f == FailCurrent(book, r)
             m == [Now EXCEPT !.job = NoJob, !.health = "idle", !.book = f]
  <1>1. /\ Fail([Now EXCEPT !.job = NoJob, !.health = "idle"], disk, r)
        /\ r \in Runs /\ Unfinished(book, r) /\ sent' = sent
        /\ UNCHANGED <<selected, gen, envVars>>
    BY DEF Cancel
  <1>2. book' = f /\ receipt' = NoReceipt /\ Save(f, disk)
    <2>1. [Now EXCEPT !.job = NoJob, !.health = "idle"].book = book  BY DEF Hands
    <2> QED BY <1>1, <2>1 DEF Fail, Become, Now
  <1>3. Alike(book, f, r) /\ f \in Book
    <2>1. "Unknown" \in Phases  BY DEF Phases, Settled
    <2> QED BY <1>1, <2>1, PhaseAlike
  <1>4. \A s \in Slots : Held(s) => Held(s)'
    <2> SUFFICES ASSUME NEW s \in Slots, Held(s) PROVE Held(s)'
      OBVIOUS
    <2>1. s[1] \in Runs /\ restart' = restart  BY <1>1 DEF Slots, envVars
    <2>2. book'.run[s[1]].team = book.run[s[1]].team /\ book'.run[s[1]].kind = book.run[s[1]].kind
      BY <1>2, <1>3, <2>1 DEF Alike
    <2>3. CASE s[1] # r
      BY <1>2, <1>3, <2>1, <2>2, <2>3 DEF Held, Production, Alike
    <2>4. CASE s[1] = r
      <3> DEFINE c == [Cur(book, r) EXCEPT !.phase = "Unknown"]
      <3>1. s = <<r, book.run[r].cur>> /\ Cur(book, r) = book.tgt[s] /\ book.tgt[s] \in TargetRec
        BY <1>1, <2>4, HeldElsewhere, CurrentSlot
      <3>2. f = Advance(Put(book, r, c), r) /\ c \in TargetRec
        BY <1>1, FailMoves, SetPhaseIsPut DEF Moved, Phases, Settled
      <3>3. c.phase = "Unknown" /\ c.before = book.tgt[s].before  BY <3>1 DEF TargetRec
      <3> HIDE DEF c, f
      <3>4. Put(book, r, c) \in Book /\ Put(book, r, c).tgt = [book.tgt EXCEPT ![s] = c]
        BY <1>1, <3>1, <3>2, PutIsLocal
      <3>5. f.tgt = [book.tgt EXCEPT ![s] = c]  BY <1>1, <3>2, <3>4, AdvanceSteps
      <3>6. f.tgt[s] = c
        <4>1. book.tgt \in [Slots -> TargetRec]  BY DEF Book
        <4> QED BY <3>5, <4>1
      <3> QED BY <1>2, <2>1, <2>2, <3>3, <3>6 DEF Held, Production
    <2> QED BY <2>3, <2>4
  <1> HIDE DEF f
  <1>5. Keeps(book, book') /\ (disk' = disk \/ (~error /\ disk' = book'))
    BY <1>2, <1>3, AlikeChains DEF Save, SaveOk, SaveFails
  <1>6. Kinded(book') /\ Kinded(disk') /\ Latest(book') /\ Opens
    BY <1>2, <1>3, <1>5 DEF Kinded, Latest, Opens, Alike
  <1>7. ASSUME NEW s \in Slots, disk'.run[s[1]].team PROVE disk.run[s[1]].team
    <2>1. s[1] \in Runs  BY DEF Slots
    <2> QED BY <1>2, <1>3, <1>5, <1>7, <2>1, MemoryAgrees DEF Alike
  <1>8. Writes(book)  BY <1>1, <1>5, <1>7 DEF Writes
  <1>9. Calm  BY <1>1, <1>2, <1>4, <1>5, <1>6, <1>8 DEF Calm
  <1>10. RunInv' /\ Effect  BY CancelStep
  <1>11. LocalOnly  BY <1>1 DEF LocalOnly
  <1> QED BY <1>9, <1>10, <1>11, CalmStep DEF Aside

\* Steps that move neither journal nor queue.
LEMMA TeamQuiet ==
  ASSUME TeamInv, RunInv', Effect, UNCHANGED <<book, disk, sent, receipt, gen, teamVars, serverVars>>
  PROVE  TeamInv' /\ Effect /\ Aside
  <1> USE Start
  <1>1. Keeps(book, book') /\ Writes(book)
    BY AlikeSelf DEF Writes
  <1>2. restart' = restart  BY DEF Effect
  <1>3. \A s \in Slots : Held(s) => Held(s)'  BY <1>2 DEF Held, Production
  <1>4. Calm  BY <1>1, <1>3 DEF Calm, Opens
  <1>5. LocalOnly  BY DEF LocalOnly
  <1> QED BY <1>4, <1>5, CalmStep DEF Aside

\* The threads, the operator's ticks and the world.
LEMMA TeamThreads ==
  ASSUME TeamInv, Threads \/ Age \/ (\E r \in Runs : Void(r)) \/ EditProfile \/ ChangeHandoff
                    \/ ToggleReviewed \/ (\E r \in Runs : SelectRecovery(r)),
         UNCHANGED <<teamVars, serverVars>>
  PROVE  TeamInv' /\ Effect /\ Aside
  <1>1. RunInv' /\ Effect
    BY Start, JobEndsStep, GhostEndsStep, HealthEndsStep, WorldStep, ToggleReviewedStep,
       SelectRecoveryStep DEF Threads
  <1>2. UNCHANGED <<book, disk, sent, receipt, gen>>
    BY DEF Threads, JobEnds, GhostEnds, HealthEnds, Age, Void, EditProfile, ChangeHandoff,
           ToggleReviewed, SelectRecovery, journalVars, uiVars, workVars
  <1> QED BY <1>1, <1>2, TeamQuiet

\* A target that is being captured is not changed yet.
LEMMA CaptureSendsNothing ==
  ASSUME NEW m, NEW r \in Runs, SaveThenDrive(m, r), Cur(m.book, r).phase = "Capture"
  PROVE  sent' = sent
  <1>1. "Capture" \notin Mutation  BY DEF Mutation
  <1>2. ASSUME NEW d, Drive(m, d, r) PROVE sent' = sent
    BY <1>1, <1>2 DEF Drive, Dispatch
  <1> QED BY <1>2 DEF SaveThenDrive

\* A run that is opened is the newest.
LEMMA TeamOpen ==
  ASSUME TeamInv, NEW r \in Runs, NEW kind, Open(r, kind), UNCHANGED <<teamVars, serverVars>>
  PROVE  TeamInv' /\ Effect /\ Aside
  <1> USE Known, Start
  <1> DEFINE e == [kind |-> kind, team |-> book.team, cur |-> 1, fin |-> FALSE]
             d == Opened(r, kind)
             m == [Now EXCEPT !.book = d, !.reviewed = FALSE]
  <1>1. /\ SaveThenDrive(m, r) /\ selected' = r /\ UNCHANGED <<ghosts, gen, envVars>>
        /\ kind \in Kinds /\ ~error /\ ~SelectedOpen /\ book.run[r].kind = "none"
        /\ \A q \in Runs : q < r => book.run[q].kind # "none"
    BY DEF Open
  <1>2. /\ kind \in {"rehearsal", "production", "lab"} /\ e \in RunRecs
        /\ e.kind = kind /\ e.kind # "none" /\ e.fin = FALSE
    <2>1. kind \in {"rehearsal", "production", "lab"}  BY <1>1, RunAssumption
    <2>2. 1 \in Targets /\ book.team \in BOOLEAN  BY RunAssumption DEF Targets, Book
    <2> QED BY <2>1, <2>2 DEF RunRecs
  <1>3. /\ d.team = book.team /\ d.tgt = book.tgt /\ d.run = [book.run EXCEPT ![r] = e]
        /\ d \in Book
    <2>1. d = [book EXCEPT !.run[r] = e]  BY DEF Opened
    <2> HIDE DEF d, e
    <2>2. /\ d.team = book.team /\ d.tgt = book.tgt /\ d.run = [book.run EXCEPT ![r] = e]
          /\ d = [team |-> d.team, run |-> d.run, tgt |-> d.tgt]
      BY <2>1 DEF Book
    <2>3. d.run \in [Runs -> RunRecs]  BY <1>2, <2>2 DEF Book, RunRecs
    <2> QED BY <2>2, <2>3 DEF Book, RunRecs
  <1> HIDE DEF e
  <1>4. d.run[r] = e /\ \A q \in Runs : q # r => d.run[q] = book.run[q]
    <2> HIDE DEF d
    <2> QED BY <1>3 DEF Book
  <1> HIDE DEF d
  <1>5. m \in Hands /\ m.receipt = NoReceipt /\ m.book = d  BY <1>3 DEF Hands
  <1> HIDE DEF m
  <1>6. /\ Alike(d, book', r) /\ receipt' = NoReceipt
        /\ disk' = disk \/ (~error /\ Alike(d, disk', r))
        /\ Ungoverned(d, r)
    BY <1>1, <1>5, SaveThenDriveQuiet
  <1>7. RunInv' /\ Effect  BY <1>1, OpenStep
  <1>8. Keeps(book, d)  BY <1>1, <1>3, <1>4 DEF Keeps, SameClaims
  <1>9. Keeps(book, book') /\ (disk' = disk \/ (~error /\ Keeps(book, disk')))
    <2>1. Keeps(d, book') /\ (disk' = disk \/ (~error /\ Keeps(d, disk')))
      BY <1>6, AlikeChains
    <2> QED BY <1>8, <2>1, KeepsChains
  <1>10. Kinded(book') /\ Kinded(disk')
    <2>1. Kinded(d)  BY <1>1, <1>2, <1>4 DEF Kinded
    <2> QED BY <1>6, <2>1 DEF Kinded, Alike
  <1>11. Latest(book') /\ Opens
    <2>1. PICK n \in 0..MaxRuns : \A q \in Runs : book.run[q].kind # "none" <=> q <= n
      BY DEF Order, Filled
    <2>2. \A q \in Runs : book.run[q].kind # "none" => q <= r
      BY <1>1, <2>1 DEF Runs
    <2>3. \A q \in Runs : d.run[q].kind # "none" => q <= r
      BY <1>4, <2>2 DEF Runs
    <2>4. \A q \in Runs : Unfinished(d, q) => q = r
      BY <1>1, <1>4 DEF Unfinished, SelectedOpen, NoRun, Runs
    <2>5. disk.run[r].kind = "none"  BY <1>1, MemoryAgrees
    <2> QED BY <1>6, <2>3, <2>4, <2>5 DEF Latest, Opens, Alike
  <1>12. \A s \in Slots : Held(s) => Held(s)'
    <2> SUFFICES ASSUME NEW s \in Slots, Held(s) PROVE Held(s)'
      OBVIOUS
    <2>1. s[1] \in Runs /\ restart' = restart  BY <1>7 DEF Slots, Effect
    <2>2. s[1] # r  BY <1>1 DEF Held, Production
    <2>3. book'.tgt[s] = book.tgt[s]  BY <1>3, <1>6, <2>2 DEF Alike
    <2>4. book'.run[s[1]].team = book.run[s[1]].team /\ book'.run[s[1]].kind = book.run[s[1]].kind
      BY <1>4, <1>6, <2>1, <2>2 DEF Alike
    <2> QED BY <2>1, <2>3, <2>4 DEF Held, Production
  <1>13. sent' = sent
    <2>1. Cur(d, r).phase = "Capture"
      <3>1. \A t \in Targets : book.tgt[<<r, t>>].phase = "Capture"
        BY <1>1 DEF Order, Path
      <3>2. d.run[r].cur \in Targets  BY <1>3, CurrentSlot
      <3> QED BY <1>3, <3>1, <3>2 DEF Cur
    <2> QED BY <1>5, <2>1, <1>1, CaptureSendsNothing
  <1>14. ASSUME NEW s \in Slots, sent[<<s[1], s[2], "Apply">>] > 0, disk'.run[s[1]].team
         PROVE  disk.run[s[1]].team
    <2>1. s[1] \in Runs /\ s[2] \in Targets /\ s = <<s[1], s[2]>>  BY DEF Slots
    <2>2. disk.tgt[s].phase # "Capture"
      <3>1. Tally(restart, disk.tgt[s], sent[<<s[1], s[2], "Apply">>], sent[<<s[1], s[2], "Restore">>])
        BY <2>1 DEF Told
      <3> QED BY <1>14, <3>1 DEF Tally
    <2>3. disk.run[s[1]].kind # "none"
      <3>1. Path(disk, s[1])  BY <2>1 DEF Order
      <3> QED BY <2>1, <2>2, <3>1 DEF Path
    <2>4. s[1] # r
      <3>1. book.run[s[1]].kind = disk.run[s[1]].kind  BY <1>1, <2>1, MemoryAgrees
      <3> QED BY <1>1, <2>3, <3>1
    <2> QED BY <1>1, <1>4, <1>6, <1>14, <2>1, <2>4, MemoryAgrees DEF Alike
  <1>15. Writes(book)  BY <1>9, <1>13, <1>14 DEF Writes
  <1>16. Calm  BY <1>1, <1>6, <1>9, <1>10, <1>11, <1>12, <1>15 DEF Calm
  <1>17. LocalOnly  BY <1>13 DEF LocalOnly
  <1> QED BY <1>7, <1>16, <1>17, CalmStep DEF Aside

\* After a crash nothing is waited for, and the file is what it was.
LEMMA TeamRebootStep ==
  ASSUME TeamInv, TeamReboot
  PROVE  TeamInv' /\ Effect /\ Aside
  <1> USE Known, Start
  <1>1. /\ Reboot /\ token' = NoToken /\ view' = NoView /\ worker' = NoWorker
        /\ UNCHANGED serverVars
    BY DEF TeamReboot
  <1>2. RunInv' /\ Effect  BY <1>1, RebootStep
  <1>3. /\ disk' = disk /\ gen' = gen /\ sent' = sent /\ receipt' = NoReceipt
        /\ book' = Interrupt(disk) \/ book' = Empty
    BY <1>1 DEF Reboot
  <1>4. Writes(book)  BY <1>3 DEF Writes
  <1>5. Journals'  BY <1>1, <1>2, <1>4, JournalsKept DEF TeamInv
  <1>6. SP!Inv'
    <2>1. SP!Inv' /\ ServerGrows  BY <1>1, ServerStep DEF TeamInv
    <2> QED BY <2>1
  <1>7. /\ NoWorker.gen = 0 /\ NoWorker.kind = "none" /\ gen \in 1..MaxGen
    BY DEF NoWorker, TeamInv, Client
  <1>8. Client'  BY <1>1, <1>3, <1>7 DEF Client
  <1>9. Asking' /\ Consuming' /\ Reporting'
    BY <1>1, <1>7 DEF Asking, Consuming, Reporting
  <1>10. Kinded(book') /\ Latest(book') /\ \A r \in Runs : ~Unfinished(book', r)
    <2>1. CASE book' = Interrupt(disk)
      <3>1. \A r \in Runs : /\ book'.run[r].kind = disk.run[r].kind
                            /\ book'.run[r].team = disk.run[r].team /\ ~Unfinished(book', r)
        BY <2>1, InterruptRuns
      <3>2. Kinded(disk)  BY DEF TeamInv, Opening
      <3> QED BY <3>1, <3>2 DEF Kinded, Latest
    <2>2. CASE book' = Empty
      <3>1. FALSE \in BOOLEAN /\ Empty = [team |-> FALSE, run |-> [r \in Runs |-> NoRunYet],
                                        tgt |-> [s \in Slots |-> NewTarget]]
        BY DEF Empty
      <3>2. \A r \in Runs : Empty.run[r].kind = "none"  BY <3>1, EmptyGood
      <3>3. \A r \in Runs : ~Empty.run[r].team  BY <3>1 DEF NoRunYet
      <3> QED BY <2>2, <3>2, <3>3 DEF Kinded, Latest, Unfinished
    <2> QED BY <1>3, <2>1, <2>2
  <1>11. Opening'
    <2>1. Unsent'  BY <1>10 DEF Unsent, Unfinished, Slots
    <2> QED BY <1>3, <1>10, <2>1 DEF Opening
  <1>12. Aside  BY <1>3 DEF Aside, LocalOnly, SameUses
  <1> QED BY <1>2, <1>5, <1>6, <1>8, <1>9, <1>11, <1>12 DEF TeamInv

\* Everything the engine does on its own.
LEMMA AloneStep ==
  ASSUME TeamInv, Alone
  PROVE  TeamInv' /\ Effect /\ Aside
  <1>1. UNCHANGED <<teamVars, serverVars>>  BY DEF Alone
  <1>2. ASSUME NEW r \in Runs, StartRehearsal(r) \/ StartProduction(r) \/ PrepareLabProduction(r)
        PROVE  TeamInv' /\ Effect /\ Aside
    BY <1>1, <1>2, TeamOpen DEF StartRehearsal, StartProduction, PrepareLabProduction
  <1> QED BY <1>1, <1>2, TeamApprove, TeamCancel, TeamPollJob, TeamPollHealth, TeamPollDrive,
             TeamThreads DEF Alone, Operator, Frame
-----------------------------------------------------------------------------
(* What the operator asks for.                                             *)

\* Among some runs one is the newest.
LEMMA SomeRunIsNewest ==
  ASSUME NEW P \in SUBSET Runs, P # {}
  PROVE  \E p \in P : \A q \in P : q <= p
  <1> DEFINE T == {MaxRuns - p : p \in P}
             R == OpToRel(<, Nat)
  <1>1. T \subseteq Nat /\ T # {}
    <2>1. \A p \in P : MaxRuns - p \in Nat  BY RunAssumption DEF Runs
    <2>2. PICK p \in P : TRUE  OBVIOUS
    <2>3. MaxRuns - p \in T  OBVIOUS
    <2> QED BY <2>1, <2>3
  <1>2. IsWellFoundedOn(R, Nat)  BY NatLessThanWellFounded
  <1>3. \A x, y \in Nat : <<y, x>> \in R <=> y < x  BY DEF OpToRel
  <1> HIDE DEF R
  <1>4. \E x \in T : \A y \in T : ~(<<y, x>> \in R)
    <2> HIDE DEF T
    <2> QED BY <1>1, <1>2, WFMin
  <1>5. PICK p \in P : \A y \in T : ~(<<y, MaxRuns - p>> \in R)  BY <1>4
  <1>6. ASSUME NEW q \in P PROVE q <= p
    <2>1. ~(<<MaxRuns - q, MaxRuns - p>> \in R)  BY <1>5
    <2>2. MaxRuns - q \in Nat /\ MaxRuns - p \in Nat  BY <1>1
    <2>3. ~(MaxRuns - q < MaxRuns - p)  BY <1>3, <2>1, <2>2
    <2> QED BY <2>3, RunAssumption DEF Runs
  <1> QED BY <1>6

\* A binding cites proof that was there before, or the lab's own receipts.
LEMMA BindingIsCited ==
  ASSUME TeamInv, NEW r \in Runs, Bindable(book, r)
  PROVE  Binding(book, r) \in Cited /\ book.run[r].cur \in Targets
  <1> USE Known, Start
  <1>1. /\ Production(book, r) /\ Unfinished(book, r) /\ HasProof(book, r)
        /\ book.run[r].cur \in Targets /\ book.run[r].kind \in Kinds \cup {"none"}
    BY CurrentSlot DEF Bindable, Kinded
  <1>2. CASE book.run[r].kind = "lab"
    BY <1>1, <1>2 DEF Binding, ProofOf, Cited
  <1>3. CASE book.run[r].kind = "production"
    <2> DEFINE P == {p \in Runs : ProofFor(book, p)}
               n == CHOOSE p \in Runs : ProofFor(book, p) /\ \A q \in Runs : ProofFor(book, q) => q <= p
    <2>1. P # {}  BY <1>1, <1>3 DEF HasProof
    <2>2. \E p \in P : \A q \in P : q <= p  BY <2>1, SomeRunIsNewest
    <2>3. n \in Runs /\ ProofFor(book, n)  BY <2>2
    <2>4. ProofOf(book, r) = n  BY <1>3 DEF ProofOf
    <2> HIDE DEF n
    <2>5. n <= r /\ n # r
      BY <1>1, <1>3, <2>3 DEF ProofFor, Latest
    <2> QED BY <1>1, <1>3, <2>3, <2>4, <2>5 DEF Binding, Cited, Runs
  <1> QED BY <1>1, <1>2, <1>3 DEF Production

\* What a worker that starts carries.
Asked(kind, q, b)  == [Calling(kind) EXCEPT !.req = q, !.binding = b]
Sending(kind, s) == [Calling(kind) EXCEPT !.slot = s]

\* A worker that starts is for the identity of the moment, and waits.
LEMMA CallingIs ==
  ASSUME TeamInv, token # NoToken, NEW kind \in {"mode", "request", "check", "consume", "outcome"}
  PROVE  Calling(kind) \in Work /\ Calling(kind).kind = kind /\ Calling(kind).gen = gen
         /\ Calling(kind).res = "waiting"
  <1>1. token \in Mine /\ gen \in 1..MaxGen  BY DEF TeamInv, Client
  <1>2. Calling(kind) = [kind |-> kind, gen |-> gen, by |-> token, binding |-> NoReceipt.binding,
                         req |-> NoApproval, slot |-> <<0, 0>>, res |-> "waiting", state |-> "none"]
    <2> DEFINE w == NoWorker
    <2>1. w = [kind |-> "none", gen |-> 0, by |-> NoToken, binding |-> NoReceipt.binding,
               req |-> NoApproval, slot |-> <<0, 0>>, res |-> "none", state |-> "none"]
      BY DEF NoWorker
    <2>2. Calling(kind) = [w EXCEPT !.kind = kind, !.gen = gen, !.by = token, !.res = "waiting"]
      BY DEF Calling
    <2> HIDE DEF w
    <2> QED BY <2>1, <2>2
  <1> QED BY <1>1, <1>2 DEF Work

\* So is one that carries a request and its binding.
LEMMA AskedIs ==
  ASSUME TeamInv, token # NoToken, NEW kind \in {"mode", "request", "check", "consume", "outcome"},
         NEW q \in Approvals, NEW b \in Cited
  PROVE  LET w == Asked(kind, q, b) IN
         /\ w \in Work /\ w.kind = kind /\ w.gen = gen /\ w.res = "waiting"
         /\ w.req = q /\ w.binding = b
  <1> DEFINE c == Calling(kind)
             w == Asked(kind, q, b)
  <1>1. c \in Work /\ c.kind = kind /\ c.gen = gen /\ c.res = "waiting"  BY CallingIs
  <1>2. w = [c EXCEPT !.req = q, !.binding = b]  BY DEF Asked
  <1> HIDE DEF c, w
  <1>3. w = [kind |-> c.kind, gen |-> c.gen, by |-> c.by, binding |-> b, req |-> q,
             slot |-> c.slot, res |-> c.res, state |-> c.state]
    BY <1>1, <1>2 DEF Work
  <1>4. w \in Work
    <2> HIDE DEF c
    <2>1. /\ c.kind \in {"mode", "request", "check", "consume", "outcome"} /\ c.gen \in 1..MaxGen
          /\ c.by \in Mine /\ c.slot \in Slots \cup {<<0, 0>>}
          /\ c.res \in {"waiting", "done", "error"} /\ c.state \in Standing \cup {"none"}
      BY <1>1 DEF Work
    <2> QED BY <1>3, <2>1 DEF Work
  <1> QED BY <1>1, <1>3, <1>4 DEF w

\* So is one that reports the outcome of a target.
LEMMA SendingIs ==
  ASSUME TeamInv, token # NoToken, NEW s \in Slots
  PROVE  LET w == Sending("outcome", s) IN
         w \in Work /\ w.kind = "outcome" /\ w.gen = gen /\ w.res = "waiting" /\ w.slot = s
  BY CallingIs DEF Sending, Work

\* A target whose team approval is asked for waits in review.
LEMMA AwaitedIsHeld ==
  ASSUME TeamInv, AwaitsTeam
  PROVE  /\ selected \in Runs /\ Binding(book, selected) \in Cited
         /\ Held(<<Binding(book, selected).run, Binding(book, selected).tgt>>)
  <1> USE Known, Start
  <1>1. /\ selected \in Runs /\ Bindable(book, selected) /\ TeamChange(book, selected)
        /\ Cur(book, selected).phase = "Review"
    BY DEF AwaitsTeam
  <1>2. Binding(book, selected) \in Cited  BY <1>1, BindingIsCited
  <1>3. Held(<<selected, book.run[selected].cur>>)
    BY <1>1 DEF TeamChange, Change, Cur, Held
  <1> QED BY <1>1, <1>2, <1>3 DEF Binding

\* A button that only starts a worker, or a new identity, keeps what is known.
LEMMA AsksStep ==
  ASSUME TeamInv, UNCHANGED <<journalVars, selected, reviewed, receipt, workVars, envVars, serverVars>>,
         Client', gen' \in Nat, Asking', Consuming', worker'.kind # "outcome" \/ worker' = worker
  PROVE  TeamInv' /\ Effect /\ Aside
  <1>1. UNCHANGED <<book, disk, sent, approval, outcome>>
    BY DEF journalVars, workVars, serverVars
  <1>2. RunInv' /\ Effect
    <2>1. RunInv  BY Start
    <2>2. Outer'
      BY <2>1 DEF RunInv, Outer, journalVars, workVars, envVars
    <2>3. Now' = Now /\ selected' = selected /\ UNCHANGED <<restart, sent>>
      BY DEF Now, journalVars, workVars, envVars
    <2>4. ~error => InHand(Now, selected, sent)  BY <2>1 DEF RunInv, Synced, True
    <2> QED BY <2>1, <2>2, <2>3, <2>4, QuietStep DEF RunInv
  <1>3. SP!Inv'
    <2>1. SP!Inv' /\ ServerGrows  BY ServerStep DEF TeamInv
    <2> QED BY <2>1
  <1>4. Writes(book)  BY <1>1 DEF Writes
  <1>5. Journals'  BY <1>2, <1>4, JournalsKept, Start DEF TeamInv
  <1>6. Reporting'  BY <1>1 DEF TeamInv, Reporting, EventOf
  <1>7. Opening'  BY <1>1 DEF TeamInv, Opening, Kinded, Latest, Unsent, Unfinished
  <1>8. Aside  BY <1>1 DEF Aside, LocalOnly, SameUses
  <1> QED BY <1>2, <1>3, <1>5, <1>6, <1>7, <1>8 DEF TeamInv

\* The buttons that ask the server something, and the change of identity.
LEMMA AskingSteps ==
  ASSUME TeamInv, EnableTeam \/ RequestApproval \/ CheckDecision \/ ConsumeApproval \/ ChangeIdentity
  PROVE  TeamInv' /\ Effect /\ Aside
  <1> USE Start
  <1>1. Client /\ gen \in 1..MaxGen /\ gen \in Nat /\ Asking /\ Consuming
    BY DEF TeamInv, Client
  <1>2. UNCHANGED <<journalVars, selected, reviewed, receipt, workVars, envVars, serverVars>>
    BY DEF EnableTeam, RequestApproval, CheckDecision, ConsumeApproval, ChangeIdentity, vars, uiVars
  <1>3. restart' = restart /\ book' = book /\ receipt' = receipt /\ approval' = approval
    BY <1>2 DEF envVars, journalVars, serverVars
  <1>4. CASE EnableTeam
    <2>1. worker' = Calling("mode") /\ token # NoToken /\ UNCHANGED <<gen, token, view>>
      BY <1>4 DEF EnableTeam, Idle, vars, uiVars
    <2>2. worker' \in Work /\ worker'.kind = "mode" /\ worker'.gen = gen
      BY <2>1, CallingIs
    <2>3. Client'  BY <1>1, <1>3, <2>1, <2>2 DEF Client
    <2>4. Asking' /\ Consuming'  BY <2>2 DEF Asking, Consuming
    <2> QED BY <1>1, <1>2, <2>1, <2>2, <2>3, <2>4, AsksStep
  <1>5. CASE RequestApproval
    <2> DEFINE b == Binding(book, selected)
    <2>1. b \in Cited  BY <1>5, AwaitedIsHeld DEF RequestApproval
    <2> HIDE DEF b
    <2>2. /\ \E q \in Approvals : worker' = Asked("request", q, b)
          /\ token # NoToken /\ view' = NoView /\ UNCHANGED <<gen, token>>
      BY <1>5 DEF RequestApproval, Idle, vars, uiVars, b, Asked
    <2>3. /\ worker' \in Work /\ worker'.kind = "request" /\ worker'.gen = gen
          /\ worker'.req \in Approvals /\ worker'.binding \in Cited /\ worker'.res = "waiting"
      BY <2>1, <2>2, AskedIs
    <2>4. Client'  BY <1>1, <1>3, <2>2, <2>3 DEF Client
    <2>5. Asking' /\ Consuming'  BY <2>3 DEF Asking, Consuming
    <2> QED BY <1>1, <1>2, <2>2, <2>3, <2>4, <2>5, AsksStep
  <1>6. CASE CheckDecision
    <2> DEFINE b == Binding(book, selected)
    <2>1. b \in Cited  BY <1>6, AwaitedIsHeld DEF CheckDecision
    <2> HIDE DEF b
    <2>2. /\ worker' = Asked("check", view.req, b)
          /\ token # NoToken /\ view # NoView /\ UNCHANGED <<gen, token, view>>
      BY <1>6 DEF CheckDecision, Idle, vars, uiVars, b, Asked
    <2>3. view.req \in Approvals  BY <1>1, <2>2 DEF Client, Views
    <2>4. /\ worker' \in Work /\ worker'.kind = "check" /\ worker'.gen = gen
          /\ worker'.req \in Approvals /\ worker'.binding \in Cited /\ worker'.res = "waiting"
      BY <2>1, <2>2, <2>3, AskedIs
    <2>5. Client'  BY <1>1, <1>3, <2>2, <2>4 DEF Client
    <2>6. Asking' /\ Consuming'  BY <2>4 DEF Asking, Consuming
    <2> QED BY <1>1, <1>2, <2>2, <2>4, <2>5, <2>6, AsksStep
  <1>7. CASE ConsumeApproval
    <2> DEFINE b == Binding(book, selected)
    <2>1. b \in Cited /\ Held(<<b.run, b.tgt>>)  BY <1>7, AwaitedIsHeld DEF ConsumeApproval
    <2> HIDE DEF b
    <2>2. /\ worker' = Asked("consume", view.req, b)
          /\ token # NoToken /\ view.state = "approved" /\ UNCHANGED <<gen, token, view>>
      BY <1>7 DEF ConsumeApproval, Idle, vars, uiVars, b, Asked
    <2>3. view.req \in Approvals  BY <1>1, <2>2 DEF Client, Views, NoView
    <2>4. /\ worker' \in Work /\ worker'.kind = "consume" /\ worker'.gen = gen
          /\ worker'.req \in Approvals /\ worker'.binding = b /\ worker'.res = "waiting"
      BY <2>1, <2>2, <2>3, AskedIs
    <2>5. Client'  BY <1>1, <1>3, <2>2, <2>4 DEF Client
    <2>6. Asking'  BY <2>1, <2>4 DEF Asking
    <2>7. Consuming'  BY <1>3, <2>1, <2>4 DEF Consuming, Held, Production
    <2> QED BY <1>1, <1>2, <2>2, <2>4, <2>5, <2>6, <2>7, AsksStep
  <1>8. CASE ChangeIdentity
    <2>1. /\ gen < MaxGen /\ gen' = gen + 1 /\ UNCHANGED <<view, worker>>
          /\ token' \in Mine \cup {NoToken}
      BY <1>8 DEF ChangeIdentity
    <2>2. gen' \in 1..MaxGen /\ worker.gen <= gen'
      <3>1. worker.gen \in Nat  BY <1>1 DEF Client, Work, NoWorker
      <3> QED BY <1>1, <2>1, <3>1, TeamAssumption DEF Client
    <2>3. Client'  BY <1>1, <1>3, <2>1, <2>2 DEF Client
    <2>4. Asking' /\ Consuming'  BY <1>1, <1>3, <2>1 DEF Asking, Consuming, S!Exists, Held, Production
    <2> QED BY <1>2, <2>1, <2>2, <2>3, <2>4, AsksStep
  <1> QED BY <1>4, <1>5, <1>6, <1>7, <1>8
-----------------------------------------------------------------------------
(* Notes in the journal: who controls it, what is to be reported, what was. *)

\* The journal b is the one in memory, but for claims and authority.
Annotates(b) ==
  /\ b \in Book /\ b.run = book.run /\ Consistent(b)
  /\ \A s \in Slots : b.tgt[s].phase = book.tgt[s].phase /\ b.tgt[s].before = book.tgt[s].before

\* A note on the journal that is saved, or cannot be, keeps the engine's invariant.
LEMMA AnnotationsFit ==
  ASSUME RunInv, NEW b, Annotates(b), UNCHANGED <<uiVars, workVars, envVars>>,
         book' = b, Save(b, disk)
  PROVE  RunInv' /\ Effect
  <1> USE Known
  <1> DEFINE m == [Now EXCEPT !.book = b]
  <1>1. /\ b \in Book /\ b.run = book.run /\ Consistent(b)
        /\ \A s \in Slots : b.tgt[s].phase = book.tgt[s].phase /\ b.tgt[s].before = book.tgt[s].before
    BY DEF Annotates
  <1>2. /\ m \in Hands /\ m.book = b /\ m.job = job /\ m.health = health
        /\ m = [book |-> b, reviewed |-> reviewed, receipt |-> receipt, job |-> job, health |-> health]
    BY <1>1 DEF Hands, Now
  <1>3. UNCHANGED <<selected, reviewed, receipt, gen, job, ghosts, health, sent, restart, aged, void,
                    profileOk, handoffOk, boots>>
    BY DEF uiVars, workVars, envVars
  <1>4. Now' = m  BY <1>2, <1>3 DEF Now
  <1> HIDE DEF m
  <1>5. \A r \in Runs : /\ Unfinished(b, r) <=> Unfinished(book, r)
                        /\ Cur(b, r).phase = Cur(book, r).phase
    <2>1. \A r \in Runs : <<r, book.run[r].cur>> \in Slots  BY CurrentSlot
    <2> QED BY <1>1, <2>1 DEF Unfinished, Cur
  <1>6. Order(b)
    <2>1. Filled(b)  BY <1>1 DEF Order, Filled
    <2>2. ASSUME NEW r \in Runs PROVE Path(b, r) /\ Pending(b, r)
      <3>1. Path(book, r) /\ Pending(book, r)  BY DEF Order
      <3>2. \A t \in Targets : b.tgt[<<r, t>>].phase = book.tgt[<<r, t>>].phase
        BY <1>1 DEF Slots
      <3>3. Pending(b, r)  BY <1>5, <3>1 DEF Pending
      <3>4. Path(b, r)  BY <1>1, <1>5, <3>1, <3>2 DEF Path
      <3> QED BY <3>3, <3>4
    <2> QED BY <2>1, <2>2 DEF Order
  <1>7. Fit(m, selected)  BY <1>1, <1>2, <1>5, <1>6 DEF Fit, SelectedOpen
  <1>8. ~error => True(restart, m, selected, sent)
    <2> SUFFICES ASSUME ~error PROVE True(restart, m, selected, sent)
      OBVIOUS
    <2>1. Told(restart, b, sent)
      <3> SUFFICES ASSUME NEW r \in Runs, NEW t \in Targets
                   PROVE  Tally(restart, b.tgt[<<r, t>>], sent[<<r, t, "Apply">>], sent[<<r, t, "Restore">>])
        BY DEF Told
      <3>1. <<r, t>> \in Slots  BY DEF Slots
      <3>2. Tally(restart, book.tgt[<<r, t>>], sent[<<r, t, "Apply">>], sent[<<r, t, "Restore">>])
        BY DEF Told
      <3> QED BY <1>1, <3>1, <3>2 DEF Tally
    <2>2. InHand(Now, selected, sent)  BY DEF RunInv, Synced, True
    <2>3. InHand(m, selected, sent)  BY <1>1, <1>2, <1>5, <2>2 DEF InHand
    <2> QED BY <1>2, <2>1, <2>3 DEF True
  <1>9. (disk' = b /\ ~error /\ ~error') \/ (disk' = disk /\ error')
    BY DEF Save, SaveOk, SaveFails
  <1>10. Filed'
    <2>1. Filing(restart, disk, sent)  BY DEF RunInv, Filed
    <2>2. ~error => Filing(restart, b, sent)  BY <1>1, <1>2, <1>6, <1>8 DEF Filing, True
    <2> QED BY <1>3, <1>9, <2>1, <2>2 DEF Filed
  <1>11. Outer'
    <2>1. error' \in BOOLEAN  BY DEF Save, SaveOk, SaveFails
    <2> QED BY <1>3, <2>1 DEF RunInv, Outer
  <1>12. RunInv'
    <2>1. Fit(Now', selected')  BY <1>3, <1>4, <1>7
    <2>2. ~error' => True(restart', Now', selected', sent') /\ book' = disk'
      BY <1>3, <1>4, <1>8, <1>9
    <2>3. Synced'  BY <2>2 DEF Synced
    <2> QED BY <1>10, <1>11, <2>1, <2>3 DEF RunInv
  <1>13. Onward(disk, disk')
    <2>1. CASE disk' = disk  BY <2>1 DEF Onward
    <2>2. CASE disk' = b /\ ~error  BY <1>1, <2>2, MemoryAgrees DEF Onward
    <2> QED BY <1>9, <2>1, <2>2
  <1> QED BY <1>3, <1>9, <1>12, <1>13 DEF Effect

\* To save the memory as it is, is a note.
LEMMA NoNote ==
  ASSUME RunInv
  PROVE  Annotates(book)
  BY Known DEF Annotates

\* An outcome is sent once the journal that holds it is saved.
LEMMA SendOutcomeStep ==
  ASSUME TeamInv, NEW s \in Slots, SendOutcome(s)
  PROVE  TeamInv' /\ Effect /\ Aside
  <1> USE Known, Start
  <1>1. /\ book.tgt[s].event # NoEvent /\ worker = NoWorker /\ ~error /\ book' = book
        /\ UNCHANGED <<uiVars, workVars, envVars, token, view, serverVars>>
        /\ \/ SaveOk(book) /\ worker' = IF token = NoToken THEN NoWorker ELSE Sending("outcome", s)
           \/ SaveFails(disk) /\ worker' = worker
    BY DEF SendOutcome, Sending
  <1>2. UNCHANGED <<receipt, gen, sent, restart, outcome>>
    BY <1>1 DEF uiVars, workVars, envVars, serverVars
  <1>3. RunInv' /\ Effect  BY <1>1, NoNote, AnnotationsFit DEF Save
  <1>4. disk' = disk \/ disk' = book  BY <1>1 DEF SaveOk, SaveFails
  <1>5. Writes(book)
    <2>1. \A v \in Slots : v[1] \in Runs  BY DEF Slots
    <2> QED BY <1>1, <1>2, <1>4, <2>1, AlikeSelf, MemoryAgrees DEF Writes
  <1>6. Journals'  BY <1>1, <1>3, <1>5, JournalsKept DEF TeamInv
  <1>7. SP!Inv'
    <2>1. SP!Inv' /\ ServerGrows  BY <1>1, ServerStep DEF TeamInv
    <2> QED BY <2>1
  <1>8. Opening' /\ SameUses
    <2>1. SameUses
      <3>1. Keeps(disk, disk')  BY <1>1, <1>4, AlikeSelf, MemoryAgrees
      <3> QED BY <3>1 DEF SameUses, Keeps, SameClaims
    <2>2. Unsent'  BY <1>1, <1>3, <2>1, UnsentKept DEF Opens
    <2> QED BY <1>1, <1>4, <2>1, <2>2 DEF Opening, Kinded, Latest, Unfinished
  <1>9. Aside  BY <1>2, <1>8 DEF Aside, LocalOnly
  <1>10. /\ Client' /\ Asking' /\ Consuming' /\ Reporting'
    <2>1. Client /\ NoWorker.kind = "none" /\ NoWorker.gen = 0 /\ gen \in 1..MaxGen
      BY DEF TeamInv, Client, NoWorker
    <2>2. CASE worker' = NoWorker
      BY <1>1, <1>2, <2>1, <2>2 DEF Client, Asking, Consuming, Reporting
    <2>3. CASE SaveOk(book) /\ token # NoToken /\ worker' = Sending("outcome", s)
      <3>1. /\ worker' \in Work /\ worker'.kind = "outcome" /\ worker'.gen = gen
            /\ worker'.res = "waiting" /\ worker'.slot = s
        BY <2>3, SendingIs
      <3>2. disk' = book  BY <2>3 DEF SaveOk
      <3> QED BY <1>1, <1>2, <2>1, <3>1, <3>2 DEF Client, Asking, Consuming, Reporting
    <2> QED BY <1>1, <2>2, <2>3
  <1> QED BY <1>3, <1>6, <1>7, <1>8, <1>9, <1>10 DEF TeamInv

\* Every settled change gets the event that reports its verdict.
LEMMA SyncOutcomesStep ==
  ASSUME TeamInv, SyncOutcomes
  PROVE  TeamInv' /\ Effect /\ Aside
  <1> USE Known, Start
  <1> DEFINE noted(s) == [book.tgt[s] EXCEPT !.event = [boot |-> boots, result |-> book.tgt[s].phase],
                                             !.delivered = FALSE]
             T == [s \in Slots |-> IF AwaitsEvent(book, s) THEN noted(s) ELSE book.tgt[s]]
             b == [book EXCEPT !.tgt = T]
  <1>1. /\ book' = b /\ Save(b, disk)
        /\ UNCHANGED <<uiVars, workVars, envVars, teamVars, serverVars>>
    BY DEF SyncOutcomes
  <1>2. UNCHANGED <<receipt, gen, sent, restart, token, view, worker, approval, outcome>>
    BY <1>1 DEF uiVars, workVars, envVars, teamVars, serverVars
  <1>3. ASSUME NEW s \in Slots, AwaitsEvent(book, s)
        PROVE  /\ noted(s) \in TargetRec /\ noted(s).phase = book.tgt[s].phase
               /\ noted(s).before = book.tgt[s].before /\ noted(s).approval = book.tgt[s].approval
               /\ noted(s).attempted = book.tgt[s].attempted /\ noted(s).delivered = FALSE
               /\ noted(s).event = [boot |-> boots, result |-> book.tgt[s].phase]
               /\ boots \in 1..MaxBoots /\ book.tgt[s].phase \in Settled
               /\ book.tgt[s].event = NoEvent
    <2> DEFINE e == [boot |-> boots, result |-> book.tgt[s].phase]
               c == book.tgt[s]
               n == noted(s)
    <2>1. c \in TargetRec /\ c.phase \in Settled /\ boots \in 1..MaxBoots /\ c.event = NoEvent
      BY <1>3 DEF AwaitsEvent, Book, RunInv, Outer
    <2>2. e \in [boot : 0..MaxBoots, result : Settled \cup {"none"}]
      BY <2>1, RunAssumption
    <2>3. n = [c EXCEPT !.event = e, !.delivered = FALSE]  OBVIOUS
    <2> HIDE DEF e, n, c
    <2>4. n = [phase |-> c.phase, before |-> c.before, baseline |-> c.baseline,
               approval |-> c.approval, attempted |-> c.attempted, event |-> e,
               delivered |-> FALSE]
      BY <2>1, <2>3 DEF TargetRec
    <2>5. n \in TargetRec  BY <2>1, <2>2, <2>4 DEF TargetRec
    <2>6. /\ n.phase = c.phase /\ n.before = c.before /\ n.approval = c.approval
          /\ n.attempted = c.attempted /\ n.delivered = FALSE /\ n.event = e
      BY <2>4
    <2> QED BY <2>1, <2>5, <2>6 DEF c, n, e
  <1> HIDE DEF noted
  <1>4. T \in [Slots -> TargetRec]  BY <1>3 DEF Book
  <1>5. b \in Book /\ b.run = book.run /\ b.team = book.team /\ b.tgt = T
    <2> HIDE DEF T
    <2> QED BY <1>4 DEF Book
  <1>6. ASSUME NEW s \in Slots
        PROVE  /\ b.tgt[s].phase = book.tgt[s].phase /\ b.tgt[s].before = book.tgt[s].before
               /\ b.tgt[s].approval = book.tgt[s].approval
               /\ b.tgt[s].attempted = book.tgt[s].attempted
               /\ \/ b.tgt[s] = book.tgt[s]
                  \/ /\ AwaitsEvent(book, s) /\ b.tgt[s].delivered = FALSE
                     /\ b.tgt[s].event.boot \in 1..MaxBoots /\ book.tgt[s].phase \in Settled
                     /\ b.tgt[s].event.result = book.tgt[s].phase /\ book.tgt[s].event = NoEvent
    <2>1. b.tgt[s] = IF AwaitsEvent(book, s) THEN noted(s) ELSE book.tgt[s]  BY <1>5
    <2>2. CASE ~AwaitsEvent(book, s)  BY <2>1, <2>2
    <2>3. CASE AwaitsEvent(book, s)
      <3>1. b.tgt[s] = noted(s)  BY <2>1, <2>3
      <3>2. b.tgt[s].event = [boot |-> boots, result |-> book.tgt[s].phase]
        BY <1>3, <2>3, <3>1
      <3>3. b.tgt[s].event.boot = boots /\ b.tgt[s].event.result = book.tgt[s].phase
        BY <3>2
      <3> QED BY <1>3, <2>3, <3>1, <3>3
    <2> QED BY <2>2, <2>3
  <1> HIDE DEF T, b
  <1>7. Annotates(b)
    <2>1. Consistent(b)
      <3>1. \A r \in Runs : b.run[r].team => b.team  BY <1>5 DEF Consistent
      <3>2. ASSUME NEW s \in Slots
            PROVE  \/ /\ ~b.tgt[s].attempted /\ b.tgt[s].approval = NoApproval
                      /\ b.tgt[s].event = NoEvent
                   \/ /\ Production(b, s[1]) /\ b.run[s[1]].team
                      /\ b.tgt[s].attempted /\ b.tgt[s].approval # NoApproval
        <4>1. \/ /\ ~book.tgt[s].attempted /\ book.tgt[s].approval = NoApproval
                 /\ book.tgt[s].event = NoEvent
              \/ /\ Production(book, s[1]) /\ book.run[s[1]].team
                 /\ book.tgt[s].attempted /\ book.tgt[s].approval # NoApproval
          BY DEF Consistent
        <4> QED BY <1>5, <1>6, <4>1 DEF Production, AwaitsEvent
      <3> QED BY <3>1, <3>2 DEF Consistent
    <2> QED BY <1>5, <1>6, <2>1 DEF Annotates
  <1>8. RunInv' /\ Effect  BY <1>1, <1>7, AnnotationsFit
  <1>9. disk' = disk \/ (~error /\ disk' = b)  BY <1>1 DEF Save, SaveOk, SaveFails
  <1>10. ASSUME NEW s \in Slots
         PROVE  /\ disk'.tgt[s].approval = disk.tgt[s].approval
                /\ disk'.tgt[s].attempted = disk.tgt[s].attempted
                /\ \/ /\ disk'.tgt[s].event = disk.tgt[s].event
                      /\ disk'.tgt[s].delivered = disk.tgt[s].delivered
                   \/ /\ disk.tgt[s].event = NoEvent /\ ~disk'.tgt[s].delivered
                      /\ disk'.tgt[s].event.boot \in 1..MaxBoots
                      /\ disk'.tgt[s].phase \in Settled
                      /\ disk'.tgt[s].event.result = disk'.tgt[s].phase
                /\ disk.tgt[s].phase \in Settled => disk'.tgt[s].phase = disk.tgt[s].phase
    <2>1. CASE disk' = disk  BY <2>1
    <2>2. CASE ~error /\ disk' = b
      <3>1. SameClaims(book.tgt[s], disk.tgt[s])  BY <2>2, MemoryAgrees
      <3>2. disk.tgt[s].phase \in Settled => book.tgt[s].phase = disk.tgt[s].phase
        BY <2>2, MemoryAgrees
      <3> QED BY <1>6, <2>2, <3>1, <3>2 DEF SameClaims
    <2> QED BY <1>9, <2>1, <2>2
  <1>11. \A r \in Runs : disk'.run[r].team = disk.run[r].team /\ disk'.run[r].kind = disk.run[r].kind
    BY <1>5, <1>9, MemoryAgrees
  <1>12. Journals'
    <2>1. Approved /\ Attempts /\ Eventful /\ CentralMatchesJournal /\ SP!Inv
      BY DEF TeamInv, Journals
    <2>2. Approved'  BY <1>2, <1>10, <2>1 DEF Approved
    <2>3. Attempts'
      <3>1. \A s \in Slots : s[1] \in Runs  BY DEF Slots
      <3> QED BY <1>2, <1>10, <1>11, <2>1, <3>1 DEF Attempts
    <2>4. Eventful'  BY <1>10, <2>1 DEF Eventful
    <2>5. CentralMatchesJournal'
      <3>1. ASSUME NEW q \in Approvals, outcome[q] # S!NoOutcome
            PROVE  LET s == <<outcome[q].run, outcome[q].tgt>> IN
                   /\ disk'.tgt[s].approval = q /\ disk'.tgt[s].phase = outcome[q].result
                   /\ disk'.tgt[s].event.result = outcome[q].result
                   /\ outcome[q].id = EventNo(s, disk'.tgt[s].event.boot)
        <4> DEFINE s == <<outcome[q].run, outcome[q].tgt>>
        <4>1. /\ disk.tgt[s].approval = q /\ disk.tgt[s].phase = outcome[q].result
              /\ disk.tgt[s].event.result = outcome[q].result
              /\ outcome[q].id = EventNo(s, disk.tgt[s].event.boot)
          BY <2>1, <3>1 DEF CentralMatchesJournal
        <4>2. s \in Slots /\ outcome[q].result \in Settled  BY <2>1, <3>1, OutcomeSlot
        <4> HIDE DEF s
        <4>3. disk.tgt[s].event # NoEvent  BY <4>1, <4>2 DEF NoEvent, Settled
        <4>4. disk'.tgt[s].event = disk.tgt[s].event /\ disk'.tgt[s].approval = disk.tgt[s].approval
              /\ disk'.tgt[s].phase = disk.tgt[s].phase
          BY <1>10, <4>1, <4>2, <4>3
        <4> QED BY <4>1, <4>4 DEF s
      <3>2. ASSUME NEW s \in Slots, disk'.tgt[s].delivered
            PROVE  outcome[disk'.tgt[s].approval].id = EventNo(s, disk'.tgt[s].event.boot)
        BY <1>10, <2>1, <3>2 DEF CentralMatchesJournal
      <3>3. S!NoOutcome' = S!NoOutcome  BY DEF S!NoOutcome
      <3> QED BY <1>2, <3>1, <3>2, <3>3 DEF CentralMatchesJournal
    <2> QED BY <2>2, <2>3, <2>4, <2>5 DEF Journals
  <1>13. SP!Inv'
    <2>1. SP!Inv' /\ ServerGrows  BY <1>1, ServerStep DEF TeamInv
    <2> QED BY <2>1
  <1>14. Client' /\ Asking'  BY <1>2 DEF TeamInv, Client, Asking, S!Exists
  <1>15. Consuming'
    <2> DEFINE s == <<worker.binding.run, worker.binding.tgt>>
    <2>1. worker.kind = "consume" => s \in Slots
      <3>1. worker.kind = "consume" => worker.binding \in Cited  BY DEF TeamInv, Asking
      <3> QED BY <3>1 DEF Cited, Slots
    <2>2. s' = s  BY <1>2
    <2>3. worker.kind = "consume" => Held(s)  BY DEF TeamInv, Consuming
    <2> HIDE DEF s
    <2>4. worker.kind = "consume" => Held(s)'
      BY <1>1, <1>2, <1>5, <1>6, <2>1, <2>2, <2>3 DEF Held, Production
    <2> QED BY <1>2, <2>4 DEF TeamInv, Consuming, s, Held
  <1>16. Reporting'
    <2>1. worker.kind = "outcome" =>
            LET s == worker.slot IN
            /\ s \in Slots /\ book.tgt[s].event # NoEvent
            /\ disk.tgt[s].event = book.tgt[s].event /\ disk.tgt[s].approval = book.tgt[s].approval
            /\ worker.res = "done" => outcome[book.tgt[s].approval] = EventOf(s)
      BY DEF TeamInv, Reporting
    <2>2. \A s \in Slots : book.tgt[s].event # NoEvent => book'.tgt[s] = book.tgt[s]
      BY <1>1, <1>6
    <2>3. \A s \in Slots : disk.tgt[s].event # NoEvent =>
            disk'.tgt[s].event = disk.tgt[s].event /\ disk'.tgt[s].approval = disk.tgt[s].approval
      BY <1>10
    <2> QED BY <1>2, <2>1, <2>2, <2>3 DEF Reporting, EventOf
  <1>17. Opening' /\ SameUses
    <2>1. SameUses  BY <1>10, <1>11 DEF SameUses
    <2>2. Opens  BY <1>1, <1>5 DEF Opens, Unfinished
    <2>3. Unsent'  BY <1>8, <2>1, <2>2, UnsentKept
    <2> QED BY <1>1, <1>5, <1>9, <2>1, <2>3 DEF Opening, Kinded, Latest, Unfinished
  <1>18. Aside  BY <1>2, <1>17 DEF Aside, LocalOnly
  <1> QED BY <1>8, <1>12, <1>13, <1>14, <1>15, <1>16, <1>17, <1>18 DEF TeamInv
-----------------------------------------------------------------------------
(* The answers, as the frame takes them.                                   *)

\* An answer that changes nothing but what the panel shows is put away.
LEMMA AnswerPutAway ==
  ASSUME TeamInv, worker' = NoWorker \/ worker' = worker, view' \in Views \cup {NoView},
         receipt' = NoReceipt,
         UNCHANGED <<journalVars, selected, reviewed, gen, workVars, envVars, token, serverVars>>
  PROVE  TeamInv' /\ Effect /\ Aside
  <1>1. Client /\ receipt' = receipt /\ gen \in 1..MaxGen /\ gen \in Nat /\ Asking /\ Consuming
    BY DEF TeamInv, Client
  <1>2. NoWorker.kind = "none" /\ NoWorker.gen = 0  BY DEF NoWorker
  <1>3. worker'.gen <= gen  BY <1>1, <1>2 DEF Client
  <1>4. Client'  BY <1>1, <1>3 DEF Client
  <1>5. UNCHANGED <<book, approval, restart>>  BY DEF journalVars, envVars, serverVars
  <1>6. Asking' /\ Consuming'
    <2>1. CASE worker' = worker
      BY <1>1, <1>5, <2>1 DEF Asking, Consuming, S!Exists, Held, Production
    <2>2. CASE worker' = NoWorker  BY <1>2, <2>2 DEF Asking, Consuming
    <2> QED BY <2>1, <2>2
  <1> QED BY <1>1, <1>2, <1>4, <1>6, AsksStep

\* What the list says of an approval is shown, and stands on the server.
LEMMA TakeApprovalStep ==
  ASSUME TeamInv, worker.gen = gen, worker.res = "done", TakeApproval, worker' = NoWorker,
         UNCHANGED <<token, serverVars>>
  PROVE  TeamInv' /\ Effect /\ Aside
  <1> DEFINE q == worker.req
             item == [req |-> q, binding |-> approval[q].binding, state |-> worker.state,
                      gen |-> worker.gen]
  <1>1. q \in Approvals /\ S!Exists(q) /\ worker.state \in Standing
    BY DEF TakeApproval, TeamInv, Asking
  <1>2. approval[q].binding \in Bindings
    <2>1. approval[q].binding \in Cited  BY <1>1, ServerKnown DEF TeamInv
    <2> QED BY <2>1 DEF Cited, Bindings
  <1>3. gen \in 1..MaxGen /\ receipt = NoReceipt  BY DEF TeamInv, Client
  <1>4. item \in Views  BY <1>1, <1>2, <1>3 DEF Views
  <1>5. view' = item \/ view' = NoView  BY DEF TakeApproval
  <1>6. UNCHANGED <<journalVars, selected, reviewed, gen, workVars, envVars>> /\ receipt' = receipt
    BY DEF TakeApproval, Unchanged
  <1> QED BY <1>3, <1>4, <1>5, <1>6, AnswerPutAway

\* The journal got a note, and the worker is done.
LEMMA NoteStep ==
  ASSUME TeamInv, NEW b, Annotates(b), book' = b, Save(b, disk), worker' = NoWorker,
         UNCHANGED <<uiVars, workVars, envVars, token, view, serverVars>>,
         RunInv' /\ Effect => Journals' /\ SameUses
  PROVE  TeamInv' /\ Effect /\ Aside
  <1> USE Known, Start
  <1>1. UNCHANGED <<receipt, gen, sent>>  BY DEF uiVars, workVars
  <1>2. RunInv' /\ Effect  BY AnnotationsFit
  <1>3. SP!Inv'
    <2>1. SP!Inv' /\ ServerGrows  BY ServerStep DEF TeamInv
    <2> QED BY <2>1
  <1>4. NoWorker.kind = "none" /\ NoWorker.gen = 0  BY DEF NoWorker
  <1>5. Client'  BY <1>1, <1>4 DEF TeamInv, Client
  <1>6. Asking' /\ Consuming' /\ Reporting'  BY <1>4 DEF Asking, Consuming, Reporting
  <1>7. Opening'
    <2>1. disk' = b \/ disk' = disk  BY DEF Save, SaveOk, SaveFails
    <2>2. Opens  BY DEF Annotates, Opens, Unfinished
    <2>3. Unsent'  BY <1>2, <2>2, UnsentKept
    <2> QED BY <2>1, <2>3 DEF Annotates, Opening, Kinded, Latest, Unfinished
  <1>8. Aside  BY <1>1, <1>2 DEF Aside, LocalOnly
  <1> QED BY <1>2, <1>3, <1>5, <1>6, <1>7, <1>8 DEF TeamInv

\* From now on new runs are under team control; those there are stay what they are.
LEMMA TakeModeStep ==
  ASSUME TeamInv, TakeMode, worker' = NoWorker, UNCHANGED <<token, serverVars>>
  PROVE  TeamInv' /\ Effect /\ Aside
  <1> USE Known, Start
  <1> DEFINE b == [book EXCEPT !.team = TRUE]
  <1>1. /\ UNCHANGED <<uiVars, workVars, envVars, view>>
        /\ UNCHANGED journalVars \/ (book' = b /\ Save(b, disk))
    BY DEF TakeMode
  <1>2. CASE UNCHANGED journalVars
    <2>1. receipt' = NoReceipt /\ view' \in Views \cup {NoView}
      BY <1>1 DEF TeamInv, Client, uiVars
    <2> QED BY <1>1, <1>2, <2>1, AnswerPutAway DEF uiVars
  <1>3. CASE book' = b /\ Save(b, disk)
    <2>1. b \in Book /\ b.run = book.run /\ b.tgt = book.tgt /\ b.team = TRUE  BY DEF Book
    <2> HIDE DEF b
    <2>2. Annotates(b)  BY <2>1 DEF Annotates, Consistent, Production
    <2>3. disk' = disk \/ (~error /\ disk' = b)  BY <1>3 DEF Save, SaveOk, SaveFails
    <2>4. sent' = sent  BY <1>1 DEF workVars
    <2>5. Writes(book)
      <3>1. \A s \in Slots : s[1] \in Runs  BY DEF Slots
      <3>2. Keeps(book, b)  BY <2>1 DEF Keeps, SameClaims
      <3> QED BY <2>1, <2>3, <2>4, <3>1, <3>2, MemoryAgrees DEF Writes
    <2>6. Effect => Journals' /\ SameUses
      BY <2>5, JournalsKept DEF TeamInv, SameUses, Keeps, SameClaims
    <2> QED BY <1>1, <1>3, <2>2, <2>6, NoteStep
  <1> QED BY <1>1, <1>2, <1>3

\* An outcome that was acknowledged is the one the server has.
LEMMA TakeOutcomeStep ==
  ASSUME TeamInv, worker.res = "done", TakeOutcome, worker' = NoWorker,
         UNCHANGED <<token, serverVars>>
  PROVE  TeamInv' /\ Effect /\ Aside
  <1> USE Known, Start
  <1> DEFINE s == worker.slot
             c == book.tgt[s]
             e == [c EXCEPT !.delivered = TRUE]
             b == [book EXCEPT !.tgt[s].delivered = TRUE]
  <1>1. /\ UNCHANGED <<uiVars, workVars, envVars, view>>
        /\ (SaveOk(b) /\ book' = b) \/ (SaveFails(disk) /\ book' = book)
    BY DEF TakeOutcome
  <1>2. UNCHANGED <<sent, approval, outcome>>  BY <1>1 DEF workVars, serverVars
  <1>3. /\ s \in Slots /\ c.event # NoEvent /\ outcome[c.approval] = EventOf(s)
        /\ c \in TargetRec
    <2>1. s \in Slots /\ c.event # NoEvent /\ outcome[c.approval] = EventOf(s)
      BY DEF TakeOutcome, TeamInv, Reporting
    <2> QED BY <2>1 DEF Book
  <1>4. outcome[c.approval].id = EventNo(s, c.event.boot)  BY <1>3 DEF EventOf
  <1>5. /\ e \in TargetRec /\ e.phase = c.phase /\ e.before = c.before /\ e.approval = c.approval
        /\ e.attempted = c.attempted /\ e.event = c.event
    <2> HIDE DEF c
    <2> QED BY <1>3 DEF TargetRec
  <1>6. b \in Book /\ b.run = book.run /\ b.team = book.team /\ b.tgt = [book.tgt EXCEPT ![s] = e]
    <2>1. b = [book EXCEPT !.tgt[s] = e]  OBVIOUS
    <2>2. book.tgt \in [Slots -> TargetRec]  BY DEF Book
    <2> HIDE DEF b, e, s
    <2>3. b.run = book.run /\ b.team = book.team /\ b.tgt = [book.tgt EXCEPT ![s] = e]
          /\ b = [team |-> book.team, run |-> book.run, tgt |-> b.tgt]
      BY <2>1 DEF Book
    <2>4. b.tgt \in [Slots -> TargetRec]  BY <1>3, <1>5, <2>2, <2>3
    <2> QED BY <2>3, <2>4 DEF Book
  <1> HIDE DEF b, e
  <1>7. ASSUME NEW v \in Slots
        PROVE  /\ b.tgt[v].phase = book.tgt[v].phase /\ b.tgt[v].before = book.tgt[v].before
               /\ b.tgt[v].approval = book.tgt[v].approval /\ b.tgt[v].event = book.tgt[v].event
               /\ b.tgt[v].attempted = book.tgt[v].attempted
               /\ v # s => b.tgt[v].delivered = book.tgt[v].delivered
    <2>1. book.tgt \in [Slots -> TargetRec]  BY DEF Book
    <2>2. CASE v = s
      <3>1. b.tgt[v] = e  BY <1>3, <1>6, <2>1, <2>2
      <3> QED BY <1>5, <2>2, <3>1
    <2>3. CASE v # s
      <3>1. b.tgt[v] = book.tgt[v]  BY <1>6, <2>1, <2>3
      <3> QED BY <3>1
    <2> QED BY <2>2, <2>3
  <1>8. Annotates(b)
    <2>1. Consistent(b)
      BY <1>6, <1>7 DEF Consistent, Production
    <2> QED BY <1>6, <1>7, <2>1 DEF Annotates
  <1>9. CASE SaveFails(disk) /\ book' = book
    <2>1. Writes(book)  BY <1>2, <1>9 DEF Writes, SaveFails
    <2>2. Effect => Journals' /\ SameUses
      BY <2>1, JournalsKept DEF TeamInv, SameUses, Keeps, SameClaims
    <2> QED BY <1>1, <1>9, <2>2, NoNote, NoteStep DEF Save
  <1>10. CASE SaveOk(b) /\ book' = b
    <2>1. ~error /\ disk' = b  BY <1>10 DEF SaveOk
    <2>2. ASSUME NEW v \in Slots
          PROVE  /\ disk'.tgt[v].approval = disk.tgt[v].approval
                 /\ disk'.tgt[v].attempted = disk.tgt[v].attempted
                 /\ disk'.tgt[v].event = disk.tgt[v].event
                 /\ v # s => disk'.tgt[v].delivered = disk.tgt[v].delivered
                 /\ disk.tgt[v].phase \in Settled => disk'.tgt[v].phase = disk.tgt[v].phase
      <3>1. SameClaims(book.tgt[v], disk.tgt[v])
            /\ (disk.tgt[v].phase \in Settled => book.tgt[v].phase = disk.tgt[v].phase)
        BY <2>1, MemoryAgrees
      <3> QED BY <1>7, <2>1, <3>1 DEF SameClaims
    <2>3. \A r \in Runs : disk'.run[r].team = disk.run[r].team
      BY <1>6, <2>1, MemoryAgrees
    <2>4. Journals'
      <3>1. Approved /\ Attempts /\ Eventful /\ CentralMatchesJournal /\ SP!Inv
        BY DEF TeamInv, Journals
      <3>2. Approved'  BY <1>2, <2>2, <3>1 DEF Approved
      <3>3. Attempts'
        <4>1. \A v \in Slots : v[1] \in Runs  BY DEF Slots
        <4> QED BY <1>2, <2>2, <2>3, <3>1, <4>1 DEF Attempts
      <3>4. Eventful'
        <4>1. disk'.tgt[s].event # NoEvent  BY <1>3, <1>7, <2>1
        <4> HIDE DEF s
        <4> QED BY <1>3, <2>2, <3>1, <4>1 DEF Eventful
      <3>5. CentralMatchesJournal'
        <4>1. ASSUME NEW q \in Approvals, outcome[q] # S!NoOutcome
              PROVE  LET v == <<outcome[q].run, outcome[q].tgt>> IN
                     /\ disk'.tgt[v].approval = q /\ disk'.tgt[v].phase = outcome[q].result
                     /\ disk'.tgt[v].event.result = outcome[q].result
                     /\ outcome[q].id = EventNo(v, disk'.tgt[v].event.boot)
          <5> DEFINE v == <<outcome[q].run, outcome[q].tgt>>
          <5>1. /\ disk.tgt[v].approval = q /\ disk.tgt[v].phase = outcome[q].result
                /\ disk.tgt[v].event.result = outcome[q].result
                /\ outcome[q].id = EventNo(v, disk.tgt[v].event.boot)
            BY <3>1, <4>1 DEF CentralMatchesJournal
          <5>2. v \in Slots /\ outcome[q].result \in Settled  BY <3>1, <4>1, OutcomeSlot
          <5> HIDE DEF v
          <5>3. /\ disk'.tgt[v].event = disk.tgt[v].event
                /\ disk'.tgt[v].approval = disk.tgt[v].approval
                /\ disk'.tgt[v].phase = disk.tgt[v].phase
            BY <2>2, <5>1, <5>2
          <5> QED BY <5>1, <5>3 DEF v
        <4>2. ASSUME NEW v \in Slots, disk'.tgt[v].delivered
              PROVE  outcome[disk'.tgt[v].approval].id = EventNo(v, disk'.tgt[v].event.boot)
          <5>1. CASE v = s
            BY <1>3, <1>4, <1>7, <2>1, <5>1
          <5>2. CASE v # s
            BY <2>2, <3>1, <4>2, <5>2 DEF CentralMatchesJournal
          <5> QED BY <5>1, <5>2
        <4>3. S!NoOutcome' = S!NoOutcome  BY DEF S!NoOutcome
        <4> QED BY <1>2, <4>1, <4>2, <4>3 DEF CentralMatchesJournal
      <3> QED BY <3>2, <3>3, <3>4, <3>5 DEF Journals
    <2>5. SameUses  BY <2>2, <2>3 DEF SameUses
    <2> QED BY <1>1, <1>8, <1>10, <2>4, <2>5, NoteStep DEF Save
  <1> QED BY <1>1, <1>9, <1>10
-----------------------------------------------------------------------------
(* The answer to a consume, and the change it lets go.                     *)

\* The frame that takes the good answer to a consume, for the target it was asked for.
Granted(r) ==
  /\ r = selected /\ r \in Runs
  /\ worker.kind = "consume" /\ worker.res = "done" /\ worker.gen = gen
  /\ reviewed /\ Bindable(book, r) /\ Binding(book, r) = worker.binding

\* That target waits in review, in a journal that is saved, and nothing else goes on.
LEMMA GrantedIs ==
  ASSUME TeamInv, NEW r, Granted(r)
  PROVE  LET s == <<r, book.run[r].cur>> IN
         /\ r \in Runs /\ Unfinished(book, r) /\ Cur(book, r).phase = "Review"
         /\ job = NoJob /\ health = "idle" /\ ~error /\ book = disk
         /\ Production(book, r) /\ book.run[r].team
         /\ restart \/ Cur(book, r).before # "desired"
         /\ s \in Slots /\ s = <<worker.binding.run, worker.binding.tgt>>
         /\ worker.req \in Approvals /\ worker.gen \in Nat
         /\ approval[worker.req].state = "consumed"
         /\ approval[worker.req].binding = worker.binding
  <1> USE Known, Start
  <1> DEFINE s == <<r, book.run[r].cur>>
  <1>1. /\ r \in Runs /\ Bindable(book, r) /\ r = selected
        /\ worker.binding.run = r /\ worker.binding.tgt = book.run[r].cur
    BY DEF Granted, Binding
  <1>2. /\ Held(s) /\ worker.req \in Approvals /\ approval[worker.req].state = "consumed"
        /\ approval[worker.req].binding = worker.binding
    BY <1>1 DEF Granted, TeamInv, Asking, Consuming
  <1>3. /\ Unfinished(book, r) /\ Cur(book, r).phase \in {"Review", "Apply"} /\ ~error
    BY <1>1 DEF Bindable
  <1>4. s \in Slots /\ Cur(book, r) = book.tgt[s]  BY <1>1, CurrentSlot
  <1>5. /\ Cur(book, r).phase = "Review" /\ Production(book, r) /\ book.run[r].team
        /\ restart \/ Cur(book, r).before # "desired"
    BY <1>2, <1>3, <1>4 DEF Held
  <1>6. job = NoJob /\ health = "idle"
    <2>1. job = NoJob  BY <1>1, <1>5 DEF Jobs, Ops
    <2> QED BY <1>1, <1>5, <2>1
  <1>7. book = disk  BY <1>1, <1>3, OpenIsSaved
  <1>8. worker.gen \in Nat
    <2>1. gen \in 1..MaxGen /\ worker.gen = gen  BY DEF Granted, TeamInv, Client
    <2> QED BY <2>1
  <1> QED BY <1>1, <1>2, <1>3, <1>4, <1>5, <1>6, <1>7, <1>8

\* A journal like the one in memory, but that run r went on, its current target perhaps
\* under the approval the worker brought.
Stamped(d, r) ==
  /\ \A s \in Slots :
       /\ d.tgt[s].event = book.tgt[s].event /\ d.tgt[s].delivered = book.tgt[s].delivered
       /\ \/ SameClaims(d.tgt[s], book.tgt[s])
          \/ s = <<r, book.run[r].cur>> /\ d.tgt[s].attempted /\ d.tgt[s].approval = worker.req
  /\ \A q \in Runs : /\ d.run[q].kind = book.run[q].kind /\ d.run[q].team = book.run[q].team
                     /\ Unfinished(d, q) => Unfinished(book, q)

\* Going on changes no stamp.
LEMMA StampedGoesOn ==
  ASSUME NEW r \in Runs, NEW b, NEW d, Alike(b, d, r)
  PROVE  /\ b = book => Stamped(d, r)
         /\ Stamped(b, r) => Stamped(d, r)
  <1>1. /\ \A s \in Slots : SameClaims(d.tgt[s], b.tgt[s])
        /\ \A q \in Runs : /\ d.run[q].kind = b.run[q].kind /\ d.run[q].team = b.run[q].team
                           /\ Unfinished(d, q) => Unfinished(b, q)
    BY DEF Alike
  <1>2. b = book => Stamped(d, r)  BY <1>1 DEF Stamped, SameClaims
  <1>3. Stamped(b, r) => Stamped(d, r)  BY <1>1 DEF Stamped, SameClaims
  <1> QED BY <1>2, <1>3

\* The hands of that frame: the target is to be changed, under the receipt it got.
Receipt == [binding |-> worker.binding, gen |-> worker.gen, approval |-> worker.req]
Grant(r) == [Now EXCEPT !.book = SetPhase(book, r, "Apply"), !.receipt = Receipt]
Refusal(r) == [Now EXCEPT !.book = SetPhase(book, r, "Apply"), !.receipt = NoReceipt]

\* The target is approved for the change, and otherwise what it was.
LEMMA GrantIs ==
  ASSUME TeamInv, NEW r, Granted(r)
  PROVE  LET c == [Cur(book, r) EXCEPT !.phase = "Apply"]
             b == SetPhase(book, r, "Apply") IN
         /\ c \in TargetRec /\ c.phase = "Apply" /\ Claimed(book, r, c)
         /\ c.before = Cur(book, r).before /\ c.baseline = Cur(book, r).baseline
         /\ SameClaims(c, Cur(book, r))
         /\ b = Moved(book, r, c) /\ b \in Book /\ b.run = book.run /\ Cur(b, r) = c
         /\ \A s \in Slots : s # <<r, book.run[r].cur>> => b.tgt[s] = book.tgt[s]
         /\ Alike(book, b, r)
         /\ Grant(r) \in Hands /\ Grant(r).book = b /\ Grant(r).receipt = Receipt
         /\ Grant(r).job = NoJob /\ Grant(r).health = "idle"
         /\ Refusal(r) \in Hands /\ Refusal(r).book = b /\ Refusal(r).receipt = NoReceipt
         /\ Refusal(r).job = NoJob /\ Refusal(r).health = "idle"
  <1> DEFINE c == [Cur(book, r) EXCEPT !.phase = "Apply"]
             b == SetPhase(book, r, "Apply")
  <1>0. /\ book \in Book /\ Order(book) /\ Consistent(book) /\ Now \in Hands
        /\ Now.job = job /\ Now.health = health
    BY Known, Start
  <1>1. /\ r \in Runs /\ Unfinished(book, r) /\ job = NoJob /\ health = "idle"
        /\ worker.req \in Approvals /\ worker.gen \in Nat
    BY GrantedIs
  <1>2. "Apply" \in Phases /\ "Apply" \notin Settled  BY DEF Phases, Settled
  <1>3. /\ b = Put(book, r, c) /\ c \in TargetRec /\ c.phase = "Apply"
        /\ c.before = Cur(book, r).before /\ c.baseline = Cur(book, r).baseline
        /\ SameClaims(c, Cur(book, r))
    BY <1>0, <1>1, <1>2, SetPhaseIsPut
  <1>4. Alike(book, b, r) /\ b \in Book  BY <1>0, <1>1, <1>2, PhaseAlike
  <1> HIDE DEF c
  <1>5. Claimed(book, r, c)  BY <1>3 DEF Claimed
  <1>6. b = Moved(book, r, c)
    <2>1. Moved(book, r, c) \in Book /\ (c.phase \notin Settled => Moved(book, r, c) = Put(book, r, c))
      BY <1>0, <1>1, <1>3, <1>5, MovedGood
    <2> QED BY <1>2, <1>3, <2>1
  <1>7. /\ b.run = book.run /\ Cur(b, r) = c
        /\ \A s \in Slots : s # <<r, book.run[r].cur>> => b.tgt[s] = book.tgt[s]
    <2> DEFINE p == Put(book, r, c)
    <2>1. /\ p.run = book.run /\ Cur(p, r) = c
          /\ \A s \in Slots : s # <<r, book.run[r].cur>> => p.tgt[s] = book.tgt[s]
      BY <1>0, <1>1, <1>3, PutIsLocal
    <2>2. b = p  BY <1>3
    <2> HIDE DEF p, b
    <2> QED BY <2>1, <2>2
  <1>8. Receipt \in Receipts /\ NoReceipt \in Receipts
    <2>1. worker.binding \in Bindings
      <3>1. worker.binding \in Cited  BY DEF TeamInv, Asking, Granted
      <3> QED BY <3>1 DEF Cited, Bindings
    <2> QED BY <1>1, <2>1 DEF Receipt, Receipts
  <1> HIDE DEF b
  <1>9. /\ Grant(r) = [Now EXCEPT !.book = b, !.receipt = Receipt]
        /\ Refusal(r) = [Now EXCEPT !.book = b, !.receipt = NoReceipt]
    BY DEF Grant, Refusal, b
  <1>10. /\ Grant(r) \in Hands /\ Grant(r).book = b /\ Grant(r).receipt = Receipt
         /\ Grant(r).job = NoJob /\ Grant(r).health = "idle"
    <2> HIDE DEF Receipt
    <2> QED BY <1>0, <1>1, <1>4, <1>8, <1>9 DEF Hands
  <1>11. /\ Refusal(r) \in Hands /\ Refusal(r).book = b /\ Refusal(r).receipt = NoReceipt
         /\ Refusal(r).job = NoJob /\ Refusal(r).health = "idle"
    BY <1>0, <1>1, <1>4, <1>8, <1>9 DEF Hands
  <1> QED BY <1>3, <1>4, <1>5, <1>6, <1>7, <1>10, <1>11 DEF b, c

\* Both ways it ends are handlers of the engine.
LEMMA GrantHandled ==
  ASSUME TeamInv, NEW r, Granted(r), UNCHANGED <<selected, ghosts, gen, envVars>>,
         \/ Drive(Grant(r), SetPhase(book, r, "Apply"), r)
         \/ SaveFails(disk) /\ UNCHANGED sent /\ Become(Refusal(r))
  PROVE  RunInv' /\ Effect
  <1> DEFINE c == [Cur(book, r) EXCEPT !.phase = "Apply"]
             a == sent[<<r, book.run[r].cur, "Apply">>]
             u == sent[<<r, book.run[r].cur, "Restore">>]
  <1>0. RunInv /\ book \in Book /\ (~error => Told(restart, book, sent))
    BY Known, Start
  <1>1. /\ r \in Runs /\ r = selected /\ Unfinished(book, r) /\ Cur(book, r).phase = "Review"
        /\ ~error /\ (restart \/ Cur(book, r).before # "desired")
    BY GrantedIs DEF Granted
  <1>2. /\ c \in TargetRec /\ c.phase = "Apply" /\ Claimed(book, r, c)
        /\ c.before = Cur(book, r).before
        /\ SetPhase(book, r, "Apply") = Moved(book, r, c)
        /\ Grant(r) \in Hands /\ Grant(r).book = SetPhase(book, r, "Apply")
        /\ Grant(r).job = NoJob /\ Grant(r).health = "idle"
        /\ Refusal(r) \in Hands /\ Refusal(r).book = SetPhase(book, r, "Apply")
        /\ Refusal(r).job = NoJob /\ Refusal(r).health = "idle"
    BY GrantIs
  <1> HIDE DEF c
  <1>3. Tally(restart, c, a, u) /\ a = 0 /\ u = 0
    <2>1. Tally(restart, Cur(book, r), a, u)  BY <1>0, <1>1, CurrentSlot DEF Told
    <2>2. a = 0 /\ u = 0  BY <1>1, <2>1 DEF Tally
    <2> HIDE DEF a, u
    <2> QED BY <1>1, <1>2, <2>2 DEF Tally
  <1>4. CASE Drive(Grant(r), SetPhase(book, r, "Apply"), r)
    <2>1. SaveThenDrive(Grant(r), r)  BY <1>1, <1>2, <1>4 DEF SaveThenDrive
    <2> QED BY <1>0, <1>1, <1>2, <1>3, <2>1, HandlerStep
  <1>5. CASE SaveFails(disk) /\ UNCHANGED sent /\ Become(Refusal(r))
    <2>1. SaveThenDrive(Refusal(r), r)  BY <1>5 DEF SaveThenDrive
    <2> QED BY <1>0, <1>1, <1>2, <1>3, <2>1, HandlerStep
  <1> QED BY <1>4, <1>5

\* The target goes back to review, without the receipt.
BackToReview(r) ==
  LET b == SetPhase(book, r, "Apply")
      x == SetPhase(b, r, "Review") IN
  Become([Grant(r) EXCEPT !.book = x, !.receipt = NoReceipt]) /\ Save(x, b) /\ UNCHANGED sent

\* The driver has no reason to wait or to give up: it sends, or goes back to review.
LEMMA GrantDrives ==
  ASSUME TeamInv, NEW r, Granted(r), Drive(Grant(r), SetPhase(book, r, "Apply"), r)
  PROVE  LET b == SetPhase(book, r, "Apply") IN
         NeedsReceipt(b, r) /\ (BackToReview(r) \/ Dispatch(Grant(r), b, r))
  <1> DEFINE m == Grant(r)
             b == SetPhase(book, r, "Apply")
             c == Cur(b, r)
             s == <<r, book.run[r].cur>>
  <1>1. /\ r \in Runs /\ Unfinished(book, r) /\ Production(book, r) /\ book.run[r].team
        /\ s \in Slots /\ Bindable(book, r)
    BY GrantedIs DEF Granted
  <1>2. /\ m.book = b /\ m.job = NoJob /\ m.health = "idle" /\ b.run = book.run
        /\ c.phase = "Apply" /\ c.before = Cur(book, r).before /\ c.baseline = Cur(book, r).baseline
        /\ \A v \in Slots : v # s => b.tgt[v] = book.tgt[v]
    BY GrantIs
  <1>3. /\ c.baseline # "none" /\ c.before # "none" /\ s \notin aged /\ profileOk /\ handoffOk
        /\ RestartReady(book, r) /\ HasProof(book, r)
    BY <1>1, <1>2 DEF Bindable, Fresh
  <1> HIDE DEF b, m
  <1>4. HasProof(b, r)
    <2>1. ASSUME NEW p \in Runs, ProofFor(book, p) PROVE ProofFor(b, p)
      <3>1. p # r  BY <1>1, <2>1 DEF ProofFor, Production
      <3>2. \A t \in Targets : <<p, t>> \in Slots /\ <<p, t>> # s  BY <3>1 DEF Slots
      <3>3. \A t \in Targets : b.tgt[<<p, t>>] = book.tgt[<<p, t>>]  BY <1>2, <3>2
      <3> QED BY <1>2, <2>1, <3>3 DEF ProofFor
    <2> QED BY <1>2, <1>3, <2>1 DEF HasProof
  <1>5. Fresh(b, r) /\ RestartReady(b, r)  BY <1>2, <1>3 DEF Fresh, RestartReady
  <1>6. NeedsReceipt(b, r)  BY <1>1, <1>2 DEF NeedsReceipt
  <1>7. ~DriveStops(m, r)
    BY <1>1, <1>2, <1>3 DEF DriveStops, Unfinished, Settled
  <1>8. ~DriveRefuses(b, r)  BY <1>2, <1>3, <1>4, <1>5 DEF DriveRefuses
  <1>9. Drive(m, b, r)  BY DEF m, b
  <1>10. \/ /\ Become([m EXCEPT !.book = SetPhase(b, r, "Review"), !.receipt = NoReceipt])
            /\ Save(SetPhase(b, r, "Review"), b) /\ UNCHANGED sent
         \/ Dispatch(m, b, r)
    BY <1>2, <1>6, <1>7, <1>8, <1>9 DEF Drive
  <1> QED BY <1>6, <1>10 DEF BackToReview, m, b

\* Where the stamp is new, the change was sent, or the run is over.
Spent(r) ==
  disk'.tgt[<<r, book.run[r].cur>>].attempted =>
    \/ book.tgt[<<r, book.run[r].cur>>].attempted
    \/ sent'[<<r, book.run[r].cur, "Apply">>] > 0
    \/ ~Unfinished(book', r)

\* A target that is given up ends its run.
LEMMA FailEnds ==
  ASSUME NEW b \in Book, NEW r \in Runs
  PROVE  ~Unfinished(FailCurrent(b, r), r)
  <1> DEFINE c == [Cur(b, r) EXCEPT !.phase = "Unknown"]
             p == Put(b, r, c)
  <1>1. c \in TargetRec /\ c.phase = "Unknown"
    <2>1. "Unknown" \in Phases  BY DEF Phases, Settled
    <2> QED BY <2>1, SetPhaseIsPut
  <1>2. FailCurrent(b, r) = Advance(p, r)  BY FailMoves DEF Moved
  <1> HIDE DEF c
  <1>3. p \in Book /\ Cur(p, r) = c  BY <1>1, PutIsLocal
  <1> HIDE DEF p
  <1>4. Advance(p, r).run[r].fin = TRUE  BY <1>1, <1>3, AdvanceSteps DEF Settled
  <1> QED BY <1>2, <1>4 DEF Unfinished

\* Whatever becomes of it, only that target is stamped, and only with that approval.
LEMMA DispatchStamps ==
  ASSUME TeamInv, NEW r, Granted(r), NEW b, b = SetPhase(book, r, "Apply"), NeedsReceipt(b, r),
         Dispatch(Grant(r), b, r)
  PROVE  /\ Stamped(book', r) /\ Stamped(disk', r) /\ receipt' = NoReceipt /\ Spent(r)
         /\ \A s \in Slots : sent'[<<s[1], s[2], "Apply">>] # sent[<<s[1], s[2], "Apply">>] =>
              s = <<r, book.run[r].cur>> /\ disk'.tgt[s].attempted
  <1> DEFINE m == Grant(r)
             t == b.run[r].cur
             c == Cur(b, r)
             e == [c EXCEPT !.approval = m.receipt.approval, !.attempted = TRUE]
             d == Put(b, r, e)
             s0 == <<r, t>>
             k1 == [m EXCEPT !.book = d, !.receipt = NoReceipt]
             k2 == [m EXCEPT !.book = d, !.receipt = AfterUse(m, r),
                             !.reviewed = @ /\ c.phase # "Apply",
                             !.job = [run |-> r, tgt |-> t, op |-> c.phase, res |-> "none"]]
             k3 == [m EXCEPT !.book = d, !.receipt = AfterUse(m, r)]
  <1>1. /\ r \in Runs /\ worker.req \in Approvals /\ book \in Book
    BY GrantedIs, Start
  <1>2. /\ m \in Hands /\ m.book = b /\ m.receipt = Receipt /\ b \in Book /\ b.run = book.run
        /\ c.phase = "Apply" /\ Alike(book, b, r)
    BY GrantIs
  <1>3. c \in TargetRec /\ s0 \in Slots /\ c = b.tgt[s0] /\ b.tgt \in [Slots -> TargetRec]
    BY <1>1, <1>2, CurrentSlot
  <1>4. m.receipt.approval = worker.req  BY <1>2 DEF Receipt
  <1>5. /\ e \in TargetRec /\ e.approval = worker.req /\ e.attempted = TRUE
        /\ e.event = c.event /\ e.delivered = c.delivered
    <2> HIDE DEF c, m
    <2> QED BY <1>1, <1>3, <1>4 DEF TargetRec
  <1>6. AfterUse(m, r) = NoReceipt  BY <1>2 DEF AfterUse
  <1>7. \/ SaveFails(b) /\ Become(k1) /\ sent' = sent
        \/ /\ SaveOk(d) /\ Become(k2)
           /\ sent' = IF c.phase \in Mutation /\ sent[<<r, t, c.phase>>] < 2
                      THEN [sent EXCEPT ![<<r, t, c.phase>>] = @ + 1] ELSE sent
        \/ ~error /\ Fail(k3, d, r) /\ sent' = sent
    <2>1. d = [b EXCEPT !.tgt[<<r, t>>] = e]  BY DEF Put
    <2>2. m.book = b /\ NeedsReceipt(m.book, r)  BY <1>2
    <2> QED BY <2>1, <2>2 DEF Dispatch
  <1> HIDE DEF e
  <1>8. /\ d \in Book /\ d.run = b.run /\ d.tgt = [b.tgt EXCEPT ![s0] = e]
    BY <1>1, <1>2, <1>5, PutIsLocal
  <1> HIDE DEF d
  <1>9. d.tgt[s0] = e /\ \A s \in Slots : s # s0 => d.tgt[s] = b.tgt[s]  BY <1>3, <1>8
  <1>10. Stamped(b, r)  BY <1>1, <1>2, StampedGoesOn
  <1>11. Stamped(d, r)
    <2>1. \A s \in Slots :
            /\ d.tgt[s].event = book.tgt[s].event /\ d.tgt[s].delivered = book.tgt[s].delivered
            /\ \/ SameClaims(d.tgt[s], book.tgt[s])
               \/ s = s0 /\ d.tgt[s].attempted /\ d.tgt[s].approval = worker.req
      <3> SUFFICES ASSUME NEW s \in Slots
                   PROVE  /\ d.tgt[s].event = book.tgt[s].event
                          /\ d.tgt[s].delivered = book.tgt[s].delivered
                          /\ \/ SameClaims(d.tgt[s], book.tgt[s])
                             \/ s = s0 /\ d.tgt[s].attempted /\ d.tgt[s].approval = worker.req
        OBVIOUS
      <3>1. CASE s = s0
        <4>1. b.tgt[s0].event = book.tgt[s0].event /\ b.tgt[s0].delivered = book.tgt[s0].delivered
          BY <1>3, <1>10 DEF Stamped
        <4> HIDE DEF s0, c
        <4> QED BY <1>3, <1>5, <1>9, <3>1, <4>1
      <3>2. CASE s # s0
        <4>1. d.tgt[s] = b.tgt[s]  BY <1>9, <3>2
        <4>2. SameClaims(b.tgt[s], book.tgt[s])  BY <1>2 DEF Alike
        <4> QED BY <4>1, <4>2 DEF SameClaims
      <3> QED BY <3>1, <3>2
    <2>2. \A q \in Runs : /\ d.run[q].kind = book.run[q].kind /\ d.run[q].team = book.run[q].team
                          /\ Unfinished(d, q) => Unfinished(book, q)
      BY <1>2, <1>8 DEF Unfinished
    <2> QED BY <1>2, <2>1, <2>2 DEF Stamped
  <1>12. Alike(d, FailCurrent(d, r), r)
    <2>1. "Unknown" \in Phases  BY DEF Phases, Settled
    <2> QED BY <1>1, <1>8, <2>1, PhaseAlike
  <1>13. Stamped(FailCurrent(d, r), r)  BY <1>1, <1>11, <1>12, StampedGoesOn
  <1>14. k1.book = d /\ k1.receipt = NoReceipt  BY <1>2 DEF Hands
  <1>15. k2.book = d /\ k2.receipt = NoReceipt
    <2> HIDE DEF m
    <2> QED BY <1>2, <1>6 DEF Hands
  <1>16. k3.book = d /\ k3.receipt = NoReceipt
    <2> HIDE DEF m
    <2> QED BY <1>2, <1>6 DEF Hands
  <1>17. CASE SaveFails(b) /\ Become(k1) /\ sent' = sent
    <2>1. book' = d /\ receipt' = NoReceipt  BY <1>14, <1>17 DEF Become
    <2>2. disk' = b  BY <1>17 DEF SaveFails
    <2>3. Spent(r)  BY <1>2, <1>3, <2>2 DEF Spent, Alike, SameClaims
    <2> QED BY <1>10, <1>11, <1>17, <2>1, <2>2, <2>3
  <1>18. CASE /\ SaveOk(d) /\ Become(k2)
              /\ sent' = IF c.phase \in Mutation /\ sent[<<r, t, c.phase>>] < 2
                         THEN [sent EXCEPT ![<<r, t, c.phase>>] = @ + 1] ELSE sent
    <2> HIDE DEF k2
    <2>1. book' = d /\ receipt' = NoReceipt /\ disk' = d
      BY <1>15, <1>18 DEF Become, SaveOk
    <2>2. ASSUME NEW s \in Slots, sent'[<<s[1], s[2], "Apply">>] # sent[<<s[1], s[2], "Apply">>]
          PROVE  s = s0 /\ disk'.tgt[s].attempted
      <3>1. sent' = [sent EXCEPT ![<<r, t, c.phase>>] = sent[<<r, t, c.phase>>] + 1]
        BY <1>18, <2>2
      <3> HIDE DEF t, c
      <3>2. <<s[1], s[2], "Apply">> = <<r, t, c.phase>>  BY <2>2, <3>1
      <3>3. s[1] = r /\ s[2] = t  BY <3>2
      <3>4. s = s0  BY <3>3 DEF Slots
      <3>5. disk'.tgt[s] = e  BY <1>9, <2>1, <3>4
      <3> QED BY <1>5, <3>4, <3>5
    <2>3. t = book.run[r].cur  BY <1>2
    <2>4. sent'[<<r, t, "Apply">>] > 0
      <3> DEFINE x == <<r, t, "Apply">>
      <3>1. x \in Runs \X Targets \X Mutation /\ "Apply" \in Mutation
        BY <1>3 DEF Slots, Mutation
      <3>2. sent \in [Runs \X Targets \X Mutation -> 0..2]  BY Start DEF RunInv, Outer
      <3>3. sent' = IF sent[x] < 2 THEN [sent EXCEPT ![x] = sent[x] + 1] ELSE sent
        BY <1>2, <1>18, <3>1
      <3> HIDE DEF x
      <3>4. sent[x] \in 0..2  BY <3>1, <3>2
      <3>5. sent'[x] > 0  BY <3>1, <3>2, <3>3, <3>4
      <3> QED BY <3>5 DEF x
    <2>5. Spent(r)  BY <2>3, <2>4 DEF Spent
    <2> QED BY <1>11, <2>1, <2>2, <2>3, <2>5
  <1>19. CASE ~error /\ Fail(k3, d, r) /\ sent' = sent
    <2> DEFINE f == FailCurrent(k3.book, r)
               n == [k3 EXCEPT !.book = f]
    <2>1. Become(n) /\ Save(f, d)  BY <1>19 DEF Fail
    <2>2. f = FailCurrent(d, r)  BY <1>16
    <2>3. k3 \in Hands
      <3> HIDE DEF m
      <3>1. NoReceipt \in Receipts  BY DEF Receipts
      <3> QED BY <1>2, <1>6, <1>8, <3>1 DEF Hands
    <2> HIDE DEF f, k3
    <2>4. n.book = f /\ n.receipt = NoReceipt  BY <1>16, <2>3 DEF Hands
    <2> HIDE DEF n
    <2>5. book' = f /\ receipt' = NoReceipt  BY <2>1, <2>4 DEF Become
    <2>6. disk' = f \/ disk' = d  BY <2>1 DEF Save, SaveOk, SaveFails
    <2>7. Spent(r)  BY <1>1, <1>8, <2>2, <2>5, FailEnds DEF Spent, Unfinished
    <2> QED BY <1>11, <1>13, <1>19, <2>2, <2>5, <2>6, <2>7
  <1> QED BY <1>7, <1>17, <1>18, <1>19

\* So it is however the frame ends.
LEMMA GrantStamps ==
  ASSUME TeamInv, NEW r, Granted(r),
         \/ Drive(Grant(r), SetPhase(book, r, "Apply"), r)
         \/ SaveFails(disk) /\ UNCHANGED sent /\ Become(Refusal(r))
  PROVE  /\ Stamped(book', r) /\ Stamped(disk', r) /\ receipt' = NoReceipt /\ Spent(r)
         /\ \A s \in Slots : sent'[<<s[1], s[2], "Apply">>] # sent[<<s[1], s[2], "Apply">>] =>
              s = <<r, book.run[r].cur>> /\ disk'.tgt[s].attempted
  <1> DEFINE m == Grant(r)
             b == SetPhase(book, r, "Apply")
             x == SetPhase(b, r, "Review")
             n == [m EXCEPT !.book = x, !.receipt = NoReceipt]
  <1>1. r \in Runs /\ book = disk  BY GrantedIs
  <1>2. /\ b \in Book /\ Alike(book, b, r) /\ m \in Hands
        /\ Refusal(r).book = b /\ Refusal(r).receipt = NoReceipt
    BY GrantIs
  <1>3. Stamped(b, r) /\ Stamped(disk, r)
    BY <1>1, <1>2, StampedGoesOn, AlikeSelf
  <1>6. ASSUME NEW d, Alike(book, d, r), disk' = d PROVE Spent(r)
    <2>1. <<r, book.run[r].cur>> \in Slots  BY GrantedIs
    <2> QED BY <1>6, <2>1 DEF Spent, Alike, SameClaims
  <1>4. CASE SaveFails(disk) /\ UNCHANGED sent /\ Become(Refusal(r))
    <2>1. book' = b /\ receipt' = NoReceipt /\ disk' = disk
      BY <1>2, <1>4 DEF Become, SaveFails
    <2>2. Spent(r)  BY <1>1, <1>6, <2>1, AlikeSelf
    <2> QED BY <1>3, <1>4, <2>1, <2>2
  <1>5. CASE Drive(m, b, r)
    <2>1. /\ NeedsReceipt(b, r)
          /\ BackToReview(r) \/ Dispatch(m, b, r)
      BY <1>5, GrantDrives
    <2>2. CASE Dispatch(m, b, r)
      <3> HIDE DEF b
      <3>1. b = SetPhase(book, r, "Apply")  BY DEF b
      <3> QED BY <2>1, <2>2, <3>1, DispatchStamps
    <2>3. CASE BackToReview(r)
      <3>0. Become(n) /\ Save(x, b) /\ UNCHANGED sent  BY <2>3 DEF BackToReview
      <3>1. Alike(b, x, r)
        <4>1. "Review" \in Phases  BY DEF Phases
        <4> HIDE DEF b
        <4> QED BY <1>1, <1>2, <4>1, PhaseAlike
      <3>2. Stamped(x, r) /\ Alike(book, x, r)
        BY <1>1, <1>2, <1>3, <3>1, StampedGoesOn, AlikeChains
      <3> HIDE DEF x, m
      <3>3. n.book = x /\ n.receipt = NoReceipt  BY <1>2 DEF Hands
      <3> HIDE DEF n
      <3>4. book' = x /\ receipt' = NoReceipt  BY <3>0, <3>3 DEF Become
      <3>5. disk' = x \/ disk' = b  BY <3>0 DEF Save, SaveOk, SaveFails
      <3>6. Spent(r)  BY <1>2, <1>6, <3>2, <3>5
      <3> QED BY <1>3, <3>0, <3>2, <3>4, <3>5, <3>6
    <2> QED BY <2>1, <2>2, <2>3
  <1> QED BY <1>4, <1>5

\* The file says what the server approved, and reports nothing new.
LEMMA StampedJournals ==
  ASSUME TeamInv, NEW r, Granted(r), Effect, Stamped(disk', r), UNCHANGED serverVars,
         \A s \in Slots : sent'[<<s[1], s[2], "Apply">>] # sent[<<s[1], s[2], "Apply">>] =>
           s = <<r, book.run[r].cur>> /\ disk'.tgt[s].attempted
  PROVE  Journals'
  <1> DEFINE s0 == <<r, book.run[r].cur>>
  <1>1. /\ book = disk /\ s0 \in Slots /\ disk.tgt[s0].phase = "Review"
        /\ s0 = <<worker.binding.run, worker.binding.tgt>> /\ worker.req \in Approvals
        /\ approval[worker.req].state = "consumed" /\ approval[worker.req].binding = worker.binding
    BY GrantedIs DEF Cur
  <1>2. Approved /\ Attempts /\ Eventful /\ CentralMatchesJournal /\ SP!Inv
    BY DEF TeamInv, Journals
  <1>3. disk.tgt[s0].event = NoEvent /\ ~disk.tgt[s0].delivered
    BY <1>1, <1>2 DEF Eventful, Settled
  <1>4. approval' = approval /\ outcome' = outcome /\ S!NoOutcome' = S!NoOutcome
    BY DEF serverVars, S!NoOutcome
  <1>5. \A s \in Slots :
          /\ disk'.tgt[s].event = disk.tgt[s].event /\ disk'.tgt[s].delivered = disk.tgt[s].delivered
          /\ \/ SameClaims(disk'.tgt[s], disk.tgt[s])
             \/ s = s0 /\ disk'.tgt[s].attempted /\ disk'.tgt[s].approval = worker.req
          /\ disk.tgt[s].phase \in Settled => disk'.tgt[s].phase = disk.tgt[s].phase
    BY <1>1 DEF Stamped, Effect, Onward
  <1>6. \A q \in Runs : disk'.run[q].team = disk.run[q].team  BY <1>1 DEF Stamped
  <1>7. s0[1] = worker.binding.run /\ s0[2] = worker.binding.tgt  BY <1>1
  <1> HIDE DEF s0
  <1>8. Approved'  BY <1>1, <1>2, <1>4, <1>5, <1>7 DEF Approved, SameClaims
  <1>9. Attempts'
    <2> SUFFICES ASSUME NEW s \in Slots, disk'.run[s[1]].team, sent'[<<s[1], s[2], "Apply">>] > 0
                 PROVE  disk'.tgt[s].attempted
      BY DEF Attempts
    <2>1. CASE sent'[<<s[1], s[2], "Apply">>] # sent[<<s[1], s[2], "Apply">>]  BY <2>1
    <2>2. CASE sent'[<<s[1], s[2], "Apply">>] = sent[<<s[1], s[2], "Apply">>]
      <3>1. s[1] \in Runs  BY DEF Slots
      <3>2. disk.tgt[s].attempted  BY <1>2, <1>6, <2>2, <3>1 DEF Attempts
      <3> QED BY <1>5, <3>2 DEF SameClaims
    <2> QED BY <2>1, <2>2
  <1>10. Eventful'  BY <1>2, <1>5 DEF Eventful
  <1>11. CentralMatchesJournal'
    <2>1. ASSUME NEW s \in Slots, s # s0 PROVE SameClaims(disk'.tgt[s], disk.tgt[s])
      BY <1>5, <2>1
    <2>2. ASSUME NEW q \in Approvals, outcome[q] # S!NoOutcome
          PROVE  LET s == <<outcome[q].run, outcome[q].tgt>> IN
                 /\ disk'.tgt[s].approval = q /\ disk'.tgt[s].phase = outcome[q].result
                 /\ disk'.tgt[s].event.result = outcome[q].result
                 /\ outcome[q].id = EventNo(s, disk'.tgt[s].event.boot)
      <3> DEFINE s == <<outcome[q].run, outcome[q].tgt>>
      <3>1. /\ disk.tgt[s].approval = q /\ disk.tgt[s].phase = outcome[q].result
            /\ disk.tgt[s].event.result = outcome[q].result
            /\ outcome[q].id = EventNo(s, disk.tgt[s].event.boot)
        BY <1>2, <2>2 DEF CentralMatchesJournal
      <3>2. s \in Slots /\ outcome[q].result \in Settled  BY <1>2, <2>2, OutcomeSlot
      <3> HIDE DEF s
      <3>3. s # s0  BY <1>1, <3>1, <3>2 DEF Settled
      <3>4. SameClaims(disk'.tgt[s], disk.tgt[s]) /\ disk'.tgt[s].phase = disk.tgt[s].phase
        BY <1>5, <2>1, <3>1, <3>2, <3>3
      <3>5. /\ disk'.tgt[s].approval = q /\ disk'.tgt[s].phase = outcome[q].result
            /\ disk'.tgt[s].event.result = outcome[q].result
            /\ outcome[q].id = EventNo(s, disk'.tgt[s].event.boot)
        BY <3>1, <3>4 DEF SameClaims
      <3> QED BY <3>5 DEF s
    <2>3. ASSUME NEW s \in Slots, disk'.tgt[s].delivered
          PROVE  outcome[disk'.tgt[s].approval].id = EventNo(s, disk'.tgt[s].event.boot)
      <3>1. s # s0 /\ disk.tgt[s].delivered  BY <1>3, <1>5, <2>3
      <3> QED BY <1>2, <2>1, <3>1 DEF CentralMatchesJournal, SameClaims
    <2> QED BY <1>4, <2>2, <2>3 DEF CentralMatchesJournal
  <1> QED BY <1>8, <1>9, <1>10, <1>11 DEF Journals

\* What is known of a change that a frame sends under team control.
OnAnswer ==
  \A s \in Slots :
    sent'[<<s[1], s[2], "Apply">>] # sent[<<s[1], s[2], "Apply">>] /\ book.run[s[1]].team =>
      /\ worker.kind = "consume" /\ worker.res = "done" /\ worker.gen = gen
      /\ worker.binding.run = s[1] /\ worker.binding.tgt = s[2]
      /\ reviewed /\ worker' = NoWorker

\* What stands in the file: authority for good, an approval once it is there; and where
\* there is a new one, the target was in review.
Stands ==
  /\ \A q \in Runs : disk.run[q].kind # "none" => disk'.run[q].team = disk.run[q].team
  /\ \A s \in Slots : disk'.tgt[s].approval # disk.tgt[s].approval =>
       disk.tgt[s].approval = NoApproval /\ disk.tgt[s].phase = "Review"

\* What is nothing of the team's is no change of its own, and all stands.
LEMMA AsideStands == Aside => OnAnswer /\ Stands
  BY DEF Aside, LocalOnly, SameUses, OnAnswer, Stands

\* What waits for the answer was not attempted before.
LEMMA GrantedIsNew ==
  ASSUME TeamInv, NEW r, Granted(r)
  PROVE  LET s == <<r, book.run[r].cur>> IN
         ~disk.tgt[s].attempted /\ disk.tgt[s].approval = NoApproval
  <1> DEFINE s == <<r, book.run[r].cur>>
  <1>1. /\ r \in Runs /\ Unfinished(book, r) /\ book = disk /\ s \in Slots /\ ~error
        /\ book.tgt[s].phase = "Review"
    BY GrantedIs DEF Cur
  <1>2. Told(restart, book, sent) /\ Consistent(disk)  BY <1>1, Known, Start
  <1>3. s[1] = r /\ s[2] = book.run[r].cur /\ s[2] \in Targets  BY <1>1 DEF Slots
  <1>4. sent[<<s[1], s[2], "Apply">>] = 0  BY <1>1, <1>2, <1>3 DEF Told, Tally
  <1> HIDE DEF s
  <1>5. ~disk.tgt[s].attempted  BY <1>1, <1>3, <1>4 DEF TeamInv, Opening, Unsent
  <1> QED BY <1>1, <1>2, <1>5 DEF Consistent, s

\* The good answer to a consume, taken.
LEMMA TakeConsumedStep ==
  ASSUME TeamInv, worker.res = "done", worker.gen = gen, SameTarget, TakeConsumed,
         worker' = NoWorker, UNCHANGED <<token, serverVars>>
  PROVE  TeamInv' /\ Effect /\ OnAnswer /\ Stands
  <1> USE Start
  <1> DEFINE r == selected
  <1>1. CASE view' = NoView /\ receipt' = NoReceipt /\ Unchanged
    <2>1. TeamInv' /\ Effect /\ Aside  BY <1>1, AnswerPutAway DEF Unchanged
    <2> QED BY <2>1, AsideStands
  <1>2. CASE /\ reviewed /\ Bindable(book, r) /\ Binding(book, r) = worker.binding
             /\ \/ Drive(Grant(r), SetPhase(book, r, "Apply"), r)
                \/ SaveFails(disk) /\ UNCHANGED sent /\ Become(Refusal(r))
             /\ UNCHANGED <<selected, gen, ghosts, envVars, view>>
    <2>1. r \in Runs
      <3>1. worker.binding \in Cited  BY DEF TakeConsumed, TeamInv, Asking
      <3>2. worker.binding.run # NoRun  BY <3>1 DEF Cited, Runs, NoRun
      <3> QED BY <3>1, <3>2 DEF SameTarget, Cited
    <2>2. Granted(r)  BY <1>2, <2>1 DEF TakeConsumed, Granted
    <2>3. RunInv' /\ Effect  BY <1>2, <2>2, GrantHandled
    <2>4. /\ Stamped(book', r) /\ Stamped(disk', r) /\ receipt' = NoReceipt /\ Spent(r)
          /\ \A s \in Slots : sent'[<<s[1], s[2], "Apply">>] # sent[<<s[1], s[2], "Apply">>] =>
               s = <<r, book.run[r].cur>> /\ disk'.tgt[s].attempted
      BY <1>2, <2>2, GrantStamps
    <2>5. Journals'  BY <2>2, <2>3, <2>4, StampedJournals
    <2>6. SP!Inv'
      <3>1. SP!Inv' /\ ServerGrows  BY ServerStep DEF TeamInv
      <3> QED BY <3>1
    <2>7. Opening'
      <3>1. book = disk  BY <2>2, GrantedIs
      <3>2. ASSUME NEW s \in Slots, disk'.tgt[s].attempted,
                   sent'[<<s[1], s[2], "Apply">>] = 0
            PROVE  ~Unfinished(book', s[1])
        <4>1. s[1] \in Runs /\ s = <<s[1], s[2]>>  BY DEF Slots
        <4>2. CASE book.tgt[s].attempted
          <5>1. sent[<<s[1], s[2], "Apply">>] = 0  BY <2>3, <3>2, SentStays
          <5>2. ~Unfinished(book, s[1])
            BY <3>1, <4>2, <5>1 DEF TeamInv, Opening, Unsent
          <5> QED BY <2>4, <4>1, <5>2 DEF Stamped
        <4>3. CASE ~book.tgt[s].attempted
          <5>1. s = <<r, book.run[r].cur>>
            BY <2>4, <3>2, <4>3 DEF Stamped, SameClaims
          <5>2. s[1] = r /\ s[2] = book.run[r].cur  BY <5>1
          <5> QED BY <2>4, <3>2, <4>3, <5>1, <5>2 DEF Spent
        <4> QED BY <4>2, <4>3
      <3>3. Unsent'  BY <3>2 DEF Unsent, Unfinished
      <3>4. Kinded(book') /\ Kinded(disk') /\ Latest(book')
        BY <2>4 DEF Kinded, Latest, Stamped
      <3> QED BY <3>3, <3>4 DEF Opening
    <2>8. NoWorker.kind = "none" /\ NoWorker.gen = 0  BY DEF NoWorker
    <2>9. Client'  BY <1>2, <2>4, <2>8 DEF TeamInv, Client
    <2>10. Asking' /\ Consuming' /\ Reporting'  BY <2>8 DEF Asking, Consuming, Reporting
    <2>11. OnAnswer
      <3>1. <<r, book.run[r].cur>> = <<worker.binding.run, worker.binding.tgt>>
        BY <2>2, GrantedIs
      <3> QED BY <1>2, <2>4, <3>1 DEF OnAnswer, TakeConsumed
    <2>12. Stands
      <3> DEFINE s0 == <<r, book.run[r].cur>>
      <3>1. book = disk /\ book.tgt[s0].phase = "Review" /\ s0 \in Slots
        BY <2>2, GrantedIs DEF Cur
      <3>2. disk.tgt[s0].approval = NoApproval  BY <2>2, GrantedIsNew
      <3> HIDE DEF s0
      <3>3. ASSUME NEW s \in Slots, s # s0 PROVE disk'.tgt[s].approval = disk.tgt[s].approval
        BY <2>4, <3>1, <3>3 DEF Stamped, SameClaims, s0
      <3>4. \A q \in Runs : disk'.run[q].team = disk.run[q].team  BY <2>4, <3>1 DEF Stamped
      <3> QED BY <3>1, <3>2, <3>3, <3>4 DEF Stands
    <2> QED BY <2>3, <2>5, <2>6, <2>7, <2>9, <2>10, <2>11, <2>12 DEF TeamInv
  <1> QED BY <1>1, <1>2 DEF TakeConsumed, Grant, Refusal, Receipt
-----------------------------------------------------------------------------
(* Every step.                                                             *)

\* The frame: an approval of another identity is forgotten, the worker's answer is
\* taken or put away, and the outcomes are synced.
LEMMA FrameStep ==
  ASSUME TeamInv, TeamFrame
  PROVE  TeamInv' /\ Effect /\ OnAnswer /\ Stands
  <1>1. view \in Views \cup {NoView} /\ NoView \in Views \cup {NoView} /\ receipt = NoReceipt
    BY DEF TeamInv, Client
  <1>2. ASSUME TeamInv' /\ Effect /\ Aside PROVE TeamInv' /\ Effect /\ OnAnswer /\ Stands
    BY <1>2, AsideStands
  <1>3. CASE ForgetApproval
    <2>1. TeamInv' /\ Effect /\ Aside  BY <1>1, <1>3, AnswerPutAway DEF ForgetApproval
    <2> QED BY <1>2, <2>1
  <1>4. CASE PollWorker
    <2>1. worker' = NoWorker /\ UNCHANGED <<token, serverVars>>  BY <1>4 DEF PollWorker
    <2>2. CASE TakeNothing /\ Unchanged
      <3>1. view' \in Views \cup {NoView} /\ receipt' = NoReceipt
        BY <1>1, <2>2 DEF TakeNothing
      <3>2. TeamInv' /\ Effect /\ Aside  BY <2>1, <2>2, <3>1, AnswerPutAway DEF Unchanged
      <3> QED BY <1>2, <3>2
    <2>3. CASE /\ worker.gen = gen /\ SameTarget /\ worker.res = "done"
               /\ TakeMode \/ TakeApproval \/ TakeConsumed \/ TakeOutcome
      <3>1. CASE TakeConsumed  BY <2>1, <2>3, <3>1, TakeConsumedStep
      <3>2. CASE TakeMode \/ TakeApproval \/ TakeOutcome
        <4>1. TeamInv' /\ Effect /\ Aside
          BY <2>1, <2>3, <3>2, TakeModeStep, TakeApprovalStep, TakeOutcomeStep
        <4> QED BY <1>2, <4>1
      <3> QED BY <2>3, <3>1, <3>2
    <2> QED BY <1>4, <2>2, <2>3 DEF PollWorker
  <1>5. CASE SyncOutcomes
    <2>1. TeamInv' /\ Effect /\ Aside  BY <1>5, SyncOutcomesStep
    <2> QED BY <1>2, <2>1
  <1> QED BY <1>3, <1>4, <1>5 DEF TeamFrame

\* Every step of client, server and everybody else keeps the invariant, does to the
\* journal and the hosts what the engine may do, sends a change under team control only
\* on the answer, and leaves what stands in the file.
LEMMA TeamStep ==
  ASSUME TeamInv, [TeamNext]_allVars
  PROVE  TeamInv' /\ Effect /\ OnAnswer /\ Stands
  <1>1. ASSUME TeamInv' /\ Effect /\ Aside PROVE TeamInv' /\ Effect /\ OnAnswer /\ Stands
    BY <1>1, AsideStands
  <1>2. ASSUME TeamInv' /\ Effect /\ UNCHANGED vars PROVE TeamInv' /\ Effect /\ OnAnswer /\ Stands
    <2>1. sent' = sent /\ disk' = disk  BY <1>2 DEF vars, journalVars, workVars
    <2> QED BY <1>2, <2>1 DEF OnAnswer, Stands
  <1>3. CASE Alone
    <2>1. TeamInv' /\ Effect /\ Aside  BY <1>3, AloneStep
    <2> QED BY <1>1, <2>1
  <1>4. CASE TeamReboot
    <2>1. TeamInv' /\ Effect /\ Aside  BY <1>4, TeamRebootStep
    <2> QED BY <1>1, <2>1
  <1>5. CASE Buttons
    <2>1. TeamInv' /\ Effect /\ Aside  BY <1>5, AskingSteps, SendOutcomeStep DEF Buttons
    <2> QED BY <1>1, <2>1
  <1>6. CASE WorkerCall
    <2>1. TeamInv' /\ Effect /\ UNCHANGED vars  BY <1>6, WorkerCallStep
    <2> QED BY <1>2, <2>1
  <1>7. CASE TeamFrame  BY <1>7, FrameStep
  <1>8. CASE Outside
    <2>1. TeamInv' /\ Effect /\ UNCHANGED vars  BY <1>8, OutsideStep
    <2> QED BY <1>2, <2>1
  <1>9. CASE UNCHANGED allVars
    <2>1. UNCHANGED <<vars, teamVars, serverVars>>  BY <1>9 DEF allVars
    <2>2. UNCHANGED <<journalVars, selected, reviewed, receipt, workVars, envVars, serverVars>>
      BY <2>1 DEF vars, uiVars
    <2>3. UNCHANGED <<gen, view, worker, token>>  BY <2>1 DEF vars, uiVars, teamVars
    <2>4. view' \in Views \cup {NoView} /\ receipt' = NoReceipt
      BY <2>2, <2>3 DEF TeamInv, Client
    <2>5. TeamInv' /\ Effect /\ Aside  BY <2>2, <2>3, <2>4, AnswerPutAway
    <2> QED BY <1>1, <2>5
  <1> QED BY <1>3, <1>4, <1>5, <1>6, <1>7, <1>8, <1>9 DEF TeamNext

\* Client and server start with nothing asked for and nothing on record.
LEMMA TeamInitGood == TeamInit => TeamInv
  <1> SUFFICES ASSUME TeamInit PROVE TeamInv
    OBVIOUS
  <1>1. Init /\ token = NoToken /\ view = NoView /\ worker = NoWorker /\ S!Init
    BY DEF TeamInit
  <1>2. RunInv  BY <1>1, InitGood
  <1>3. SP!Init
    BY <1>1 DEF S!Init, S!NoRow, S!NoOutcome, S!AuditKinds, S!NoBinding,
                SP!Init, SP!NoRow, SP!NoOutcome, SP!AuditKinds, SP!NoBinding
  <1>4. SP!Inv  BY <1>3, ServerAssumption, SP!InvInit
  <1>5. NoWorker.kind = "none" /\ NoWorker.gen = 0  BY DEF NoWorker
  <1>6. Client  BY <1>1, <1>5, TeamAssumption DEF Init, Client
  <1>7. Asking /\ Consuming /\ Reporting  BY <1>1, <1>5 DEF Asking, Consuming, Reporting
  <1>8. /\ TeamBook \in BOOLEAN
        /\ book = [team |-> TeamBook, run |-> [r \in Runs |-> NoRunYet],
                   tgt |-> [s \in Slots |-> NewTarget]]
        /\ disk = book
    BY <1>1, RunAssumption DEF Init, Empty
  <1>9. /\ \A s \in Slots : disk.tgt[s] = NewTarget
        /\ \A r \in Runs : /\ book.run[r].kind = "none" /\ ~Unfinished(book, r)
                           /\ ~book.run[r].team
    <2>1. \A r \in Runs : book.run[r].kind = "none" /\ ~Unfinished(book, r)
      BY <1>8, EmptyGood
    <2>2. \A r \in Runs : ~book.run[r].team  BY <1>8 DEF NoRunYet
    <2> QED BY <1>8, <2>1, <2>2
  <1>10. /\ \A s \in Slots : /\ ~disk.tgt[s].attempted /\ ~disk.tgt[s].delivered
                             /\ disk.tgt[s].event = NoEvent
    BY <1>9 DEF NewTarget
  <1>11. ASSUME NEW s \in Slots PROVE sent[<<s[1], s[2], "Apply">>] = 0
    <2>1. <<s[1], s[2], "Apply">> \in Runs \X Targets \X Mutation  BY DEF Slots, Mutation
    <2> QED BY <1>1, <2>1 DEF Init
  <1>12. \A q \in Approvals : outcome[q] = S!NoOutcome  BY <1>1 DEF S!Init
  <1>13. Journals
    BY <1>10, <1>11, <1>12 DEF Journals, Approved, Attempts, Eventful, CentralMatchesJournal
  <1>14. Opening  BY <1>8, <1>9, <1>10 DEF Opening, Kinded, Latest, Unsent
  <1> QED BY <1>2, <1>4, <1>6, <1>7, <1>13, <1>14 DEF TeamInv
-----------------------------------------------------------------------------
(* The promise: the rollout under permits.  The server's steps are the     *)
(* permits' and the records', the client's are the rollout's work.         *)

\* What the promise sees of the state.
Dones      == [s \in Slots |-> DoneTo(s)]
VerdictsOf == [s \in Slots |-> VerdictOn(s)]
Controlled == {r \in Runs : disk.run[r].team}
PermitOf   == [q \in Approvals |-> Permit(q)]
Under      == [s \in Slots |-> disk.tgt[s].approval]
OnRecord   == [q \in Approvals |-> outcome[q].result]

\* A call of the worker is a step of the server, or none.
LEMMA CallServes ==
  ASSUME TeamInv, WorkerCall
  PROVE  SP!Next \/ UNCHANGED serverVars
  <1>1. SP!Inv /\ Client /\ Asking /\ Reporting /\ Eventful  BY DEF TeamInv, Journals
  <1>2. disk \in Book /\ Consistent(disk)  BY Known DEF TeamInv
  <1>3. CASE CallFails \/ CallMode  BY <1>3 DEF CallFails, CallMode
  <1>4. CASE CallRequest  BY <1>1, <1>4, RequestMoves
  <1>5. CASE CallCheck  BY <1>1, <1>5, CheckMoves
  <1>6. CASE CallConsume  BY <1>1, <1>6, ConsumeMoves
  <1>7. CASE CallOutcome  BY <1>1, <1>2, <1>7, ReportMoves
  <1> QED BY <1>3, <1>4, <1>5, <1>6, <1>7 DEF WorkerCall

\* A step is the client's, or the server's.
LEMMA ServerMoves ==
  ASSUME TeamInv, [TeamNext]_allVars
  PROVE  UNCHANGED serverVars \/ (UNCHANGED vars /\ SP!Next)
  <1>1. CASE Alone \/ TeamReboot  BY <1>1 DEF Alone, TeamReboot
  <1>2. CASE Buttons
    BY <1>2 DEF Buttons, EnableTeam, RequestApproval, CheckDecision, ConsumeApproval,
                SendOutcome, ChangeIdentity
  <1>3. CASE WorkerCall  BY <1>3, CallServes DEF WorkerCall
  <1>4. CASE TeamFrame
    BY <1>4 DEF TeamFrame, ForgetApproval, PollWorker, SyncOutcomes
  <1>5. CASE Outside  BY <1>5, OutsideMoves DEF Outside, TeamInv
  <1>6. CASE UNCHANGED allVars  BY <1>6 DEF allVars
  <1> QED BY <1>1, <1>2, <1>3, <1>4, <1>5, <1>6 DEF TeamNext

\* Who is behind a token is a person, and nobody is behind no token.
LEMMA PersonIs ==
  /\ Person(NoToken) = NoToken
  /\ \A k \in Tokens : Person(k) = Owner[k] /\ Person(k) \in {Owner[x] : x \in Tokens}
  BY TeamAssumption DEF Person

\* Where the client stands still, so does its side of the promise.
LEMMA ClientStill ==
  ASSUME UNCHANGED vars
  PROVE  UNCHANGED <<Dones, VerdictsOf, Controlled, Under>>
  <1>1. sent' = sent /\ disk' = disk  BY DEF vars, journalVars, workVars
  <1> QED BY <1>1 DEF Dones, VerdictsOf, Controlled, Under, DoneTo, VerdictOn

\* The hosts of the promise are the targets of the runs.
LEMMA HostsAreSlots == Governed!Hosts = Slots
  BY DEF Governed!Hosts, Slots, Targets

\* What the server has on an approval, as a permit.
LEMMA PermitIs ==
  ASSUME SP!Inv, NEW q \in Approvals
  PROVE  /\ PermitOf[q].state = approval[q].state
         /\ PermitOf[q].host = <<approval[q].binding.run, approval[q].binding.tgt>>
         /\ ~SP!Exists(q) => PermitOf[q] = Governed!NotAsked
         /\ SP!Exists(q) =>
              /\ PermitOf[q].by = Owner[approval[q].by] /\ approval[q].by \in Tokens
              /\ PermitOf[q].host \in Slots
  <1>1. approval[q] \in SP!Rows  BY DEF SP!Inv, SP!TypeOK
  <1>2. PermitOf[q] = Permit(q)  BY DEF PermitOf
  <1>3. ASSUME ~SP!Exists(q) PROVE PermitOf[q] = Governed!NotAsked
    <2>1. approval[q] = SP!NoRow  BY <1>1, <1>3 DEF SP!Rows, SP!Exists
    <2> QED BY <1>2, <2>1, PersonIs DEF Permit, SP!NoRow, SP!NoBinding, Governed!NotAsked
  <1>4. ASSUME SP!Exists(q)
        PROVE  /\ PermitOf[q].by = Owner[approval[q].by] /\ approval[q].by \in Tokens
               /\ PermitOf[q].host \in Slots
    <2>1. approval[q].binding \in Cited /\ approval[q].by \in Tokens
      BY <1>1, <1>4 DEF SP!Rows, SP!Exists, SP!NoRow
    <2> QED BY <1>2, <2>1, PersonIs DEF Permit, Cited, Slots
  <1> QED BY <1>2, <1>3, <1>4 DEF Permit

\* A permit is a record of four fields, and changes field by field.
LEMMA PermitRecord ==
  ASSUME NEW q, NEW v, NEW p
  PROVE  /\ [Permit(q) EXCEPT !.state = v] =
              [state |-> v, by |-> Permit(q).by, decider |-> Permit(q).decider,
               host |-> Permit(q).host]
         /\ [Permit(q) EXCEPT !.state = v, !.decider = p] =
              [state |-> v, by |-> Permit(q).by, decider |-> p, host |-> Permit(q).host]
  <1>1. PICK x : x = [Permit(q) EXCEPT !.state = v]  OBVIOUS
  <1>2. x = [state |-> v, by |-> Permit(q).by, decider |-> Permit(q).decider,
             host |-> Permit(q).host]
    BY <1>1 DEF Permit
  <1>3. [x EXCEPT !.decider = p] =
          [state |-> v, by |-> Permit(q).by, decider |-> p, host |-> Permit(q).host]
    BY <1>2
  <1>4. [Permit(q) EXCEPT !.state = v, !.decider = p] = [x EXCEPT !.decider = p]  BY <1>1
  <1> QED BY <1>1, <1>2, <1>3, <1>4

\* Writing off what is open lets its permits lapse.
LEMMA ExpireLapses ==
  ASSUME SP!Inv, NEW Q \in SUBSET {q \in Approvals : SP!Open(q)}, SP!Expire(Q)
  PROVE  Governed!Lapse(Q)
  <1>1. \A q \in Q : PermitOf[q].state \in {"pending", "approved"}  BY PermitIs DEF SP!Open
  <1>2. approval \in [Approvals -> SP!Rows]  BY DEF SP!Inv, SP!TypeOK
  <1>3. \A q \in Approvals : approval'[q] =
          IF q \in Q THEN [approval[q] EXCEPT !.state = "expired"] ELSE approval[q]
    BY DEF SP!Expire
  <1>4. ASSUME NEW q \in Approvals
        PROVE  Permit(q)' = IF q \in Q THEN [Permit(q) EXCEPT !.state = "expired"] ELSE Permit(q)
    <2>1. CASE q \in Q
      <3>1. approval[q] \in SP!Rows /\ approval'[q] = [approval[q] EXCEPT !.state = "expired"]
        BY <1>2, <1>3, <2>1
      <3>2. /\ approval'[q].state = "expired" /\ approval'[q].by = approval[q].by
            /\ approval'[q].decider = approval[q].decider
            /\ approval'[q].binding = approval[q].binding
        BY <3>1 DEF SP!Rows, SP!NoRow
      <3>3. Permit(q)' = [Permit(q) EXCEPT !.state = "expired"]  BY <3>2 DEF Permit, Person
      <3> QED BY <2>1, <3>3
    <2>2. CASE q \notin Q  BY <1>3, <2>2 DEF Permit, Person
    <2> QED BY <2>1, <2>2
  <1> QED BY <1>1, <1>4 DEF Governed!Lapse, PermitOf

\* A request that is created asks for a permit.
LEMMA CreateAsks ==
  ASSUME SP!Inv, NEW k \in Tokens, NEW q \in Approvals, NEW b \in Cited, SP!Create(k, q, b)
  PROVE  <<b.run, b.tgt>> \in Slots /\ Governed!Ask(q, <<b.run, b.tgt>>, Owner[k])
  <1>1. PermitOf[q] = Governed!NotAsked  BY PermitIs DEF SP!Create
  <1>2. approval \in [Approvals -> SP!Rows]  BY DEF SP!Inv, SP!TypeOK
  <1>3. /\ approval'[q] = [state |-> "pending", binding |-> b, by |-> k, decider |-> NoToken]
        /\ \A p \in Approvals : p # q => approval'[p] = approval[p]
    BY <1>2 DEF SP!Create
  <1>4. Permit(q)' = [state |-> "pending", host |-> <<b.run, b.tgt>>, by |-> Owner[k],
                      decider |-> NoToken]
    BY <1>3, PersonIs, TeamAssumption DEF Permit, Person
  <1>5. \A p \in Approvals : p # q => Permit(p)' = Permit(p)  BY <1>3 DEF Permit, Person
  <1>6. PermitOf' = [PermitOf EXCEPT ![q] =
            [state |-> "pending", host |-> <<b.run, b.tgt>>, by |-> Owner[k], decider |-> NoToken]]
    BY <1>4, <1>5 DEF PermitOf
  <1>7. <<b.run, b.tgt>> \in Slots  BY DEF Cited, Slots
  <1> QED BY <1>1, <1>6, <1>7 DEF Governed!Ask, PermitOf

\* A decision is the judgement of somebody else.
LEMMA DecideJudges ==
  ASSUME SP!Inv, NEW k \in Tokens, NEW q \in Approvals, NEW v \in {"approved", "denied"},
         SP!Decided(k, q, v)
  PROVE  Governed!Judge(q, Owner[k], v)
  <1>1. PermitOf[q].state = "pending" /\ Owner[k] # PermitOf[q].by
    BY PermitIs DEF SP!Decided, SP!Exists
  <1>2. /\ approval'[q].state = v /\ approval'[q].decider = k
        /\ approval'[q].by = approval[q].by /\ approval'[q].binding = approval[q].binding
        /\ \A p \in Approvals : p # q => approval'[p] = approval[p]
    BY SP!RowFacts DEF SP!Decided, SP!Inv, SP!TypeOK, SP!Exists
  <1>3. Permit(q)' = [Permit(q) EXCEPT !.state = v, !.decider = Owner[k]]
    <2>1. Permit(q)' = [state |-> v, by |-> Permit(q).by, decider |-> Owner[k],
                        host |-> Permit(q).host]
      BY <1>2, PersonIs DEF Permit, Person
    <2>2. [Permit(q) EXCEPT !.state = v, !.decider = Owner[k]] =
            [state |-> v, by |-> Permit(q).by, decider |-> Owner[k], host |-> Permit(q).host]
      BY PermitRecord
    <2> QED BY <2>1, <2>2
  <1>4. \A p \in Approvals : p # q => Permit(p)' = Permit(p)  BY <1>2 DEF Permit, Person
  <1>5. PermitOf' = [PermitOf EXCEPT ![q] = [Permit(q) EXCEPT !.state = v, !.decider = Owner[k]]]
    BY <1>3, <1>4 DEF PermitOf
  <1>6. PermitOf' = [PermitOf EXCEPT ![q].state = v, ![q].decider = Owner[k]]
    BY <1>5 DEF PermitOf
  <1> QED BY <1>1, <1>6 DEF Governed!Judge, PermitOf

\* A use that is granted uses the permit up.
LEMMA ConsumeUses ==
  ASSUME SP!Inv, NEW q \in Approvals, SP!Consumed(q)
  PROVE  Governed!Use(q)
  <1>1. PermitOf[q].state = "approved"  BY PermitIs DEF SP!Consumed
  <1>2. /\ approval'[q].state = "consumed" /\ approval'[q].decider = approval[q].decider
        /\ approval'[q].by = approval[q].by /\ approval'[q].binding = approval[q].binding
        /\ \A p \in Approvals : p # q => approval'[p] = approval[p]
    BY SP!RowFacts DEF SP!Consumed, SP!Inv, SP!TypeOK, SP!Exists
  <1>3. Permit(q)' = [Permit(q) EXCEPT !.state = "consumed"]
    BY <1>2 DEF Permit, Person
  <1>4. \A p \in Approvals : p # q => Permit(p)' = Permit(p)  BY <1>2 DEF Permit, Person
  <1>5. PermitOf' = [PermitOf EXCEPT ![q].state = "consumed"]  BY <1>3, <1>4 DEF PermitOf
  <1> QED BY <1>1, <1>5 DEF Governed!Use, PermitOf

\* A report puts the verdict of the host on record that was changed under the permit.
LEMMA ReportTells ==
  ASSUME TeamInv, CentralMatchesJournal', UNCHANGED vars,
         NEW k \in Tokens, NEW e \in SP!Events, SP!Report(k, e)
  PROVE  e.approval \in Approvals /\ Governed!Tell(e.approval)
  <1> DEFINE q == e.approval
             h == <<e.run, e.tgt>>
  <1>1. q \in Approvals /\ e.result \in Settled  BY DEF SP!Events
  <1>2. /\ approval[q].state = "consumed" /\ outcome[q] = SP!NoOutcome
        /\ e.run = approval[q].binding.run /\ e.tgt = approval[q].binding.tgt
        /\ outcome' = [outcome EXCEPT ![q] = e] /\ approval' = approval
    BY DEF SP!Report
  <1>3. PermitOf[q].host = h /\ h \in Slots
    BY <1>1, <1>2, PermitIs DEF TeamInv, SP!Exists
  <1>4. outcome \in [Approvals -> SP!Events \cup {SP!NoOutcome}]
    BY DEF TeamInv, SP!Inv, SP!TypeOK
  <1>5. outcome'[q] = e /\ \A p \in Approvals : p # q => outcome'[p] = outcome[p]
    <2> HIDE DEF q
    <2> QED BY <1>1, <1>2, <1>4
  <1>6. disk' = disk /\ UNCHANGED <<Dones, VerdictsOf, Controlled, Under>>
    BY ClientStill DEF vars, journalVars
  <1>7. disk.tgt[h].approval = q /\ disk.tgt[h].phase = e.result
    <2>1. outcome'[q] # S!NoOutcome'
      <3>1. e.result # "none"  BY <1>1 DEF Settled
      <3> QED BY <1>5, <3>1 DEF S!NoOutcome
    <2> QED BY <1>1, <1>5, <1>6, <2>1 DEF CentralMatchesJournal
  <1>8. VerdictOn(h) = e.result /\ e.result # "open"  BY <1>1, <1>7 DEF VerdictOn, Settled
  <1>9. OnRecord[q] = "none" /\ OnRecord' = [OnRecord EXCEPT ![q] = e.result]
    BY <1>1, <1>2, <1>5 DEF OnRecord, SP!NoOutcome
  <1>10. PermitOf' = PermitOf  BY <1>2 DEF PermitOf, Permit, Person
  <1>11. Under[h] = q /\ VerdictsOf[h] = e.result
    BY <1>3, <1>7, <1>8 DEF Under, VerdictsOf
  <1> HIDE DEF q, h
  <1>12. Governed!Tell(q)
    BY <1>3, <1>6, <1>8, <1>9, <1>10, <1>11, HostsAreSlots
    DEF Governed!Tell, Governed!ledger, Dones, VerdictsOf, Controlled, Under, PermitOf, OnRecord
  <1> QED BY <1>1, <1>12 DEF q

\* Every step of the server is a step of the promise, or none it sees.
LEMMA ServerGoverned ==
  ASSUME TeamInv, CentralMatchesJournal', UNCHANGED vars, SP!Next
  PROVE  [Governed!GovernedNext]_(Governed!rollout)
  <1> USE DEF Dones, VerdictsOf, Controlled, Under, OnRecord, PermitOf
  <1>1. SP!Inv /\ UNCHANGED <<Dones, VerdictsOf, Controlled, Under>>
    BY ClientStill DEF TeamInv
  <1>2. ASSUME outcome' = outcome,
               \/ \E q \in Approvals, p \in {Owner[k] : k \in Tokens} :
                    \/ \E h \in Governed!Hosts : Governed!Ask(q, h, p)
                    \/ \E v \in {"approved", "denied"} : Governed!Judge(q, p, v)
               \/ \E Q \in SUBSET Approvals : Governed!Lapse(Q)
               \/ \E q \in Approvals : Governed!Use(q)
        PROVE  Governed!GovernedNext
    BY <1>1, <1>2 DEF Governed!GovernedNext, Governed!Permitting, Governed!ledger
  <1>3. ASSUME NEW k \in Tokens, NEW q \in Approvals, NEW b \in Cited, SP!Create(k, q, b)
        PROVE  Governed!GovernedNext
    BY <1>1, <1>2, <1>3, CreateAsks, HostsAreSlots DEF SP!Create
  <1>4. ASSUME NEW Q \in SUBSET {q \in Approvals : SP!Open(q)}, SP!Expire(Q)
        PROVE  Governed!GovernedNext
    BY <1>1, <1>2, <1>4, ExpireLapses DEF SP!Expire
  <1>5. ASSUME NEW k \in Tokens, NEW q \in Approvals, NEW v \in {"approved", "denied"},
               SP!Decided(k, q, v)
        PROVE  Governed!GovernedNext
    <2>1. Governed!Judge(q, Owner[k], v) /\ outcome' = outcome
      BY <1>1, <1>5, DecideJudges DEF SP!Decided
    <2> QED BY <1>2, <2>1
  <1>6. ASSUME NEW q \in Approvals, SP!Consumed(q) PROVE Governed!GovernedNext
    <2>1. Governed!Use(q) /\ outcome' = outcome  BY <1>1, <1>6, ConsumeUses DEF SP!Consumed
    <2> QED BY <1>2, <2>1
  <1>7. ASSUME NEW k \in Tokens, NEW e \in SP!Events, SP!Report(k, e)
        PROVE  Governed!GovernedNext
    BY <1>7, ReportTells DEF Governed!GovernedNext
  <1>8. CASE SP!World \/ UNCHANGED SP!vars
    <2>1. UNCHANGED <<approval, outcome>>
      BY <1>8 DEF SP!World, SP!Revoke, SP!JwtExpires, SP!ChangeRole, SP!DeadlinePasses,
                  SP!CaptureAges, SP!ProofExpires, SP!store, SP!vars
    <2> QED BY <1>1, <2>1 DEF Governed!rollout, Governed!ledger, Permit, Person
  <1>9. [SP!Next]_(SP!vars)  OBVIOUS
  <1>10. \/ \E k \in Tokens, q \in Approvals, b \in Cited : SP!Create(k, q, b)
         \/ \E Q \in SUBSET {q \in Approvals : SP!Open(q)} : SP!Expire(Q)
         \/ \E k \in Tokens, q \in Approvals, v \in {"approved", "denied"} :
              SP!Decided(k, q, v)
         \/ \E q \in Approvals : SP!Consumed(q)
         \/ \E k \in Tokens, e \in SP!Events : SP!Report(k, e)
         \/ SP!World \/ UNCHANGED SP!vars
    BY <1>9, ServerAssumption, SP!StepForms
  <1> QED BY <1>3, <1>4, <1>5, <1>6, <1>7, <1>8, <1>10

\* A step of the ledger is a step of the promise's ledger: they are the same.
LEMMA LedgerIsGoverned == Ledger!Next => Governed!Next
  <1>1. ASSUME NEW h \in Slots PROVE Ledger!Change(h) => Governed!Change(h)
    BY DEF Ledger!Change, Governed!Change, Ledger!InTheAir, Governed!InTheAir, Ledger!Hosts,
           Governed!Hosts
  <1>2. ASSUME NEW h \in Slots PROVE Ledger!PutBack(h) => Governed!PutBack(h)
    BY DEF Ledger!PutBack, Governed!PutBack
  <1>3. Ledger!Settle => Governed!Settle
    BY DEF Ledger!Settle, Governed!Settle, Ledger!Tells, Governed!Tells, Ledger!Hosts,
           Governed!Hosts, Ledger!Verdicts, Governed!Verdicts
  <1>4. Ledger!Hosts = Slots /\ Governed!Hosts = Slots
    BY DEF Ledger!Hosts, Governed!Hosts, Slots, Targets
  <1> QED BY <1>1, <1>2, <1>3, <1>4 DEF Ledger!Next, Governed!Next

\* The targets of a run that has not begun are untouched.
LEMMA NothingBegun ==
  ASSUME RunInv, NEW r \in Runs, disk.run[r].kind = "none", NEW t \in Targets
  PROVE  DoneTo(<<r, t>>) = "nothing"
  <1>1. <<r, t>> \in Slots /\ <<r, t>>[1] = r /\ <<r, t>>[2] = t  BY DEF Slots
  <1>2. disk.tgt[<<r, t>>].phase = "Capture"
    <2>1. Path(disk, r)  BY Known DEF Order
    <2> QED BY <2>1 DEF Path
  <1>3. sent[<<r, t, "Apply">>] = 0
    <2>1. Tally(restart, disk.tgt[<<r, t>>], sent[<<r, t, "Apply">>], sent[<<r, t, "Restore">>])
      BY Known DEF Told
    <2> QED BY <1>2, <2>1 DEF Tally
  <1> QED BY <1>1, <1>3, DoneIs

\* What the invariant says of the file after a step.
LEMMA FileAfter ==
  ASSUME TeamInv'
  PROVE  /\ disk' \in Book /\ Consistent(disk') /\ Kinded(disk')
         /\ \A s \in Slots :
              /\ disk'.tgt[s].attempted =>
                   LET q == disk'.tgt[s].approval IN
                   /\ q \in Approvals /\ approval'[q].state = "consumed"
                   /\ approval'[q].binding.run = s[1] /\ approval'[q].binding.tgt = s[2]
              /\ disk'.run[s[1]].team /\ sent'[<<s[1], s[2], "Apply">>] > 0 =>
                   disk'.tgt[s].attempted
         /\ \A r \in Runs, t \in Targets :
              Tally(restart', disk'.tgt[<<r, t>>], sent'[<<r, t, "Apply">>],
                    sent'[<<r, t, "Restore">>])
  <1>1. RunInv' /\ Journals' /\ Opening'  BY DEF TeamInv
  <1>2. disk' \in Book /\ Consistent(disk') /\ Told(restart', disk', sent')
    BY <1>1 DEF RunInv, Filed, Filing
  <1>3. Kinded(disk')  BY <1>1 DEF Opening, Kinded
  <1>4. Approved' /\ Attempts'  BY <1>1 DEF Journals
  <1> QED BY <1>2, <1>3, <1>4 DEF Told, Approved, Attempts

\* A new approval in the file is the used-up permit of a host that was not changed yet.
LEMMA NewApprovalIsNoted ==
  ASSUME TeamInv, TeamInv', Stands, approval' = approval, NEW h \in Slots,
         disk'.tgt[h].approval # disk.tgt[h].approval
  PROVE  Governed!Note(h)
  <1> DEFINE q == disk'.tgt[h].approval
  <1>1. h[1] \in Runs /\ h[2] \in Targets /\ h = <<h[1], h[2]>>  BY DEF Slots
  <1>2. disk.tgt[h].approval = NoApproval /\ disk.tgt[h].phase = "Review"  BY DEF Stands
  <1>3. disk'.tgt[h].attempted /\ disk'.run[h[1]].team
    BY <1>2, FileAfter DEF Consistent
  <1>4. /\ q \in Approvals /\ approval[q].state = "consumed"
        /\ approval[q].binding.run = h[1] /\ approval[q].binding.tgt = h[2]
    BY <1>3, FileAfter
  <1>5. RunInv  BY DEF TeamInv
  <1>6. disk.run[h[1]].team
    <2>1. Path(disk, h[1])  BY <1>1, <1>5, Known DEF Order
    <2>2. disk.run[h[1]].kind # "none"  BY <1>1, <1>2, <2>1 DEF Path
    <2> QED BY <1>1, <1>3, <2>2 DEF Stands
  <1>7. DoneTo(h) = "nothing"
    <2>1. sent[<<h[1], h[2], "Apply">>] = 0  BY <1>2, <1>5, DoneIs DEF Tally
    <2> QED BY <1>5, <2>1, DoneIs
  <1>8. VerdictOn(h) = "open"  BY <1>2 DEF VerdictOn, Settled
  <1>9. Permit(q).state = "consumed" /\ Permit(q).host = h  BY <1>1, <1>4 DEF Permit
  <1> HIDE DEF q
  <1> QED BY <1>1, <1>2, <1>4, <1>6, <1>7, <1>8, <1>9 DEF Governed!Note, q

\* What is done to a host of a run under control is done under a permit.
LEMMA DoneUnderPermit ==
  ASSUME TeamInv, TeamInv', Effect, NEW h \in Slots, disk'.run[h[1]].team,
         DoneTo(h)' # DoneTo(h)
  PROVE  disk'.tgt[h].approval # NoApproval
  <1>1. h[1] \in Runs /\ h[2] \in Targets /\ h = <<h[1], h[2]>>  BY DEF Slots
  <1>2. RunInv  BY DEF TeamInv
  <1>3. /\ sent'[<<h[1], h[2], "Apply">>] \in {0, 1} /\ sent'[<<h[1], h[2], "Restore">>] \in {0, 1}
        /\ sent'[<<h[1], h[2], "Restore">>] <= sent'[<<h[1], h[2], "Apply">>]
    <2>1. Tally(restart', disk'.tgt[h], sent'[<<h[1], h[2], "Apply">>],
                sent'[<<h[1], h[2], "Restore">>])
      BY <1>1, FileAfter
    <2> QED BY <2>1 DEF Tally
  <1>4. sent'[<<h[1], h[2], "Apply">>] # 0
    <2> SUFFICES ASSUME sent'[<<h[1], h[2], "Apply">>] = 0 PROVE FALSE
      OBVIOUS
    <2>1. sent[<<h[1], h[2], "Apply">>] = 0  BY <1>2, SentStays
    <2>2. DoneTo(h) = "nothing"  BY <1>2, <2>1, DoneIs
    <2>3. sent'[<<h[1], h[2], "Restore">>] = 0  BY <1>3
    <2>4. DoneTo(h)' = "nothing"  BY <2>3 DEF DoneTo
    <2> QED BY <2>2, <2>4
  <1>5. sent'[<<h[1], h[2], "Apply">>] > 0  BY <1>3, <1>4
  <1>6. disk'.tgt[h].attempted  BY <1>5, FileAfter
  <1>7. disk'.tgt[h].approval \in Approvals  BY <1>6, FileAfter
  <1> QED BY <1>7, RunAssumption

\* Every step of the client is the rollout's work.
LEMMA ClientWorks ==
  ASSUME TeamInv, TeamInv', Truthful', Effect, Stands, UNCHANGED serverVars
  PROVE  Governed!Work
  <1> USE DEF Dones, VerdictsOf, Controlled, Under, OnRecord, PermitOf
  <1>1. UNCHANGED <<approval, outcome, PermitOf, OnRecord>>  BY DEF serverVars, Permit, Person
  <1>2. RunInv  BY DEF TeamInv
  <1>3. Governed!Next
    <2>1. Ledger!Next
      <3>1. CASE sent' = sent  BY <3>1, LedgerSettles DEF Ledger!Next
      <3>2. CASE sent' # sent  BY <1>2, <3>2, LedgerSends DEF Effect
      <3> QED BY <3>1, <3>2
    <2> QED BY <2>1, LedgerIsGoverned
  <1>4. ASSUME NEW r \in Controlled PROVE r \in Controlled'
    <2>1. Kinded(disk)  BY DEF TeamInv, Opening
    <2>2. disk.run[r].kind # "none"  BY <1>4, <2>1 DEF Kinded
    <2> QED BY <1>4, <2>2 DEF Stands
  <1>5. ASSUME NEW r \in Controlled' \ Controlled PROVE Governed!Govern(r)
    <2>1. r \in Runs /\ disk.run[r].kind = "none"  BY <1>5 DEF Stands
    <2>2. \A t \in Targets : <<r, t>> \in Slots /\ DoneTo(<<r, t>>) = "nothing"
      BY <1>2, <2>1, NothingBegun DEF Slots
    <2> QED BY <1>5, <2>2 DEF Governed!Govern, Targets
  <1>6. Under' \in [Slots -> Approvals \cup {NoApproval}]
    BY FileAfter DEF Book, TargetRec
  <1>7. \A h \in Slots : Under'[h] # Under[h] => Governed!Note(h)
    BY <1>1, NewApprovalIsNoted
  <1>8. \A h \in Slots : h[1] \in Controlled' /\ Dones'[h] # Dones[h] => Under'[h] # NoApproval
    BY DoneUnderPermit
  <1> QED BY <1>1, <1>3, <1>4, <1>5, <1>6, <1>7, <1>8, HostsAreSlots DEF Governed!Work

\* The promise starts with nothing asked for and nothing on record.
LEMMA GovernedStart == TeamInit => Governed!GovernedInit
  <1> SUFFICES ASSUME TeamInit PROVE Governed!GovernedInit
    OBVIOUS
  <1>1. Init /\ S!Init  BY DEF TeamInit
  <1>2. Governed!Init
    <2>1. Ledger!Init  BY <1>1, LedgerInit
    <2> QED BY <2>1 DEF Ledger!Init, Governed!Init, Ledger!Hosts, Governed!Hosts
  <1>3. TeamInv  BY TeamInitGood
  <1>4. /\ \A r \in Runs : ~disk.run[r].team
        /\ \A s \in Slots : disk.tgt[s].approval = NoApproval
    BY <1>1 DEF Init, Empty, NoRunYet, NewTarget
  <1>5. \A q \in Approvals : Permit(q) = Governed!NotAsked
    <2>1. \A q \in Approvals : ~SP!Exists(q)  BY <1>1 DEF S!Init, S!NoRow, SP!Exists
    <2> QED BY <1>3, <2>1, PermitIs DEF PermitOf, TeamInv
  <1>6. \A q \in Approvals : outcome[q].result = "none"  BY <1>1 DEF S!Init, S!NoOutcome
  <1> QED BY <1>2, <1>4, <1>5, <1>6, HostsAreSlots DEF Governed!GovernedInit
-----------------------------------------------------------------------------
(* The theorems.                                                           *)

\* In every reachable state of client and server, whoever signs in, whatever call or
\* answer is lost and whenever the client dies: what relates the two stands.
THEOREM TeamCorrect == TeamSpec => []TeamInv
  <1>1. TeamInv /\ [TeamNext]_allVars => TeamInv'  BY TeamStep
  <1> QED BY <1>1, TeamInitGood, PTL DEF TeamSpec

\* Every variable of client and server holds a value of its type.
THEOREM TeamTypeCorrect == TeamSpec => []TeamTypeOK
  <1>1. TeamInv => TeamTypeOK
    <2> SUFFICES ASSUME TeamInv PROVE TeamTypeOK
      OBVIOUS
    <2>1. RunInv /\ Client /\ SP!TypeOK  BY DEF TeamInv, SP!Inv
    <2>2. TypeOK  BY <2>1, Known DEF TypeOK, RunInv, Outer
    <2>3. S!TypeOK
      BY <2>1 DEF SP!TypeOK, SP!Rows, SP!NoRow, SP!NoBinding, SP!Events, SP!NoOutcome,
                  SP!AuditKinds, S!TypeOK, S!Rows, S!NoRow, S!NoBinding, S!Events, S!NoOutcome,
                  S!AuditKinds
    <2>4. view \in [req : Approvals, binding : Bindings, gen : 1..MaxGen,
                    state : {"pending", "approved", "denied", "expired", "consumed"}]
                     \cup {NoView}
      BY <2>1 DEF Client, Views, Standing
    <2>5. token \in Mine \cup {NoToken} /\ gen \in Nat  BY <2>1 DEF Client
    <2>6. ASSUME worker # NoWorker
          PROVE  /\ worker.kind \in {"mode", "request", "check", "consume", "outcome"}
                 /\ worker.gen \in 1..gen /\ worker.by \in Mine
                 /\ worker.res \in {"waiting", "done", "error"}
      <3>1. worker \in Work /\ worker.gen <= gen  BY <2>1, <2>6 DEF Client
      <3> QED BY <2>5, <3>1 DEF Work
    <2> QED BY <2>2, <2>3, <2>4, <2>5, <2>6 DEF TeamTypeOK
  <1> QED BY <1>1, TeamCorrect, PTL

\* Server and journal file agree on every change that was reported.
THEOREM CentralIsJournal == TeamSpec => []CentralMatchesJournal
  <1>1. TeamInv => CentralMatchesJournal  BY DEF TeamInv, Journals
  <1> QED BY <1>1, TeamCorrect, PTL

\* Every change made under team control has an approval of its own, by two people, for
\* the very run and target, used up on the server and named in the journal.
THEOREM AppliesAreApproved == TeamSpec => []EachApplyApproved
  <1>1. TeamInv => EachApplyApproved
    <2> SUFFICES ASSUME TeamInv, NEW s \in Slots, TeamApplied(s)
                 PROVE  LET q == disk.tgt[s].approval IN
                        /\ q \in Approvals /\ approval[q].state = "consumed"
                        /\ approval[q].binding.run = s[1] /\ approval[q].binding.tgt = s[2]
                        /\ Owner[approval[q].by] # Owner[approval[q].decider]
                        /\ \A u \in Slots \ {s} : TeamApplied(u) => disk.tgt[u].approval # q
      BY DEF EachApplyApproved
    <2>1. ASSUME NEW u \in Slots, TeamApplied(u)
          PROVE  LET q == disk.tgt[u].approval IN
                 /\ q \in Approvals /\ approval[q].state = "consumed"
                 /\ approval[q].binding.run = u[1] /\ approval[q].binding.tgt = u[2]
      <3>1. disk.tgt[u].attempted  BY <2>1 DEF TeamApplied, TeamInv, Journals, Attempts
      <3> QED BY <3>1 DEF TeamInv, Journals, Approved
    <2>2. SP!TwoPeople  BY DEF TeamInv, SP!Inv
    <2>3. Owner[approval[disk.tgt[s].approval].by] # Owner[approval[disk.tgt[s].approval].decider]
      BY <2>1, <2>2 DEF SP!TwoPeople
    <2>4. ASSUME NEW u \in Slots, u # s, TeamApplied(u)
          PROVE  disk.tgt[u].approval # disk.tgt[s].approval
      <3>1. u = <<u[1], u[2]>> /\ s = <<s[1], s[2]>>  BY DEF Slots
      <3>2. u[1] # s[1] \/ u[2] # s[2]  BY <2>4, <3>1
      <3> QED BY <2>1, <2>4, <3>2
    <2> QED BY <2>1, <2>3, <2>4
  <1> QED BY <1>1, TeamCorrect, PTL

\* Under team control a change is sent by the frame that takes the answer to its
\* consume, and by nothing else.
THEOREM AppliesOnAnswer == TeamSpec => AppliedOnAnswer
  <1> DEFINE A == \A s \in Slots :
                    (sent'[<<s[1], s[2], "Apply">>] # sent[<<s[1], s[2], "Apply">>]
                     /\ book.run[s[1]].team /\ Production(book, s[1])) =>
                      /\ worker.kind = "consume" /\ worker.res = "done" /\ worker.gen = gen
                      /\ worker.binding.run = s[1] /\ worker.binding.tgt = s[2]
                      /\ reviewed /\ worker' = NoWorker
  <1>1. TeamInv /\ [TeamNext]_allVars => [A]_allVars
    <2> SUFFICES ASSUME TeamInv, [TeamNext]_allVars PROVE A
      OBVIOUS
    <2> QED BY TeamStep DEF OnAnswer
  <1> QED BY <1>1, TeamCorrect, PTL DEF TeamSpec, AppliedOnAnswer

\* The server takes nothing from the journal: it can be read back under team control too.
THEOREM TeamJournalIsReadable == TeamSpec => []JournalLoads
  <1>1. TeamInv => JournalLoads
    <2> SUFFICES ASSUME TeamInv PROVE JournalLoads
      OBVIOUS
    <2>1. RunInv  BY DEF TeamInv
    <2> QED BY <2>1, Known DEF JournalLoads
  <1> QED BY <1>1, TeamCorrect, PTL

\* With the team server in it the engine still implements the ledger.
THEOREM TeamImplementsLedger == TeamSpec => ImplementsLedger
  <1>1. TeamInit => Ledger!Init  BY LedgerInit DEF TeamInit
  <1>2. ASSUME TeamInv, Truthful', [TeamNext]_allVars
        PROVE  [Ledger!Next]_(Ledger!ledger)
    <2>1. Effect  BY <1>2, TeamStep
    <2>2. RunInv  BY <1>2 DEF TeamInv
    <2>3. CASE sent' = sent
      BY <1>2, <2>1, <2>3, LedgerSettles DEF Ledger!Next
    <2>4. CASE sent' # sent
      BY <2>1, <2>2, <2>4, LedgerSends DEF Effect
    <2> QED BY <2>3, <2>4
  <1>3. TeamInv /\ Truthful' /\ [TeamNext]_allVars => [Ledger!Next]_(Ledger!ledger)  BY <1>2
  <1>4. TeamInv => Truthful  BY VerdictsTell DEF TeamInv
  <1> QED BY <1>1, <1>3, <1>4, TeamCorrect, PTL DEF TeamSpec, ImplementsLedger, Ledger!Spec

\* Client and server implement the rollout under permits: whatever call, answer or save is
\* lost, whoever signs in and whenever the client dies.
THEOREM TeamImplementsGoverned == TeamSpec => ImplementsGoverned
  <1>1. TeamInv /\ TeamInv' /\ Truthful' /\ [TeamNext]_allVars
          => [Governed!GovernedNext]_(Governed!rollout)
    <2> SUFFICES ASSUME TeamInv, TeamInv', Truthful', [TeamNext]_allVars
                 PROVE  [Governed!GovernedNext]_(Governed!rollout)
      OBVIOUS
    <2>1. CASE UNCHANGED serverVars
      BY <2>1, TeamStep, ClientWorks DEF Governed!GovernedNext
    <2>2. CASE UNCHANGED vars /\ SP!Next
      BY <2>2, ServerGoverned DEF TeamInv, Journals
    <2> QED BY <2>1, <2>2, ServerMoves
  <1>2. TeamInv => Truthful  BY VerdictsTell DEF TeamInv
  <1> QED BY <1>1, <1>2, GovernedStart, TeamCorrect, PTL
      DEF TeamSpec, ImplementsGoverned, Governed!GovernedSpec
=============================================================================
