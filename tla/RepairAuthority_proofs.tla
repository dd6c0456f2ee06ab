------------------------ MODULE RepairAuthority_proofs ------------------------
(***************************************************************************)
(* What the team server guarantees for any number of tokens, requests and  *)
(* bindings.  Inv is inductive: the properties need, besides themselves,   *)
(* that an approval has a decider exactly from its decision on, and that   *)
(* only operators and admins ever asked for one.                           *)
(***************************************************************************)
EXTENDS RepairAuthority, TLAPS

RowsMatch ==
  \A q \in Requests :
    /\ approval[q].state \in {"none", "pending"} => approval[q].decider = NoToken
    /\ approval[q].state \in {"approved", "denied", "consumed"} => approval[q].decider \in Tokens
    /\ approval[q].state = "none" => approval[q] = NoRow
    /\ approval[q].state # "none" => Role[approval[q].by] # "viewer"

Inv == TypeOK /\ RowsMatch /\ TwoPeople /\ OutcomeBelongs /\ AuditMatches

-----------------------------------------------------------------------------
(* The forms a step can take: one approval changes, several expire, one    *)
(* outcome is recorded, or the store stays as it is.                       *)

\* An approval exists exactly when its row is not the empty one.
LEMMA RowFacts ==
  ASSUME TypeOK, NEW q \in Requests
  PROVE  /\ Exists(q) => approval[q] \in
              [state : {"pending", "approved", "denied", "expired", "consumed"},
               binding : Bindings, by : Tokens, decider : Tokens \cup {NoToken}]
         /\ ~Exists(q) => approval[q] = NoRow
  BY DEF TypeOK, Rows, NoRow, Exists

\* The sets of a decision, written out once: what Decide does when it decides.
Decided(k, q, v) ==
  /\ Authorized(k) /\ approval[q].state = "pending" /\ Owner[k] # Owner[approval[q].by]
  /\ approval' = [approval EXCEPT ![q].state = v, ![q].decider = k]
  /\ Log(v, {q}) /\ UNCHANGED <<outcome, world>>

\* What Consume does when it consumes.
Consumed(q) ==
  /\ approval[q].state = "approved"
  /\ q \notin due /\ approval[q].binding \notin stale
  /\ Authorized(approval[q].by) /\ Authorized(approval[q].decider)
  /\ approval' = [approval EXCEPT ![q].state = "consumed"]
  /\ Log("consumed", {q}) /\ UNCHANGED <<outcome, world>>

\* Every step of the specification has one of six forms.
LEMMA StepForms ==
  ASSUME [Next]_vars
  PROVE  \/ \E k \in Tokens, q \in Requests, b \in Bindings : Create(k, q, b)
         \/ \E S \in SUBSET {q \in Requests : Open(q)} : Expire(S)
         \/ \E k \in Tokens, q \in Requests, v \in {"approved", "denied"} : Decided(k, q, v)
         \/ \E q \in Requests : Consumed(q)
         \/ \E k \in Tokens, e \in Events : Report(k, e)
         \/ World
         \/ UNCHANGED vars
<1>1. ASSUME NEW k \in Tokens, List(k)
      PROVE  \E S \in SUBSET {q \in Requests : Open(q)} : Expire(S)
  BY <1>1 DEF List, Lapsing, Visible
<1>2. ASSUME NEW k \in Tokens, NEW q \in Requests, NEW v \in {"approved", "denied"},
             Decide(k, q, v)
      PROVE  \/ Decided(k, q, v)
             \/ \E S \in SUBSET {r \in Requests : Open(r)} : Expire(S)
  BY <1>2 DEF Decide, Decided, Lapsing
<1>3. ASSUME NEW k \in Tokens, NEW q \in Requests, NEW b \in Bindings, Consume(k, q, b)
      PROVE  \/ Consumed(q)
             \/ \E S \in SUBSET {r \in Requests : Open(r)} : Expire(S)
  BY <1>3 DEF Consume, Consumed, Lapsing, Open
<1> QED
  BY <1>1, <1>2, <1>3 DEF Next, Serve

-----------------------------------------------------------------------------
(* Type correctness.                                                       *)

LEMMA TypeInit == Init => TypeOK
  BY DEF Init, TypeOK, Rows

LEMMA LogType ==
  ASSUME TypeOK, NEW kind \in AuditKinds, NEW S, Log(kind, S)
  PROVE  audit' \in [Requests -> [AuditKinds -> Nat]]
  BY DEF Log, TypeOK

LEMMA TypeStep == TypeOK /\ [Next]_vars => TypeOK'
<1> SUFFICES ASSUME TypeOK, [Next]_vars PROVE TypeOK'
  OBVIOUS
<1>1. ASSUME NEW k \in Tokens, NEW q \in Requests, NEW b \in Bindings, Create(k, q, b)
      PROVE  TypeOK'
  <2>1. approval' \in [Requests -> Rows]
    BY <1>1 DEF Create, TypeOK, Rows
  <2> QED
    BY <1>1, <2>1, LogType DEF AuditKinds, Create, TypeOK, world
<1>2. ASSUME NEW S \in SUBSET {q \in Requests : Open(q)}, Expire(S)
      PROVE  TypeOK'
  <2>1. approval' \in [Requests -> Rows]
    BY <1>2, RowFacts DEF Expire, TypeOK, Rows, Open, Exists
  <2> QED
    BY <1>2, <2>1, LogType DEF AuditKinds, Expire, TypeOK, world
<1>3. ASSUME NEW k \in Tokens, NEW q \in Requests, NEW v \in {"approved", "denied"},
             Decided(k, q, v)
      PROVE  TypeOK'
  <2>1. Exists(q)
    BY <1>3 DEF Decided, Exists
  <2>2. [approval[q] EXCEPT !.state = v, !.decider = k] \in Rows
    BY <2>1, RowFacts DEF Rows
  <2>3. approval' = [approval EXCEPT ![q] = [approval[q] EXCEPT !.state = v, !.decider = k]]
    BY <1>3 DEF Decided, TypeOK
  <2>4. approval' \in [Requests -> Rows]
    BY <2>2, <2>3 DEF TypeOK
  <2> QED
    BY <1>3, <2>4, LogType DEF AuditKinds, Decided, TypeOK, world
<1>4. ASSUME NEW q \in Requests, Consumed(q)
      PROVE  TypeOK'
  <2>1. approval' \in [Requests -> Rows]
    BY <1>4, RowFacts DEF Consumed, TypeOK, Rows, Exists
  <2> QED
    BY <1>4, <2>1, LogType DEF AuditKinds, Consumed, TypeOK, world
<1>5. ASSUME NEW k \in Tokens, NEW e \in Events, Report(k, e)
      PROVE  TypeOK'
  <2>1. audit' \in [Requests -> [AuditKinds -> Nat]]
    BY <1>5, LogType DEF Report, AuditKinds
  <2>2. outcome' \in [Requests -> Events \cup {NoOutcome}]
    BY <1>5 DEF Report, TypeOK
  <2> QED
    BY <1>5, <2>1, <2>2 DEF Report, TypeOK, world
<1>6. CASE World
  BY <1>6 DEF World, Revoke, JwtExpires, ChangeRole, DeadlinePasses, CaptureAges, ProofExpires,
              TypeOK, store
<1>7. CASE UNCHANGED vars
  BY <1>7 DEF TypeOK, vars, store, world
<1> QED
  BY <1>1, <1>2, <1>3, <1>4, <1>5, <1>6, <1>7, StepForms

\* The tables and the sets of the world keep their types, whatever the constants.
THEOREM TypeCorrect == Spec => []TypeOK
<1> QED
  BY TypeInit, TypeStep, PTL DEF Spec
-----------------------------------------------------------------------------
(* The invariant.                                                          *)

LEMMA InvInit == Init => Inv
  BY TypeInit DEF Init, Inv, RowsMatch, TwoPeople, OutcomeBelongs, AuditMatches, Exists,
                  NoRow, NoOutcome, AuditKinds

LEMMA CreateStep ==
  ASSUME Inv, TypeOK', NEW k \in Tokens, NEW q \in Requests, NEW b \in Bindings,
         Create(k, q, b)
  PROVE  Inv'
<1>1. /\ approval[q] = NoRow
      /\ approval'[q] = [state |-> "pending", binding |-> b, by |-> k, decider |-> NoToken]
      /\ \A r \in Requests \ {q} : approval'[r] = approval[r]
      /\ outcome' = outcome
  BY RowFacts DEF Create, Inv, TypeOK
<1>2. \A r \in Requests, kind \in AuditKinds :
        audit'[r][kind] = IF kind = "request" /\ r = q THEN audit[r][kind] + 1 ELSE audit[r][kind]
  BY DEF Create, Log, Inv, TypeOK, AuditKinds
<1>3. RowsMatch'
  BY <1>1 DEF Inv, RowsMatch, NoRow, Create, Authorized
<1>4. TwoPeople'
  BY <1>1 DEF Inv, TwoPeople
<1>5. OutcomeBelongs'
  BY <1>1 DEF Inv, OutcomeBelongs, NoRow
<1>6. AuditMatches'
  BY <1>1, <1>2 DEF Inv, AuditMatches, Exists, NoRow, AuditKinds
<1> QED
  BY <1>3, <1>4, <1>5, <1>6 DEF Inv

LEMMA ExpireStep ==
  ASSUME Inv, TypeOK', NEW S \in SUBSET {q \in Requests : Open(q)}, Expire(S)
  PROVE  Inv'
<1>1. /\ \A q \in S : /\ q \in Requests /\ approval[q].state \in {"pending", "approved"}
                       /\ approval'[q].state = "expired" /\ approval'[q].by = approval[q].by
                       /\ approval'[q].binding = approval[q].binding
                       /\ approval'[q].decider = approval[q].decider
      /\ \A q \in Requests \ S : approval'[q] = approval[q]
      /\ outcome' = outcome
  BY RowFacts DEF Expire, Inv, TypeOK, Open, Exists
<1>2. \A r \in Requests, kind \in AuditKinds :
        audit'[r][kind] = IF kind = "expired" /\ r \in S THEN audit[r][kind] + 1 ELSE audit[r][kind]
  BY DEF Expire, Log, Inv, TypeOK, AuditKinds
<1>3. RowsMatch'
  BY <1>1 DEF Inv, RowsMatch, NoRow
<1>4. TwoPeople'
  BY <1>1 DEF Inv, TwoPeople
<1>5. OutcomeBelongs'
  BY <1>1 DEF Inv, OutcomeBelongs
<1>6. AuditMatches'
  BY <1>1, <1>2 DEF Inv, AuditMatches, RowsMatch, Exists, AuditKinds
<1> QED
  BY <1>3, <1>4, <1>5, <1>6 DEF Inv

LEMMA DecideStep ==
  ASSUME Inv, TypeOK', NEW k \in Tokens, NEW q \in Requests, NEW v \in {"approved", "denied"},
         Decided(k, q, v)
  PROVE  Inv'
<1>1. /\ approval[q].state = "pending" /\ approval[q].by \in Tokens
      /\ approval[q].decider = NoToken
      /\ approval'[q].state = v /\ approval'[q].decider = k
      /\ approval'[q].by = approval[q].by /\ approval'[q].binding = approval[q].binding
      /\ \A r \in Requests \ {q} : approval'[r] = approval[r]
      /\ outcome' = outcome
  BY RowFacts DEF Decided, Inv, TypeOK, RowsMatch, Exists
<1>2. \A r \in Requests, kind \in AuditKinds :
        audit'[r][kind] = IF kind = v /\ r = q THEN audit[r][kind] + 1 ELSE audit[r][kind]
  BY DEF Decided, Log, Inv, TypeOK, AuditKinds
<1>3. RowsMatch'
  BY <1>1 DEF Inv, RowsMatch
<1>4. TwoPeople'
  <2> SUFFICES ASSUME NEW r \in Requests, approval'[r].state \in {"approved", "consumed"}
               PROVE  /\ approval'[r].by \in Tokens /\ approval'[r].decider \in Tokens
                      /\ Owner[approval'[r].by] # Owner[approval'[r].decider]
                      /\ Role[approval'[r].by] # "viewer" /\ Role[approval'[r].decider] # "viewer"
    BY DEF TwoPeople
  <2>1. CASE r = q
    BY <1>1, <2>1 DEF Inv, RowsMatch, Decided, Authorized
  <2>2. CASE r # q
    BY <1>1, <2>2 DEF Inv, TwoPeople
  <2> QED
    BY <2>1, <2>2
<1>5. OutcomeBelongs'
  BY <1>1 DEF Inv, OutcomeBelongs
<1>6. AuditMatches'
  BY <1>1, <1>2, AuthorityAssumption DEF Inv, AuditMatches, Exists, AuditKinds
<1> QED
  BY <1>3, <1>4, <1>5, <1>6 DEF Inv

LEMMA ConsumeStep ==
  ASSUME Inv, TypeOK', NEW q \in Requests, Consumed(q)
  PROVE  Inv'
<1>1. /\ approval[q].state = "approved" /\ approval'[q].state = "consumed"
      /\ approval'[q].decider = approval[q].decider
      /\ approval'[q].by = approval[q].by /\ approval'[q].binding = approval[q].binding
      /\ \A r \in Requests \ {q} : approval'[r] = approval[r]
      /\ outcome' = outcome
  BY RowFacts DEF Consumed, Inv, TypeOK, Exists
<1>2. \A r \in Requests, kind \in AuditKinds :
        audit'[r][kind] = IF kind = "consumed" /\ r = q THEN audit[r][kind] + 1
                          ELSE audit[r][kind]
  BY DEF Consumed, Log, Inv, TypeOK, AuditKinds
<1>3. RowsMatch'
  BY <1>1 DEF Inv, RowsMatch
<1>4. TwoPeople'
  BY <1>1 DEF Inv, TwoPeople
<1>5. OutcomeBelongs'
  BY <1>1 DEF Inv, OutcomeBelongs
<1>6. AuditMatches'
  BY <1>1, <1>2 DEF Inv, AuditMatches, Exists, AuditKinds
<1> QED
  BY <1>3, <1>4, <1>5, <1>6 DEF Inv

LEMMA ReportStep ==
  ASSUME Inv, TypeOK', NEW k \in Tokens, NEW e \in Events, Report(k, e)
  PROVE  Inv'
<1> DEFINE q == e.approval
<1>1. /\ q \in Requests /\ approval' = approval /\ approval[q].state = "consumed"
      /\ e.run = approval[q].binding.run /\ e.tgt = approval[q].binding.tgt
      /\ \A r \in Requests : outcome[r].id # e.id
      /\ outcome[q] = NoOutcome /\ outcome'[q] = e
      /\ \A r \in Requests \ {q} : outcome'[r] = outcome[r]
  BY DEF Report, Inv, TypeOK, Events
<1>2. \A r \in Requests, kind \in AuditKinds :
        audit'[r][kind] = IF kind = "outcome" /\ r = q THEN audit[r][kind] + 1 ELSE audit[r][kind]
  BY DEF Report, Log, Inv, TypeOK, AuditKinds
<1>3. e # NoOutcome
  BY AuthorityAssumption DEF NoOutcome, Events
<1>4. RowsMatch' /\ TwoPeople'
  BY <1>1 DEF Inv, RowsMatch, TwoPeople
<1>5. OutcomeBelongs'
  BY <1>1 DEF Inv, OutcomeBelongs
<1>6. AuditMatches'
  BY <1>1, <1>2, <1>3 DEF Inv, AuditMatches, Exists, AuditKinds
<1> QED
  BY <1>4, <1>5, <1>6 DEF Inv

LEMMA InvStep == Inv /\ [Next]_vars => Inv'
<1> SUFFICES ASSUME Inv, [Next]_vars PROVE Inv'
  OBVIOUS
<1>1. TypeOK'
  BY TypeStep DEF Inv
<1>2. CASE UNCHANGED store
  BY <1>1, <1>2 DEF store, Inv, RowsMatch, TwoPeople, OutcomeBelongs, AuditMatches, Exists
<1>3. World \/ UNCHANGED vars => UNCHANGED store
  BY DEF World, Revoke, JwtExpires, ChangeRole, DeadlinePasses, CaptureAges, ProofExpires, store,
         vars
<1> QED
  BY <1>1, <1>2, <1>3, StepForms, CreateStep, ExpireStep, DecideStep, ConsumeStep, ReportStep

-----------------------------------------------------------------------------
(* The theorems.                                                           *)

\* Nobody approves a repair of their own, and none is used without a second person.
THEOREM TwoPeopleAlways == Spec => []TwoPeople
<1>1. Inv => TwoPeople
  BY DEF Inv
<1> QED
  BY <1>1, InvInit, InvStep, PTL DEF Spec

\* The audit table records every transition once, a second use of an approval never.
THEOREM AuditAlwaysMatches == Spec => []AuditMatches
<1>1. Inv => AuditMatches
  BY DEF Inv
<1> QED
  BY <1>1, InvInit, InvStep, PTL DEF Spec

\* An outcome belongs to the run and target whose use of an approval it reports.
THEOREM OutcomesAlwaysBelong == Spec => []OutcomeBelongs
<1>1. Inv => OutcomeBelongs
  BY DEF Inv
<1> QED
  BY <1>1, InvInit, InvStep, PTL DEF Spec

\* Every step that changes an approval or an outcome moves it forward.
LEMMA EveryStepFinal == Inv /\ [Next]_vars => \A q \in Requests : FinalStep(q)
<1> SUFFICES ASSUME Inv, [Next]_vars, NEW q \in Requests PROVE FinalStep(q)
  OBVIOUS
<1>1. ASSUME NEW k \in Tokens, NEW r \in Requests, NEW b \in Bindings, Create(k, r, b)
      PROVE  FinalStep(q)
  BY <1>1, RowFacts DEF Create, Inv, TypeOK, FinalStep, Exists, NoRow
<1>2. ASSUME NEW S \in SUBSET {r \in Requests : Open(r)}, Expire(S)
      PROVE  FinalStep(q)
  BY <1>2, RowFacts DEF Expire, Inv, TypeOK, FinalStep, Exists, Open
<1>3. ASSUME NEW k \in Tokens, NEW r \in Requests, NEW v \in {"approved", "denied"},
             Decided(k, r, v)
      PROVE  FinalStep(q)
  <2>1. CASE q = r
    <3>1. /\ approval[q].state = "pending" /\ approval[q].decider = NoToken
          /\ approval'[q].state = v /\ approval'[q].by = approval[q].by
          /\ approval'[q].binding = approval[q].binding /\ outcome' = outcome
      BY <1>3, <2>1, RowFacts DEF Decided, Inv, TypeOK, RowsMatch, Exists
    <3> QED
      BY <3>1 DEF FinalStep
  <2>2. CASE q # r
    BY <1>3, <2>2 DEF Decided, Inv, TypeOK, FinalStep
  <2> QED
    BY <2>1, <2>2
<1>4. ASSUME NEW r \in Requests, Consumed(r)
      PROVE  FinalStep(q)
  BY <1>4, RowFacts DEF Consumed, Inv, TypeOK, FinalStep, Exists
<1>5. ASSUME NEW k \in Tokens, NEW e \in Events, Report(k, e)
      PROVE  FinalStep(q)
  BY <1>5 DEF Report, Inv, TypeOK, FinalStep
<1>6. ASSUME UNCHANGED store
      PROVE  FinalStep(q)
  BY <1>6 DEF store, FinalStep
<1>7. World \/ UNCHANGED vars => UNCHANGED store
  BY DEF World, Revoke, JwtExpires, ChangeRole, DeadlinePasses, CaptureAges, ProofExpires, store,
         vars
<1> QED
  BY <1>1, <1>2, <1>3, <1>4, <1>5, <1>6, <1>7, StepForms

\* Decisions, and what they were made about, are final.
THEOREM DecisionsStayFinal == Spec => DecisionsAreFinal
<1> QED
  BY InvInit, InvStep, EveryStepFinal, PTL DEF Spec, DecisionsAreFinal

\* Only a step of Consume uses an approval up, and it comes in time.
LEMMA EveryStepTimely == Inv /\ [Next]_vars => \A q \in Requests : TimelyStep(q)
<1> SUFFICES ASSUME Inv, [Next]_vars, NEW q \in Requests,
                    approval'[q].state = "consumed", approval[q].state # "consumed"
             PROVE  TimelyStep(q)
  BY DEF TimelyStep
<1>1. ASSUME NEW r \in Requests, Consumed(r)
      PROVE  TimelyStep(q)
  <2>1. q = r
    BY <1>1 DEF Consumed, Inv, TypeOK
  <2> QED
    BY <1>1, <2>1 DEF Consumed, TimelyStep, Authorized
<1>2. ASSUME NEW k \in Tokens, NEW r \in Requests, NEW b \in Bindings, Create(k, r, b)
      PROVE  FALSE
  BY <1>2 DEF Create, Inv, TypeOK
<1>3. ASSUME NEW S \in SUBSET {r \in Requests : Open(r)}, Expire(S)
      PROVE  FALSE
  BY <1>3, RowFacts DEF Expire, Inv, Exists, Open
<1>4. ASSUME NEW k \in Tokens, NEW r \in Requests, NEW v \in {"approved", "denied"},
             Decided(k, r, v)
      PROVE  FALSE
  <2>1. approval'[r].state = v
    BY <1>4, RowFacts DEF Decided, Inv, TypeOK, Exists
  <2> QED
    BY <1>4, <2>1 DEF Decided, Inv, TypeOK
<1>5. ASSUME UNCHANGED approval
      PROVE  FALSE
  BY <1>5
<1>6. World \/ UNCHANGED vars => UNCHANGED approval
  BY DEF World, Revoke, JwtExpires, ChangeRole, DeadlinePasses, CaptureAges, ProofExpires, store,
         vars
<1>7. ASSUME NEW k \in Tokens, NEW e \in Events, Report(k, e)
      PROVE  UNCHANGED approval
  BY <1>7 DEF Report
<1> QED
  BY <1>1, <1>2, <1>3, <1>4, <1>5, <1>6, <1>7, StepForms

\* An approval is used only in time and under both original credentials.
THEOREM NeverConsumedLate == Spec => NoLateConsume
<1> QED
  BY InvInit, InvStep, EveryStepTimely, PTL DEF Spec, NoLateConsume
=============================================================================
