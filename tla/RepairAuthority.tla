--------------------------- MODULE RepairAuthority ---------------------------
(***************************************************************************)
(* The team server's authority over repairs: a request made by one person  *)
(* is decided by another, used up once, and followed by one outcome.       *)
(*                                                                         *)
(*   src/src/team_server/repair.rs   the routes and their transactions     *)
(*   src/src/team_server.rs          authentication, revocation, audit     *)
(*   src/src/repair_approval.rs      the binding and when it goes stale    *)
(*                                                                         *)
(* The server answers one request after the other and each runs in one     *)
(* immediate SQLite transaction, audit entry included, so an action below  *)
(* is one request that changes the store; a request that is refused, or    *)
(* whose transaction fails, changes nothing and is not shown.  The store   *)
(* is all the state there is: a server restart loses nothing.              *)
(*                                                                         *)
(* An approval is named by the request that created it (the two ids are    *)
(* unique together).  A token is one credential: an issued API token, or   *)
(* one signed JWT of an OIDC subject (Oidc).                               *)
(***************************************************************************)
EXTENDS Naturals, FiniteSets

CONSTANTS
  Tokens,      \* credentials that callers hold
  NoToken,
  Owner,       \* the actor a token authenticates
  Role,        \* "viewer", "operator" or "admin"
  Oidc,        \* the tokens that are JWTs
  Requests,    \* request ids, and the approvals they create
  NoRequest,
  Bindings,    \* what a request can be bound to: run, target and proof
  EventIds,    \* ids of outcome events
  Results,     \* outcomes a client can report
  MaxRows,     \* 50 000 approvals
  MaxOutcomes  \* 200 000 outcomes

NoBinding == [run |-> 0, tgt |-> 0, proof |-> 0]

ASSUME AuthorityAssumption ==
  /\ NoToken \notin Tokens /\ Oidc \subseteq Tokens
  /\ Role \in [Tokens -> {"viewer", "operator", "admin"}]
  /\ DOMAIN Owner = Tokens
  /\ NoRequest \notin Requests /\ EventIds \subseteq Nat \ {0}
  /\ Bindings \subseteq [run : Nat, tgt : Nat, proof : Nat] /\ NoBinding \notin Bindings
  /\ MaxRows \in Nat /\ MaxOutcomes \in Nat

VARIABLES
  approval,   \* repair_approvals
  outcome,    \* repair_outcomes, by the approval they belong to
  audit,      \* how many entries of each kind the audit table has on an approval
  lapsed,     \* revoked API tokens and expired JWTs
  barred,     \* OIDC actors the configuration does not let operate now
  due,        \* approvals whose deadline has passed
  stale       \* bindings whose capture is 120 s old or whose proof expired

store == <<approval, outcome, audit>>
world == <<lapsed, barred, due, stale>>
vars  == <<store, world>>

NoRow     == [state |-> "none", binding |-> NoBinding, by |-> NoToken, decider |-> NoToken]
NoOutcome == [id |-> 0, approval |-> NoRequest, run |-> 0, tgt |-> 0, result |-> "none"]
AuditKinds == {"request", "approved", "denied", "expired", "consumed", "outcome"}
Events == [id : EventIds, approval : Requests, run : {b.run : b \in Bindings},
              tgt : {b.tgt : b \in Bindings}, result : Results]

Exists(q) == approval[q].state # "none"
Open(q)   == approval[q].state \in {"pending", "approved"}
Lapsing(q) == Open(q) /\ q \in due

\* The credential is still good for what only operators and admins may do.
Authorized(k) ==
  k \notin lapsed /\ Role[k] # "viewer" /\ (k \in Oidc => Owner[k] \notin barred)

Log(kind, S) ==
  audit' = [q \in Requests |->
              IF q \in S THEN [audit[q] EXCEPT ![kind] = @ + 1] ELSE audit[q]]

-----------------------------------------------------------------------------

\* POST /v1/repair-approvals with a request id not seen before.
Create(k, q, b) ==
  /\ Authorized(k) /\ ~Exists(q) /\ b \notin stale
  /\ Cardinality({r \in Requests : Exists(r)}) < MaxRows
  /\ approval' = [approval EXCEPT ![q] =
                    [state |-> "pending", binding |-> b, by |-> k, decider |-> NoToken]]
  /\ Log("request", {q})
  /\ UNCHANGED <<outcome, world>>

\* Mutant: the audit entry is written apart from the update it is about.
Expire_Unlogged(S) ==
  /\ approval' = [q \in Requests |->
                    IF q \in S THEN [approval[q] EXCEPT !.state = "expired"] ELSE approval[q]]
  /\ UNCHANGED <<audit, outcome, world>>

\* Whoever looks at an open approval after its deadline first writes it off.
Expire(S) ==
  /\ approval' = [q \in Requests |->
                    IF q \in S THEN [approval[q] EXCEPT !.state = "expired"] ELSE approval[q]]
  /\ Log("expired", S)
  /\ UNCHANGED <<outcome, world>>

\* GET /v1/repair-approvals: some page of what the caller may see.
Visible(k) ==
  {q \in Requests :
     /\ Exists(q)
     /\ \/ Owner[approval[q].by] = Owner[k]
        \/ approval[q].decider # NoToken /\ Owner[approval[q].decider] = Owner[k]
        \/ approval[q].state = "pending"}

List(k) ==
  /\ Authorized(k)
  /\ \E page \in SUBSET Visible(k) :
       LET S == {q \in page : Lapsing(q)} IN S # {} /\ Expire(S)

\* Mutants: two tokens count as two people; a decision can be revised.
Decide_ByToken(k, q, verdict) ==
  /\ Authorized(k) /\ Exists(q)
  /\ \/ Lapsing(q) /\ Expire({q})
     \/ /\ ~Lapsing(q) /\ approval[q].state = "pending" /\ k # approval[q].by
        /\ approval' = [approval EXCEPT ![q].state = verdict, ![q].decider = k]
        /\ Log(verdict, {q})
        /\ UNCHANGED <<outcome, world>>

Decide_Again(k, q, verdict) ==
  /\ Authorized(k) /\ Exists(q)
  /\ \/ Lapsing(q) /\ Expire({q})
     \/ /\ ~Lapsing(q) /\ approval[q].state # "consumed"
        /\ Owner[k] # Owner[approval[q].by]
        /\ approval' = [approval EXCEPT ![q].state = verdict, ![q].decider = k]
        /\ Log(verdict, {q})
        /\ UNCHANGED <<outcome, world>>

\* POST .../decision: somebody else than the requester.
Decide(k, q, verdict) ==
  /\ Authorized(k) /\ Exists(q)
  /\ \/ Lapsing(q) /\ Expire({q})
     \/ /\ ~Lapsing(q) /\ approval[q].state = "pending"
        /\ Owner[k] # Owner[approval[q].by]
        /\ approval' = [approval EXCEPT ![q].state = verdict, ![q].decider = k]
        /\ Log(verdict, {q})
        /\ UNCHANGED <<outcome, world>>

\* Mutant: only the caller's credential is looked at.
Consume_CallerOnly(k, q, b) ==
  /\ Authorized(k) /\ Exists(q)
  /\ \/ Lapsing(q) /\ Expire({q})
     \/ /\ ~Lapsing(q) /\ approval[q].state = "approved"
        /\ Owner[k] = Owner[approval[q].by]
        /\ b = approval[q].binding /\ b \notin stale
        /\ approval' = [approval EXCEPT ![q].state = "consumed"]
        /\ Log("consumed", {q})
        /\ UNCHANGED <<outcome, world>>

\* POST .../consume: both original credentials still have to be good.
Consume(k, q, b) ==
  /\ Authorized(k) /\ Exists(q)
  /\ \/ Lapsing(q) /\ Expire({q})
     \/ /\ ~Lapsing(q) /\ approval[q].state = "approved"
        /\ Owner[k] = Owner[approval[q].by]
        /\ b = approval[q].binding /\ b \notin stale
        /\ Authorized(approval[q].by) /\ Authorized(approval[q].decider)
        /\ Owner[approval[q].decider] # Owner[k]
        /\ approval' = [approval EXCEPT ![q].state = "consumed"]
        /\ Log("consumed", {q})
        /\ UNCHANGED <<outcome, world>>

\* Mutant: the run and the target an outcome names are not compared.
Report_AnyRun(k, e) ==
  LET q == e.approval IN
  /\ Authorized(k) /\ approval[q].state = "consumed"
  /\ Owner[k] = Owner[approval[q].by] \/ Role[k] = "admin"
  /\ \A r \in Requests : outcome[r].id # e.id
  /\ outcome[q] = NoOutcome
  /\ Cardinality({r \in Requests : outcome[r] # NoOutcome}) < MaxOutcomes
  /\ outcome' = [outcome EXCEPT ![q] = e]
  /\ Log("outcome", {q})
  /\ UNCHANGED <<approval, world>>

\* POST /v1/repair-outcomes with an event not recorded before.
Report(k, e) ==
  LET q == e.approval IN
  /\ Authorized(k) /\ approval[q].state = "consumed"
  /\ e.run = approval[q].binding.run /\ e.tgt = approval[q].binding.tgt
  /\ Owner[k] = Owner[approval[q].by] \/ Role[k] = "admin"
  /\ \A r \in Requests : outcome[r].id # e.id
  /\ outcome[q] = NoOutcome
  /\ Cardinality({r \in Requests : outcome[r] # NoOutcome}) < MaxOutcomes
  /\ outcome' = [outcome EXCEPT ![q] = e]
  /\ Log("outcome", {q})
  /\ UNCHANGED <<approval, world>>

-----------------------------------------------------------------------------
(* What happens around the store.                                          *)

\* POST /v1/revoke: an admin withdraws a token that is not the one in use.
Revoke(a, k) ==
  /\ Authorized(a) /\ Role[a] = "admin" /\ a # k
  /\ k \in Tokens \ Oidc /\ k \notin lapsed
  /\ lapsed' = lapsed \cup {k}
  /\ UNCHANGED <<store, barred, due, stale>>

\* A JWT expires, and with it the deadline of what was requested under it.
JwtExpires(k) ==
  /\ k \in Oidc \ lapsed /\ lapsed' = lapsed \cup {k}
  /\ due' = due \cup {q \in Requests : approval[q].by = k}
  /\ UNCHANGED <<store, barred, stale>>

\* The subject-role binding of an OIDC actor is taken away or given back.
ChangeRole(k) ==
  /\ k \in Oidc
  /\ barred' = IF Owner[k] \in barred THEN barred \ {Owner[k]} ELSE barred \cup {Owner[k]}
  /\ UNCHANGED <<store, lapsed, due, stale>>

\* The ten minutes of an open approval are over.
DeadlinePasses(q) ==
  /\ Open(q) /\ q \notin due /\ due' = due \cup {q}
  /\ UNCHANGED <<store, lapsed, barred, stale>>

\* Two minutes pass after the capture a binding describes.
CaptureAges(b) ==
  /\ b \notin stale /\ stale' = stale \cup {b}
  /\ UNCHANGED <<store, lapsed, barred, due>>

\* A proof expires: so do all bindings that cite it, and their approvals.
ProofExpires(b) ==
  LET S == {c \in Bindings : c.proof = b.proof} IN
  /\ ~(S \subseteq stale) /\ stale' = stale \cup S
  /\ due' = due \cup {q \in Requests : Exists(q) /\ approval[q].binding \in S}
  /\ UNCHANGED <<store, lapsed, barred>>

-----------------------------------------------------------------------------

Init ==
  /\ approval = [q \in Requests |-> NoRow]
  /\ outcome = [q \in Requests |-> NoOutcome]
  /\ audit = [q \in Requests |-> [kind \in AuditKinds |-> 0]]
  /\ lapsed = {} /\ barred = {} /\ due = {} /\ stale = {}

Serve(k) ==
  \/ \E q \in Requests, b \in Bindings : Create(k, q, b) \/ Consume(k, q, b)
  \/ List(k)
  \/ \E q \in Requests, v \in {"approved", "denied"} : Decide(k, q, v)
  \/ \E e \in Events : Report(k, e)

World ==
  \/ \E k \in Tokens : (\E a \in Tokens : Revoke(a, k)) \/ JwtExpires(k) \/ ChangeRole(k)
  \/ \E q \in Requests : DeadlinePasses(q)
  \/ \E b \in Bindings : CaptureAges(b) \/ ProofExpires(b)

Next == (\E k \in Tokens : Serve(k)) \/ World

Spec == Init /\ [][Next]_vars

-----------------------------------------------------------------------------
(* Properties.                                                             *)

Rows ==
  [state : {"pending", "approved", "denied", "expired", "consumed"}, binding : Bindings,
   by : Tokens, decider : Tokens \cup {NoToken}] \cup {NoRow}

\* Every variable holds a value of the type the tables give it.
TypeOK ==
  /\ approval \in [Requests -> Rows]
  /\ outcome \in [Requests -> Events \cup {NoOutcome}]
  /\ audit \in [Requests -> [AuditKinds -> Nat]]
  /\ lapsed \subseteq Tokens /\ barred \subseteq {Owner[k] : k \in Oidc}
  /\ due \subseteq Requests /\ stale \subseteq Bindings

\* Nothing is approved or used up but by two different people, however many
\* tokens each of them holds and whichever is revoked in between.
TwoPeople ==
  \A q \in Requests :
    approval[q].state \in {"approved", "consumed"} =>
      /\ approval[q].by \in Tokens /\ approval[q].decider \in Tokens
      /\ Owner[approval[q].by] # Owner[approval[q].decider]
      /\ Role[approval[q].by] # "viewer" /\ Role[approval[q].decider] # "viewer"

\* The audit table says exactly what happened: one entry per transition an
\* approval has made, none for one it has not, one use at most.
AuditMatches ==
  \A q \in Requests :
    /\ audit[q]["request"]  = IF Exists(q) THEN 1 ELSE 0
    /\ audit[q]["denied"]   = IF approval[q].state = "denied" THEN 1 ELSE 0
    /\ audit[q]["consumed"] = IF approval[q].state = "consumed" THEN 1 ELSE 0
    /\ audit[q]["expired"]  = IF approval[q].state = "expired" THEN 1 ELSE 0
    /\ audit[q]["approved"] =
         IF approval[q].decider # NoToken /\ approval[q].state # "denied" THEN 1 ELSE 0
    /\ audit[q]["outcome"]  = IF outcome[q] # NoOutcome THEN 1 ELSE 0

\* An outcome exists only for a used-up approval, is about the run and target it
\* authorised, and no event counts for two approvals.
OutcomeBelongs ==
  \A q \in Requests :
    outcome[q] # NoOutcome =>
      /\ approval[q].state = "consumed" /\ outcome[q].approval = q
      /\ outcome[q].run = approval[q].binding.run
      /\ outcome[q].tgt = approval[q].binding.tgt
      /\ \A r \in Requests : outcome[r].id = outcome[q].id => r = q

FinalStep(q) ==
  LET old == approval[q]
      new == approval'[q] IN
  /\ new # old => <<old.state, new.state>> \in
       {<<"none", "pending">>, <<"pending", "approved">>, <<"pending", "denied">>,
        <<"pending", "expired">>, <<"approved", "consumed">>, <<"approved", "expired">>}
  /\ Exists(q) => new.binding = old.binding /\ new.by = old.by
  /\ old.decider # NoToken => new.decider = old.decider
  /\ outcome[q] # NoOutcome => outcome'[q] = outcome[q]

\* What is decided stays decided: no path leads back to an earlier state, who
\* asked for what never changes, nor does who decided, nor a recorded outcome.
DecisionsAreFinal == [][\A q \in Requests : FinalStep(q)]_vars

TimelyStep(q) ==
  (approval'[q].state = "consumed" /\ approval[q].state # "consumed") =>
    /\ q \notin due /\ approval[q].binding \notin stale
    /\ {approval[q].by, approval[q].decider} \cap lapsed = {}
    /\ \A k \in {approval[q].by, approval[q].decider} : k \in Oidc => Owner[k] \notin barred

\* A use that comes too late is refused: the deadline passed, the evidence went
\* stale, or either original credential was withdrawn after the decision, even if
\* its owner now calls with another one.
NoLateConsume == [][\A q \in Requests : TimelyStep(q)]_vars
=============================================================================
