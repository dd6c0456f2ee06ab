--------------------------- MODULE GovernedRollout ---------------------------
(***************************************************************************)
(* What a run under team control promises on top of the ledger: a host is  *)
(* changed under a permit of its own, which one person asked for, another  *)
(* granted and nobody can use again, and what the team has on record of    *)
(* the change in the end is its verdict.  No client, no server, no calls,  *)
(* no lost answers and no crashes: TeamRepair implements this with all of  *)
(* them.                                                                   *)
(***************************************************************************)
EXTENDS RolloutLedger

CONSTANTS
  Permits, NoPermit,
  People, Nobody

VARIABLES
  governed,  \* the runs that need permits
  permit,    \* what was asked for, by whom, and what became of it
  under,     \* the permit a host is changed under
  told       \* what the team has on record of a permit

rollout == <<ledger, governed, permit, under, told>>

NotAsked == [state |-> "none", host |-> <<0, 0>>, by |-> Nobody, decider |-> Nobody]

GovernedInit ==
  /\ Init /\ governed = {}
  /\ permit = [q \in Permits |-> NotAsked] /\ under = [h \in Hosts |-> NoPermit]
  /\ told = [q \in Permits |-> "none"]

-----------------------------------------------------------------------------
(* The permits.                                                            *)

Ask(q, h, p) ==
  /\ permit[q] = NotAsked
  /\ permit' = [permit EXCEPT ![q] =
                  [state |-> "pending", host |-> h, by |-> p, decider |-> Nobody]]

\* Nobody decides on what they asked for.
Judge(q, p, v) ==
  /\ permit[q].state = "pending" /\ p # permit[q].by
  /\ permit' = [permit EXCEPT ![q].state = v, ![q].decider = p]

Lapse(Q) ==
  /\ \A q \in Q : permit[q].state \in {"pending", "approved"}
  /\ permit' = [q \in Permits |->
                  IF q \in Q THEN [permit[q] EXCEPT !.state = "expired"] ELSE permit[q]]

Use(q) ==
  permit[q].state = "approved" /\ permit' = [permit EXCEPT ![q].state = "consumed"]

Permitting ==
  /\ UNCHANGED <<ledger, governed, under, told>>
  /\ \/ \E q \in Permits, p \in People :
          \/ \E h \in Hosts : Ask(q, h, p)
          \/ \E v \in {"approved", "denied"} : Judge(q, p, v)
     \/ \E Q \in SUBSET Permits : Lapse(Q)
     \/ \E q \in Permits : Use(q)

\* The record is the verdict of the host that was changed under the permit, for good.
Tell(q) ==
  LET h == permit[q].host IN
  /\ told[q] = "none" /\ h \in Hosts /\ under[h] = q /\ verdict[h] # "open"
  /\ told' = [told EXCEPT ![q] = verdict[h]]
  /\ UNCHANGED <<ledger, governed, permit, under>>

-----------------------------------------------------------------------------
(* The rollout.                                                            *)

\* A run comes under control before anything is done for it, and stays under control.
Govern(r) ==
  r \notin governed /\ \A t \in 1..NTargets : done[<<r, t>>] = "nothing"

\* The permit is noted with the change, or before it; it was used up for this host.
Note(h) ==
  /\ under[h] = NoPermit /\ h[1] \in governed
  /\ done[h] = "nothing" /\ verdict[h] = "open"
  /\ under'[h] \in Permits
  /\ permit[under'[h]].state = "consumed" /\ permit[under'[h]].host = h

\* A step of the ledger, with what is written down together with it.
Work ==
  /\ UNCHANGED <<permit, told>>
  /\ Next \/ UNCHANGED ledger
  /\ governed \subseteq governed' /\ governed' \subseteq Runs
  /\ \A r \in governed' \ governed : Govern(r)
  /\ under' \in [Hosts -> Permits \cup {NoPermit}]
  /\ \A h \in Hosts : under'[h] # under[h] => Note(h)
  /\ \A h \in Hosts : h[1] \in governed' /\ done'[h] # done[h] => under'[h] # NoPermit

GovernedNext == Permitting \/ Work \/ (\E q \in Permits : Tell(q))

GovernedSpec == GovernedInit /\ [][GovernedNext]_rollout
==============================================================================
