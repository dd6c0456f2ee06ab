---------------------------- MODULE RolloutLedger ----------------------------
(***************************************************************************)
(* What a reviewed run promises of the hosts it is for, and all an auditor *)
(* needs to know: every host is changed at most once, in order, after the  *)
(* hosts before it passed and while nothing else is in the air; it is put  *)
(* back at most once, and only if it was changed; and the verdict that is  *)
(* written down is final and tells what was done.  No journal, no queue,   *)
(* no threads, no crashes: RepairRun implements this with all of them.     *)
(***************************************************************************)
EXTENDS Naturals

CONSTANTS Runs, NTargets

Hosts    == Runs \X (1..NTargets)
Verdicts == {"open", "Passed", "Restored", "Failed", "Unknown"}

VARIABLES
  done,     \* what was sent to a host: nothing, the change, the change and its undoing
  verdict   \* what the journal file says of it in the end

ledger == <<done, verdict>>

Init == /\ done = [h \in Hosts |-> "nothing"]
        /\ verdict = [h \in Hosts |-> "open"]

InTheAir(h) == done[h] # "nothing" /\ verdict[h] = "open"

Change(h) ==
  /\ done[h] = "nothing" /\ done' = [done EXCEPT ![h] = "changed"]
  /\ verdict[h] = "open" /\ UNCHANGED verdict
  /\ \A u \in 1..NTargets : u < h[2] => verdict[<<h[1], u>>] = "Passed"
  /\ ~ \E g \in Hosts : InTheAir(g)

PutBack(h) ==
  /\ done[h] = "changed" /\ done' = [done EXCEPT ![h] = "undone"]
  /\ verdict[h] = "open" /\ UNCHANGED verdict

\* A host that was undone has not passed, one that failed its check was in the
\* desired state before, and nothing is restored that was not changed.
Tells(v, d) ==
  \/ v = "Unknown"
  \/ v = "Passed" /\ d # "undone"
  \/ v = "Failed" /\ d = "nothing"
  \/ v = "Restored" /\ d # "nothing"

\* Several hosts at once: a restart gives up everything that was open.
Settle ==
  /\ verdict' \in [Hosts -> Verdicts] /\ UNCHANGED done
  /\ \A h \in Hosts :
       verdict'[h] # verdict[h] => verdict[h] = "open" /\ Tells(verdict'[h], done[h])

Next == Settle \/ \E h \in Hosts : Change(h) \/ PutBack(h)

Spec == Init /\ [][Next]_ledger
==============================================================================
