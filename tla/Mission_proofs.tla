---------------------------- MODULE Mission_proofs ----------------------------
(***************************************************************************)
(* What Mission Control guarantees for any number of computers and steps,  *)
(* with failed saves, a full queue, restarts, and an operator who pauses,  *)
(* cancels and clears at any time.                                         *)
(*                                                                         *)
(* Good says of a mission, in memory or on disk, that its evidence is no   *)
(* older than the commands that ran, and that nothing ran, or may run, of  *)
(* which it knows nothing.  Current says why: the only job that may still  *)
(* start is the one the window waits for, and memory and disk both show    *)
(* its step as running.                                                    *)
(***************************************************************************)
EXTENDS Mission, TLAPS

\* r: the attempts that were started; J: the jobs there are.
Good(m, r, J) ==
  /\ m \in Missions /\ (m.rollout => PilotPassed(m))
  /\ \A at \in Places : m.out[at].status \in {"Review", "Passed"} =>
       m.out[at].of # 0 /\ m.out[at].of >= r[at]
  /\ \A at \in Places : (r[at] # 0 \/ \E j \in J : j.step.at = at) =>
       m.out[at].status # "Pending" /\ (at[1] # Pilot => m.rollout)

JobsSound ==
  /\ \A j \in jobs : j.step # NoStep /\ j.step.n <= begun
  /\ \A j, k \in jobs : j.step = k.step => j = k
  /\ \A j \in jobs : (j.status = "Queued" /\ ~j.cancel) => j.step = remote

Current ==
  /\ \A at \in Places : ran[at] <= begun
  /\ pending # NoStep => pending.n = begun
  /\ remote # NoStep =>
       /\ remote.n = begun
       /\ mission.out[remote.at].status = "Running" /\ stored.out[remote.at].status = "Running"

MissionInv ==
  /\ MissionTypeOK /\ JobsSound /\ Current
  /\ Good(mission, ran, jobs) /\ Good(stored, ran, jobs)
-----------------------------------------------------------------------------
(* What the operations on a mission keep.                                  *)

LEMMA StepFacts ==
  ASSUME NEW x \in StepIds, x # NoStep
  PROVE  x.at \in Places /\ x.n \in 1..MaxAttempts
  BY DEF StepIds

LEMMA NoPlace == NoStep \in StepIds /\ NoStep.at \notin Places
  BY MissionAssumption DEF NoStep, StepIds, Places

LEMMA SetFacts ==
  ASSUME NEW m \in Missions, NEW at \in Places, NEW o \in Outcomes
  PROVE  /\ Set(m, at, o) \in Missions /\ Set(m, at, o).out[at] = o
         /\ Set(m, at, o).rollout = m.rollout /\ Set(m, at, o).paused = m.paused
         /\ \A x \in Places \ {at} : Set(m, at, o).out[x] = m.out[x]
  BY DEF Set, Missions

LEMMA MarkFacts ==
  ASSUME NEW m \in Missions, NEW at \in Places, NEW st \in {"Passed", "Failed"}
  PROVE  Mark(m, at, st) = Set(m, at, [status |-> st, of |-> m.out[at].of])
<1>1. [m.out[at] EXCEPT !.status = st] = [status |-> st, of |-> m.out[at].of]
  BY DEF Missions, Outcomes
<1>2. Mark(m, at, st) = [m EXCEPT !.out = [m.out EXCEPT ![at] = [m.out[at] EXCEPT !.status = st]]]
  BY DEF Mark
<1>3. Set(m, at, [status |-> st, of |-> m.out[at].of])
        = [m EXCEPT !.out = [m.out EXCEPT ![at] = [status |-> st, of |-> m.out[at].of]]]
  BY DEF Set
<1> QED
  BY <1>1, <1>2, <1>3

LEMMA InterruptedFacts ==
  ASSUME NEW m \in Missions
  PROVE  /\ Interrupted(m) \in Missions /\ Interrupted(m).rollout = m.rollout
         /\ \A at \in Places : Interrupted(m).out[at] =
              IF m.out[at].status = "Running" THEN [status |-> "Interrupted", of |-> m.out[at].of]
              ELSE m.out[at]
<1> DEFINE f == [at \in Places |-> IF m.out[at].status = "Running"
                                   THEN [m.out[at] EXCEPT !.status = "Interrupted"] ELSE m.out[at]]
<1>1. \A at \in Places : m.out[at] \in Outcomes
  BY DEF Missions
<1>2. \A at \in Places : [m.out[at] EXCEPT !.status = "Interrupted"]
                           = [status |-> "Interrupted", of |-> m.out[at].of]
  BY <1>1 DEF Outcomes
<1>3. \A at \in Places : [status |-> "Interrupted", of |-> m.out[at].of] \in Outcomes
  BY <1>1 DEF Outcomes
<1>4. f \in [Places -> Outcomes]
  BY <1>1, <1>2, <1>3
<1>5. Interrupted(m) = [m EXCEPT !.paused = TRUE, !.out = f]
  BY DEF Interrupted
<1> HIDE DEF f
<1>6. /\ Interrupted(m) \in Missions /\ Interrupted(m).rollout = m.rollout
      /\ Interrupted(m).out = f
  BY <1>4, <1>5 DEF Missions
<1> QED
  BY <1>2, <1>6 DEF f

\* A place that does not count as passed may be set to anything but fresh.
LEMMA SetGood ==
  ASSUME NEW r \in [Places -> Nat], NEW J, NEW m, Good(m, r, J), NEW at \in Places,
         NEW o \in Outcomes, m.out[at].status # "Passed", o.status # "Pending",
         o.status \in {"Review", "Passed"} => o.of # 0 /\ o.of >= r[at]
  PROVE  Good(Set(m, at, o), r, J)
<1> DEFINE n == Set(m, at, o)
<1>1. /\ n \in Missions /\ n.out[at] = o /\ n.rollout = m.rollout
      /\ \A x \in Places \ {at} : n.out[x] = m.out[x]
  BY SetFacts DEF Good
<1> HIDE DEF n
<1>2. n.rollout => PilotPassed(n)
  <2>1. SUFFICES ASSUME n.rollout, NEW s \in Steps PROVE n.out[<<Pilot, s>>].status = "Passed"
    BY DEF PilotPassed, Status
  <2>2. m.out[<<Pilot, s>>].status = "Passed" /\ <<Pilot, s>> \in Places
    BY <1>1, <2>1, MissionAssumption DEF Good, PilotPassed, Status, Places
  <2> QED
    BY <1>1, <2>2
<1>3. \A x \in Places : n.out[x].status \in {"Review", "Passed"} =>
        n.out[x].of # 0 /\ n.out[x].of >= r[x]
  BY <1>1 DEF Good
<1>4. \A x \in Places : (r[x] # 0 \/ \E j \in J : j.step.at = x) =>
        n.out[x].status # "Pending" /\ (x[1] # Pilot => n.rollout)
  BY <1>1 DEF Good
<1> QED
  BY <1>1, <1>2, <1>3, <1>4 DEF Good, n

LEMMA InterruptedGood ==
  ASSUME NEW r \in [Places -> Nat], NEW J, NEW m, Good(m, r, J)
  PROVE  Good(Interrupted(m), r, J)
<1> DEFINE n == Interrupted(m)
<1>1. /\ n \in Missions /\ n.rollout = m.rollout
      /\ \A at \in Places : n.out[at] =
           IF m.out[at].status = "Running" THEN [status |-> "Interrupted", of |-> m.out[at].of]
           ELSE m.out[at]
  BY InterruptedFacts DEF Good
<1> HIDE DEF n
<1>2. \A s \in Steps : <<Pilot, s>> \in Places
  BY MissionAssumption DEF Places
<1>3. n.rollout => PilotPassed(n)
  BY <1>1, <1>2 DEF Good, PilotPassed, Status
<1>4. ASSUME NEW at \in Places
      PROVE  n.out[at] = m.out[at] \/ n.out[at].status = "Interrupted"
  <2>1. CASE m.out[at].status = "Running"
    <3>1. n.out[at] = [status |-> "Interrupted", of |-> m.out[at].of]
      BY <1>1, <2>1
    <3> QED
      BY <3>1
  <2> QED
    BY <1>1, <2>1
<1>5. \A at \in Places : m.out[at].status # "Pending" => n.out[at].status # "Pending"
  BY <1>4
<1>6. \A at \in Places : n.out[at].status \in {"Review", "Passed"} =>
        n.out[at].of # 0 /\ n.out[at].of >= r[at]
  BY <1>4 DEF Good
<1>7. \A at \in Places : (r[at] # 0 \/ \E j \in J : j.step.at = at) =>
        n.out[at].status # "Pending" /\ (at[1] # Pilot => n.rollout)
  BY <1>1, <1>5 DEF Good
<1> QED
  BY <1>1, <1>3, <1>6, <1>7 DEF Good, n

LEMMA RolloutGood ==
  ASSUME NEW r \in [Places -> Nat], NEW J, NEW m, Good(m, r, J), PilotPassed(m)
  PROVE  Good([m EXCEPT !.rollout = TRUE], r, J)
  BY DEF Good, Missions, PilotPassed, Status

LEMMA ResumedGood ==
  ASSUME NEW r \in [Places -> Nat], NEW J, NEW m, Good(m, r, J)
  PROVE  Good([m EXCEPT !.paused = FALSE], r, J)
  BY DEF Good, Missions, PilotPassed, Status

LEMMA RecordedGood ==
  ASSUME NEW r \in [Places -> Nat], NEW J, NEW m, Good(m, r, J), NEW x \in StepIds,
         x # NoStep, x.n >= r[x.at]
  PROVE  Good(Recorded(m, x), r, J)
<1>1. x.at \in Places /\ x.n \in 1..MaxAttempts
  BY StepFacts
<1>2. [status |-> "Review", of |-> x.n] \in Outcomes /\ x.n # 0
  BY <1>1, MissionAssumption DEF Outcomes
<1>3. CASE m.out[x.at].status = "Running"
  BY <1>1, <1>2, <1>3, SetGood DEF Recorded
<1>4. CASE m.out[x.at].status # "Running"
  BY <1>4 DEF Recorded
<1> QED
  BY <1>3, <1>4

\* Fewer jobs, or the same ones in another state, and nothing is started.
LEMMA FewerJobsGood ==
  ASSUME NEW r, NEW J, NEW K, NEW m, Good(m, r, J), \A k \in K : \E j \in J : j.step = k.step
  PROVE  Good(m, r, K)
  BY DEF Good
-----------------------------------------------------------------------------
(* The steps of the window.                                                *)

LEMMA InvFacts ==
  ASSUME MissionInv
  PROVE  /\ ran \in [Places -> Nat] /\ begun \in Nat /\ begun <= MaxAttempts
         /\ mission \in Missions /\ stored \in Missions
         /\ \A at \in Places : ran[at] \in Nat /\ ran[at] <= begun
         /\ \A j \in jobs : j.step \in StepIds /\ j.step # NoStep
  BY MissionAssumption DEF MissionInv, MissionTypeOK, Current, JobsSound

\* A mission that was saved, or not, is as good in memory as on disk.
LEMMA SavedGood ==
  ASSUME MissionInv, NEW m, Good(m, ran, jobs), mission' = m, stored' \in {stored, m},
         ran' = ran, \A k \in jobs' : \E j \in jobs : j.step = k.step
  PROVE  Good(mission', ran', jobs') /\ Good(stored', ran', jobs')
  BY FewerJobsGood DEF MissionInv

LEMMA TypeFromGood ==
  ASSUME Good(mission', ran', jobs'), Good(stored', ran', jobs'),
         pending' \in StepIds, remote' \in StepIds, pending' = NoStep \/ remote' = NoStep,
         jobs' \subseteq [step : StepIds, cancel : BOOLEAN,
                          status : {"Queued", "Running", "Finished", "Cancelled"}],
         begun' \in 0..MaxAttempts, ran' \in [Places -> 0..MaxAttempts]
  PROVE  MissionTypeOK'
<1>1. mission' \in Missions /\ (mission'.rollout => PilotPassed(mission'))
  BY DEF Good
<1>2. stored' \in Missions /\ (stored'.rollout => PilotPassed(stored'))
  BY DEF Good
<1> QED
  BY <1>1, <1>2 DEF MissionTypeOK

\* A step that may begin is not one that is under way or confirmed.
LEMMA BegunGood ==
  ASSUME MissionInv, NEW t \in Targets, NEW s \in Steps, MayBegin(t, s)
  PROVE  /\ Good(Begun(t, s), ran, jobs)
         /\ Begun(t, s).out[<<t, s>>].status = "Running"
         /\ t # Pilot => Begun(t, s).rollout
<1>1. <<t, s>> \in Places
  BY DEF Places
<1>2. [status |-> "Running", of |-> 0] \in Outcomes
  BY MissionAssumption DEF Outcomes
<1>3. mission.out[<<t, s>>].status # "Passed" /\ (t # Pilot => mission.rollout)
  BY DEF MayBegin, Status, Started
<1>4. Good(Begun(t, s), ran, jobs)
  BY <1>1, <1>2, <1>3, InvFacts, SetGood DEF Begun, MissionInv
<1>5. Begun(t, s).out[<<t, s>>] = [status |-> "Running", of |-> 0]
      /\ Begun(t, s).rollout = mission.rollout
  BY <1>1, <1>2, InvFacts, SetFacts DEF Begun
<1> QED
  BY <1>3, <1>4, <1>5

LEMMA AttemptFacts ==
  ASSUME MissionInv, NEW t \in Targets, NEW s \in Steps, Attempt(t, s)
  PROVE  /\ pending = NoStep /\ remote = NoStep /\ MayBegin(t, s)
         /\ begun' = begun + 1 /\ begun' \in 1..MaxAttempts
         /\ Step(t, s) \in StepIds /\ Step(t, s) # NoStep
         /\ Step(t, s).at = <<t, s>> /\ Step(t, s).n = begun'
         /\ \A at \in Places : ran[at] < begun'
         /\ \A j \in jobs : j.step # Step(t, s) /\ ~(j.status = "Queued" /\ ~j.cancel)
<1>1. begun \in 0..MaxAttempts /\ begun < MaxAttempts /\ begun' = begun + 1 /\ MaxAttempts \in Nat
  BY MissionAssumption DEF MissionInv, MissionTypeOK, Attempt
<1>2. Step(t, s) \in StepIds /\ Step(t, s) # NoStep /\ Step(t, s).at = <<t, s>> /\ Step(t, s).n = begun'
  BY <1>1 DEF Step, StepIds, NoStep, Places
<1>3. \A at \in Places : ran[at] < begun'
  BY <1>1, InvFacts
<1>4. \A j \in jobs : j.step # Step(t, s) /\ ~(j.status = "Queued" /\ ~j.cancel)
  <2>1. \A j \in jobs : j.step.n \in Nat /\ j.step.n <= begun
    BY InvFacts, StepFacts DEF MissionInv, JobsSound
  <2>2. \A j \in jobs : (j.status = "Queued" /\ ~j.cancel) => j.step = remote
    BY DEF MissionInv, JobsSound
  <2> QED
    BY <1>1, <1>2, <2>1, <2>2, InvFacts DEF Attempt, Idle
<1> QED
  BY <1>1, <1>2, <1>3, <1>4 DEF Attempt, Idle

LEMMA ObserveGood ==
  ASSUME MissionInv, NEW t \in Targets, NEW s \in Steps, StartObserve(t, s)
  PROVE  MissionInv'
<1>1. /\ pending' = Step(t, s) /\ UNCHANGED <<remote, jobs, ran>>
      /\ mission' = Begun(t, s) /\ stored' \in {stored, Begun(t, s)} /\ Attempt(t, s)
  BY DEF StartObserve, SaveAs
<1>2. Good(mission', ran', jobs') /\ Good(stored', ran', jobs')
  BY <1>1, BegunGood, AttemptFacts, SavedGood
<1>3. MissionTypeOK'
  BY <1>1, <1>2, AttemptFacts, TypeFromGood, MissionAssumption DEF MissionInv, MissionTypeOK
<1>4. JobsSound'
  BY <1>1, AttemptFacts, InvFacts, StepFacts DEF MissionInv, JobsSound
<1>5. Current'
  BY <1>1, AttemptFacts, InvFacts DEF Current
<1> QED
  BY <1>2, <1>3, <1>4, <1>5 DEF MissionInv

LEMMA OperatorGood ==
  ASSUME MissionInv, NEW t \in Targets, NEW s \in Steps, StartOperator(t, s)
  PROVE  MissionInv'
<1> DEFINE m == Recorded(Begun(t, s), Step(t, s))
<1>1. /\ UNCHANGED <<pending, remote, jobs, ran>>
      /\ mission' = m /\ stored' \in {stored, m} /\ Attempt(t, s)
  BY DEF StartOperator, SaveAs
<1>2. Good(m, ran, jobs)
  <2>1. Step(t, s).n >= ran[Step(t, s).at]
    BY <1>1, AttemptFacts, StepFacts, InvFacts
  <2> QED
    BY <1>1, <2>1, BegunGood, AttemptFacts, RecordedGood, InvFacts
<1> HIDE DEF m
<1>3. Good(mission', ran', jobs') /\ Good(stored', ran', jobs')
  BY <1>1, <1>2, SavedGood
<1>4. MissionTypeOK'
  BY <1>1, <1>3, AttemptFacts, TypeFromGood, MissionAssumption DEF MissionInv, MissionTypeOK
<1>5. JobsSound'
  BY <1>1, AttemptFacts, InvFacts, StepFacts DEF MissionInv, JobsSound
<1>6. Current'
  BY <1>1, AttemptFacts, InvFacts DEF Current
<1> QED
  BY <1>3, <1>4, <1>5, <1>6 DEF MissionInv
\* A command's job is queued with the mission stored as running it, or not at all.
LEMMA CommandGood ==
  ASSUME MissionInv, NEW t \in Targets, NEW s \in Steps, StartCommand(t, s)
  PROVE  MissionInv'
<1> DEFINE x == Step(t, s)
           m == Begun(t, s)
<1>1. UNCHANGED <<pending, ran>> /\ Attempt(t, s) /\ <<t, s>> \in Places
  BY DEF StartCommand, Places
<1>2. /\ Good(m, ran, jobs) /\ m.out[<<t, s>>].status = "Running" /\ (t # Pilot => m.rollout)
  BY <1>1, BegunGood, AttemptFacts
<1>3. Good(Interrupted(m), ran, jobs)
  BY <1>2, InvFacts, InterruptedGood
<1>4. /\ x \in StepIds /\ x # NoStep /\ x.at = <<t, s>> /\ x.n = begun'
      /\ pending = NoStep /\ remote = NoStep /\ begun' \in 1..MaxAttempts /\ begun' = begun + 1
      /\ \A at \in Places : ran[at] < begun'
      /\ \A j \in jobs : j.step # x /\ ~(j.status = "Queued" /\ ~j.cancel)
      /\ \A j \in jobs : j.step # NoStep /\ j.step.n <= begun'
  BY <1>1, AttemptFacts, InvFacts, StepFacts DEF MissionInv, JobsSound
<1> HIDE DEF m, x
<1>5. CASE mission' = m /\ stored' = m /\ remote' = x /\ jobs' = jobs \cup {Job(x)}
  <2>1. Job(x).step = x /\ Job(x) \in [step : StepIds, cancel : BOOLEAN,
                                       status : {"Queued", "Running", "Finished", "Cancelled"}]
    BY <1>4 DEF Job
  <2>2. Good(m, ran, jobs')
    <3>1. (<<t, s>>)[1] = t
      OBVIOUS
    <3> QED
      BY <1>2, <1>4, <1>5, <2>1, <3>1 DEF Good
  <2>3. MissionTypeOK'
    BY <1>1, <1>4, <1>5, <2>1, <2>2, TypeFromGood, MissionAssumption DEF MissionInv, MissionTypeOK
  <2>4. JobsSound'
    BY <1>4, <1>5, <2>1 DEF MissionInv, JobsSound
  <2>5. Current'
    BY <1>1, <1>2, <1>4, <1>5, InvFacts DEF Current
  <2> QED
    BY <1>1, <1>5, <2>2, <2>3, <2>4, <2>5 DEF MissionInv
<1>6. ASSUME mission' = Interrupted(m), stored' \in {stored, m, Interrupted(m)},
             UNCHANGED <<remote, jobs>>
      PROVE  MissionInv'
  <2>1. Good(mission', ran', jobs') /\ Good(stored', ran', jobs')
    BY <1>1, <1>2, <1>3, <1>6 DEF MissionInv
  <2>2. MissionTypeOK'
    BY <1>1, <1>4, <1>6, <2>1, TypeFromGood, MissionAssumption DEF MissionInv, MissionTypeOK
  <2>3. JobsSound'
    BY <1>4, <1>6 DEF MissionInv, JobsSound
  <2>4. Current'
    BY <1>1, <1>4, <1>6, InvFacts DEF Current
  <2> QED
    BY <2>1, <2>2, <2>3, <2>4 DEF MissionInv
<1> QED
  BY <1>5, <1>6 DEF StartCommand, Saved, NotSaved, m, x

\* What is polled, confirmed, approved or resumed begins nothing.
LEMMA QuietStep ==
  ASSUME MissionInv, NEW m, Good(m, ran, jobs), SaveAs(m), UNCHANGED <<jobs, begun, ran>>,
         pending' \in {pending, NoStep},
         \/ remote' = remote /\ (remote # NoStep => m.out[remote.at].status = "Running")
         \/ remote' = NoStep /\ \A j \in jobs : ~(j.status = "Queued" /\ ~j.cancel)
  PROVE  MissionInv'
<1>1. Good(mission', ran', jobs') /\ Good(stored', ran', jobs')
  BY DEF SaveAs, MissionInv
<1>2. MissionTypeOK'
  BY <1>1, TypeFromGood, NoPlace DEF MissionInv, MissionTypeOK
<1>3. JobsSound'
  BY DEF MissionInv, JobsSound
<1>4. Current'
  BY DEF MissionInv, Current, SaveAs
<1> QED
  BY <1>1, <1>2, <1>3, <1>4 DEF MissionInv

LEMMA PollGood ==
  ASSUME MissionInv, PollCheck \/ PollJob
  PROVE  MissionInv'
<1>1. Good(mission, ran, jobs) /\ \A at \in Places : ran[at] <= begun
  BY InvFacts DEF MissionInv
<1>2. CASE PollCheck
  <2>1. /\ pending \in StepIds /\ pending # NoStep /\ remote = NoStep /\ pending.n = begun
        /\ pending.at \in Places
    BY <1>2, StepFacts DEF PollCheck, MissionInv, MissionTypeOK, Current
  <2>2. Good(Recorded(mission, pending), ran, jobs)
    <3>1. pending.n >= ran[pending.at]
      BY <1>1, <2>1, InvFacts
    <3> QED
      BY <1>1, <2>1, <3>1, RecordedGood, InvFacts
  <2> QED
    BY <1>2, <2>1, <2>2, QuietStep DEF PollCheck
<1>3. CASE PollJob
  <2>1. /\ remote \in StepIds /\ remote # NoStep /\ remote.n = begun /\ remote.at \in Places
    BY <1>3, StepFacts DEF PollJob, LetGo, MissionInv, MissionTypeOK, Current
  <2>2. UNCHANGED <<pending, jobs, begun, ran>> /\ remote' = NoStep
    BY <1>3 DEF PollJob, LetGo
  <2>3. \A j \in jobs : (j.status = "Queued" /\ ~j.cancel) => j.step = remote
    BY DEF MissionInv, JobsSound
  <2>4. ASSUME NEW j \in jobs, j.step = remote, Ended(j), SaveAs(Recorded(mission, j.step))
        PROVE  MissionInv'
    <3>1. Good(Recorded(mission, remote), ran, jobs)
      <4>1. remote.n >= ran[remote.at]
        BY <1>1, <2>1, InvFacts
      <4> QED
        BY <1>1, <2>1, <4>1, RecordedGood, InvFacts
    <3>2. \A k \in jobs : ~(k.status = "Queued" /\ ~k.cancel)
      BY <2>3, <2>4 DEF MissionInv, JobsSound, Ended
    <3> QED
      BY <2>2, <2>4, <3>1, <3>2, QuietStep
  <2>5. ASSUME Lost
        PROVE  MissionInv'
    <3>1. \A k \in jobs : ~(k.status = "Queued" /\ ~k.cancel)
      BY <2>3, <2>5 DEF Lost
    <3>2. Good(Interrupted(mission), ran, jobs)
      BY <1>1, InterruptedGood, InvFacts
    <3> QED
      BY <2>2, <2>5, <3>1, <3>2, QuietStep DEF Lost
  <2> QED
    BY <1>3, <2>4, <2>5 DEF PollJob
<1> QED
  BY <1>2, <1>3

LEMMA RunningRemote ==
  ASSUME MissionInv, remote # NoStep
  PROVE  remote.at \in Places /\ mission.out[remote.at].status = "Running"
  BY StepFacts DEF MissionInv, MissionTypeOK, Current

LEMMA VerifyGood ==
  ASSUME MissionInv, NEW t \in Targets, NEW s \in Steps, NEW passed \in BOOLEAN,
         Verify(t, s, passed)
  PROVE  MissionInv'
<1> DEFINE at == <<t, s>>
           st == IF passed THEN "Passed" ELSE "Failed"
           o  == [status |-> st, of |-> mission.out[at].of]
<1>1. at \in Places /\ mission.out[at].status = "Review" /\ SaveAs(Mark(mission, at, st))
      /\ UNCHANGED <<pending, remote, jobs, begun, ran>> /\ st \in {"Passed", "Failed"}
  BY DEF Verify, Status, Places
<1>2. o \in Outcomes /\ o.status = st /\ o.of = mission.out[at].of
  BY <1>1, InvFacts DEF Missions, Outcomes
<1> HIDE DEF at, st
<1>3. Mark(mission, at, st) = Set(mission, at, o)
  BY <1>1, MarkFacts, InvFacts
<1>4. mission.out[at].of # 0 /\ mission.out[at].of >= ran[at]
  BY <1>1 DEF MissionInv, Good
<1> HIDE DEF o
<1>5. Good(Set(mission, at, o), ran, jobs)
  BY <1>1, <1>2, <1>4, SetGood, InvFacts DEF MissionInv
<1>6. remote # NoStep => Set(mission, at, o).out[remote.at].status = "Running"
  BY <1>1, <1>2, RunningRemote, SetFacts, InvFacts
<1> QED
  BY <1>1, <1>3, <1>5, <1>6, QuietStep

LEMMA ApproveGood ==
  ASSUME MissionInv, ApproveRollout \/ Resume \/ MapLocalProfiles
  PROVE  MissionInv'
<1>1. UNCHANGED <<pending, remote, jobs, begun, ran>>
  BY DEF ApproveRollout, Resume, MapLocalProfiles
<1>2. ASSUME NEW m \in Missions, Good(m, ran, jobs), SaveAs(m), m.out = mission.out
      PROVE  MissionInv'
  BY <1>1, <1>2, RunningRemote, QuietStep
<1>3. CASE ApproveRollout
  <2>1. [mission EXCEPT !.rollout = TRUE] \in Missions
        /\ [mission EXCEPT !.rollout = TRUE].out = mission.out
    BY InvFacts DEF Missions
  <2> QED
    BY <1>2, <1>3, <2>1, RolloutGood, InvFacts DEF ApproveRollout, MissionInv
<1>4. CASE Resume
  <2>1. [mission EXCEPT !.paused = FALSE] \in Missions
        /\ [mission EXCEPT !.paused = FALSE].out = mission.out
    BY InvFacts DEF Missions
  <2> QED
    BY <1>2, <1>4, <2>1, ResumedGood, InvFacts DEF Resume, MissionInv
<1>5. CASE MapLocalProfiles
  BY <1>2, <1>5, InvFacts DEF MapLocalProfiles, MissionInv
<1> QED
  BY <1>3, <1>4, <1>5

LEMMA PauseGood ==
  ASSUME MissionInv, Pause
  PROVE  MissionInv'
<1>1. /\ SaveAs(Interrupted(mission)) /\ pending' = NoStep /\ remote' = NoStep
      /\ UNCHANGED <<begun, ran>> /\ jobs' = (IF remote = NoStep THEN jobs ELSE Cancelled(remote))
  BY DEF Pause
<1>2. Good(Interrupted(mission), ran, jobs)
  BY InterruptedGood, InvFacts DEF MissionInv
<1>3. jobs \subseteq [step : StepIds, cancel : BOOLEAN,
                      status : {"Queued", "Running", "Finished", "Cancelled"}]
  BY DEF MissionInv, MissionTypeOK
<1>4. /\ jobs' \subseteq [step : StepIds, cancel : BOOLEAN,
                          status : {"Queued", "Running", "Finished", "Cancelled"}]
      /\ \A k \in jobs' : \E j \in jobs : j.step = k.step
                            /\ k = IF j.step = remote /\ remote # NoStep
                                   THEN [j EXCEPT !.cancel = TRUE] ELSE j
  <2>1. CASE remote = NoStep
    BY <1>1, <1>3, <2>1
  <2>2. CASE remote # NoStep
    <3>1. ASSUME NEW k \in jobs'
          PROVE  \E j \in jobs : k = IF j.step = remote THEN [j EXCEPT !.cancel = TRUE] ELSE j
      BY <1>1, <2>2 DEF Cancelled
    <3> QED
      BY <1>3, <2>2, <3>1
  <2> QED
    BY <2>1, <2>2
<1>5. Good(mission', ran', jobs') /\ Good(stored', ran', jobs')
  BY <1>1, <1>2, <1>4, SavedGood DEF SaveAs
<1>6. MissionTypeOK'
  BY <1>1, <1>4, <1>5, NoPlace, TypeFromGood DEF MissionInv, MissionTypeOK
<1>7. JobsSound'
  <2>1. ASSUME NEW k \in jobs'
        PROVE  /\ k.step # NoStep /\ k.step.n <= begun' /\ ~(k.status = "Queued" /\ ~k.cancel)
    <3>1. PICK j \in jobs : j.step = k.step
                            /\ k = IF j.step = remote /\ remote # NoStep
                                   THEN [j EXCEPT !.cancel = TRUE] ELSE j
      BY <1>4, <2>1
    <3>2. j.step # NoStep /\ j.step.n <= begun
          /\ ((j.status = "Queued" /\ ~j.cancel) => j.step = remote)
      BY DEF MissionInv, JobsSound
    <3>3. j.step = remote => k.cancel
      BY <1>3, <3>1, <3>2
    <3>4. j.step # remote => k = j
      BY <3>1
    <3> QED
      BY <1>1, <3>1, <3>2, <3>3, <3>4
  <2>2. \A j, k \in jobs' : j.step = k.step => j = k
    BY <1>4 DEF MissionInv, JobsSound
  <2> QED
    BY <2>1, <2>2 DEF JobsSound
<1>8. Current'
  BY <1>1 DEF MissionInv, Current
<1> QED
  BY <1>5, <1>6, <1>7, <1>8 DEF MissionInv

LEMMA RestartGood ==
  ASSUME MissionInv, RestartProgram
  PROVE  MissionInv'
<1>1. /\ mission' \in {stored, Interrupted(stored)} /\ pending' = NoStep /\ remote' = NoStep
      /\ jobs' = {} /\ UNCHANGED <<stored, begun, ran>>
  BY DEF RestartProgram
<1>2. Good(stored, ran, jobs) /\ Good(Interrupted(stored), ran, jobs)
  BY InterruptedGood, InvFacts DEF MissionInv
<1>3. Good(mission', ran', jobs') /\ Good(stored', ran', jobs')
  BY <1>1, <1>2, FewerJobsGood
<1>4. MissionTypeOK'
  BY <1>1, <1>3, NoPlace, TypeFromGood DEF MissionInv, MissionTypeOK
<1> QED
  BY <1>1, <1>3, <1>4 DEF MissionInv, JobsSound, Current
-----------------------------------------------------------------------------
(* The queue.                                                              *)

\* The window asks to cancel, or drops, or ends a job: none of it starts one.
LEMMA QueueQuiet ==
  ASSUME MissionInv, Around, UNCHANGED ran, NEW j \in jobs, NEW k,
         jobs' \subseteq (jobs \ {j}) \cup {k}, k.step = j.step,
         k \in [step : StepIds, cancel : BOOLEAN,
                status : {"Queued", "Running", "Finished", "Cancelled"}],
         ~(k.status = "Queued" /\ ~k.cancel)
  PROVE  MissionInv'
<1>1. UNCHANGED <<mission, stored, pending, remote, begun, ran>>
  BY DEF Around
<1>2. \A i \in jobs' : \E h \in jobs : h.step = i.step
  OBVIOUS
<1>3. Good(mission', ran', jobs') /\ Good(stored', ran', jobs')
  BY <1>1, <1>2, FewerJobsGood DEF MissionInv
<1>4. MissionTypeOK'
  BY <1>1, <1>3, TypeFromGood DEF MissionInv, MissionTypeOK
<1>5. JobsSound'
  BY <1>1 DEF MissionInv, JobsSound
<1>6. Current'
  BY <1>1 DEF MissionInv, Current
<1> QED
  BY <1>3, <1>4, <1>5, <1>6 DEF MissionInv

\* The job that starts is the one the window waits for.
LEMMA StartsGood ==
  ASSUME MissionInv, NEW j \in jobs, JobStarts(j)
  PROVE  MissionInv'
<1> DEFINE k == [j EXCEPT !.status = "Running"]
<1>1. /\ UNCHANGED <<mission, stored, pending, remote, begun>>
      /\ j.status = "Queued" /\ ~j.cancel /\ jobs' = (jobs \ {j}) \cup {k}
      /\ ran' = [ran EXCEPT ![j.step.at] = j.step.n]
  BY DEF JobStarts, Turn, Around
<1>2. /\ j.step = remote /\ remote # NoStep /\ remote.n = begun /\ remote.at \in Places
      /\ begun \in 1..MaxAttempts
      /\ mission.out[remote.at].status = "Running" /\ stored.out[remote.at].status = "Running"
  BY <1>1, InvFacts, RunningRemote, StepFacts DEF MissionInv, JobsSound, Current
<1>3. /\ k.step = remote /\ k.status = "Running"
      /\ k \in [step : StepIds, cancel : BOOLEAN,
                status : {"Queued", "Running", "Finished", "Cancelled"}]
  BY <1>2 DEF MissionInv, MissionTypeOK
<1> HIDE DEF k
<1>4. /\ ran' \in [Places -> 0..MaxAttempts] /\ ran'[remote.at] = begun
      /\ \A at \in Places \ {remote.at} : ran'[at] = ran[at]
  BY <1>1, <1>2, MissionAssumption DEF MissionInv, MissionTypeOK
<1>5. ASSUME NEW m, Good(m, ran, jobs), m.out[remote.at].status = "Running"
      PROVE  Good(m, ran', jobs')
  <2>1. \A at \in Places : (\E i \in jobs' : i.step.at = at) => \E i \in jobs : i.step.at = at
    BY <1>1, <1>2, <1>3
  <2>2. m.out[remote.at].status # "Pending" /\ (remote.at[1] # Pilot => m.rollout)
    BY <1>2, <1>5 DEF Good
  <2>3. \A at \in Places : m.out[at].status \in {"Review", "Passed"} =>
          m.out[at].of # 0 /\ m.out[at].of >= ran'[at]
    BY <1>4, <1>5 DEF Good
  <2>4. \A at \in Places : (ran'[at] # 0 \/ \E i \in jobs' : i.step.at = at) =>
          m.out[at].status # "Pending" /\ (at[1] # Pilot => m.rollout)
    BY <1>4, <1>5, <2>1, <2>2 DEF Good
  <2> QED
    BY <1>5, <2>3, <2>4 DEF Good
<1>6. Good(mission', ran', jobs') /\ Good(stored', ran', jobs')
  BY <1>1, <1>2, <1>5 DEF MissionInv
<1>7. MissionTypeOK'
  BY <1>1, <1>3, <1>4, <1>6, TypeFromGood DEF MissionInv, MissionTypeOK
<1>8. JobsSound'
  BY <1>1, <1>2, <1>3 DEF MissionInv, JobsSound
<1>9. Current'
  BY <1>1, <1>2, <1>4, InvFacts DEF MissionInv, Current
<1> QED
  BY <1>6, <1>7, <1>8, <1>9 DEF MissionInv

LEMMA QueueGood ==
  ASSUME MissionInv, Queue
  PROVE  MissionInv'
<1>1. ASSUME NEW j \in jobs, NEW st \in {"Finished", "Cancelled"}, Turn(j, st), UNCHANGED ran, Around
      PROVE  MissionInv'
  <2> DEFINE k == [j EXCEPT !.status = st]
  <2>1. /\ k.step = j.step /\ k.status = st
        /\ k \in [step : StepIds, cancel : BOOLEAN,
                  status : {"Queued", "Running", "Finished", "Cancelled"}]
    BY DEF MissionInv, MissionTypeOK
  <2> HIDE DEF k
  <2> QED
    BY <1>1, <2>1, QueueQuiet DEF Turn, k
<1>2. ASSUME NEW j \in jobs, CancelJob(j)
      PROVE  MissionInv'
  <2> DEFINE k == [j EXCEPT !.cancel = TRUE]
  <2>1. /\ k.step = j.step /\ k.cancel
        /\ k \in [step : StepIds, cancel : BOOLEAN,
                  status : {"Queued", "Running", "Finished", "Cancelled"}]
    BY DEF MissionInv, MissionTypeOK
  <2>2. jobs' = (jobs \ {j}) \cup {k} /\ UNCHANGED ran /\ Around
    BY <1>2 DEF CancelJob
  <2> HIDE DEF k
  <2> QED
    BY <2>1, <2>2, QueueQuiet
<1>3. ASSUME ClearFinished
      PROVE  MissionInv'
  <2>1. PICK j \in jobs : Ended(j)
    BY <1>3 DEF ClearFinished
  <2>2. j \in [step : StepIds, cancel : BOOLEAN,
               status : {"Queued", "Running", "Finished", "Cancelled"}]
    BY DEF MissionInv, MissionTypeOK
  <2>3. jobs' \subseteq (jobs \ {j}) \cup {j} /\ UNCHANGED ran /\ Around
    BY <1>3 DEF ClearFinished
  <2> QED
    BY <2>1, <2>2, <2>3, QueueQuiet DEF Ended
<1> QED
  BY <1>1, <1>2, <1>3, StartsGood DEF Queue, JobEnds

-----------------------------------------------------------------------------
(* The theorems.                                                           *)

LEMMA MissionInvInit == MissionInit => MissionInv
<1> SUFFICES ASSUME MissionInit PROVE MissionInv
  OBVIOUS
<1>1. Fresh \in Outcomes /\ Fresh.status = "Pending" /\ 0 \in 0..MaxAttempts
  BY MissionAssumption DEF Fresh, Outcomes
<1>2. mission \in Missions /\ ~mission.rollout /\ stored = mission
      /\ \A at \in Places : mission.out[at] = Fresh
  BY <1>1 DEF MissionInit, Missions
<1>3. ran \in [Places -> 0..MaxAttempts] /\ \A at \in Places : ran[at] = 0
  BY <1>1 DEF MissionInit
<1>4. Good(mission, ran, jobs)
  BY <1>1, <1>2, <1>3 DEF Good, MissionInit
<1>5. MissionTypeOK
  BY <1>1, <1>2, <1>3, NoPlace DEF MissionInit, MissionTypeOK
<1> QED
  BY <1>2, <1>3, <1>4, <1>5 DEF MissionInv, MissionInit, JobsSound, Current

LEMMA MissionInvStep == MissionInv /\ [MissionNext]_missionVars => MissionInv'
<1> SUFFICES ASSUME MissionInv, [MissionNext]_missionVars PROVE MissionInv'
  OBVIOUS
<1>1. CASE UNCHANGED missionVars
  BY <1>1 DEF missionVars, MissionInv, MissionTypeOK, JobsSound, Current, Good, PilotPassed, Status
<1>2. ASSUME NEW t \in Targets, NEW s \in Steps, OnStep(t, s)
      PROVE  MissionInv'
  BY <1>2, ObserveGood, OperatorGood, CommandGood, VerifyGood DEF OnStep
<1> QED
  BY <1>1, <1>2, PollGood, ApproveGood, PauseGood, RestartGood, QueueGood DEF MissionNext, Window

\* The mission keeps its types in memory and on disk, one step is under way at most,
\* and a rollout has a confirmed pilot (MissionTypeOK).
THEOREM MissionTypeCorrect == MissionSpec => []MissionTypeOK
<1>1. MissionInv => MissionTypeOK
  BY DEF MissionInv
<1> QED
  BY <1>1, MissionInvInit, MissionInvStep, PTL DEF MissionSpec

\* What is reviewed or confirmed of a step is a finding of its latest command, not of
\* an attempt that was paused, cancelled or lost before (FindingIsOfLatest).
THEOREM FindingsAreCurrent == MissionSpec => []FindingIsOfLatest
<1>1. MissionInv => FindingIsOfLatest
  BY DEF MissionInv, Good, FindingIsOfLatest
<1> QED
  BY <1>1, MissionInvInit, MissionInvStep, PTL DEF MissionSpec

\* A command that was started is on disk as begun, and off the pilot only with the
\* rollout approved on disk (CommandsAreOnRecord): start_step saves before it queues.
THEOREM CommandsOnRecord == MissionSpec => []CommandsAreOnRecord
<1>1. MissionInv => CommandsAreOnRecord
  BY DEF MissionInv, Good, CommandsAreOnRecord
<1> QED
  BY <1>1, MissionInvInit, MissionInvStep, PTL DEF MissionSpec
================================================================================
