-------------------------------- MODULE Mission --------------------------------
(***************************************************************************)
(* Mission Control: a mission runs its steps on a pilot computer first, and *)
(* on the others once that is confirmed.  A step observes, notes what the   *)
(* operator does, or runs a command; it counts only when a person confirmed *)
(* the finding that it left.                                                *)
(*                                                                         *)
(*   src/src/mission.rs            the mission, its rules, its storage     *)
(*   src/src/app/mission_panel.rs  the window: start, poll, pause, resume  *)
(*   src/src/operations.rs         the serial queue that runs commands     *)
(***************************************************************************)
EXTENDS Naturals

CONSTANTS
  Targets, Pilot,  \* computers of the mission, the first of them
  Steps, Kinds,    \* 1..n, and what each may be: Observe, Operator, a command
  MaxAttempts,     \* bound: how often steps are begun
  MissionFaults    \* which of these happen: "save", "full"

ASSUME MissionAssumption ==
  /\ Pilot \in Targets /\ Steps \subseteq Nat \ {0}
  /\ Kinds \in [Steps -> SUBSET {"observe", "operator", "command"}] /\ MaxAttempts \in Nat

VARIABLES
  mission,  \* Mission: outcomes, rollout, paused
  stored,   \* missions.dpapi
  pending,  \* MissionState.pending: the TCP check that runs
  remote,   \* MissionState.remote: the job that runs
  jobs,     \* JobQueue.jobs: those of this mission
  begun,    \* history: how often a step was begun
  ran       \* history: the latest attempt at each step whose command was started

missionVars == <<mission, stored, pending, remote, jobs, begun, ran>>

Places  == Targets \X Steps
NoStep  == [at |-> <<Pilot, 0>>, n |-> 0]
Fresh   == [status |-> "Pending", of |-> 0]   \* of: the attempt its evidence is from
Ended(j) == j.status \in {"Finished", "Cancelled"}
Started == {"Running", "Passed", "Review"}

Status(m, t, s)  == m.out[<<t, s>>].status
PilotPassed(m)   == \A s \in Steps : Status(m, Pilot, s) = "Passed"
Completed(m)     == \A t \in Targets, s \in Steps : Status(m, t, s) = "Passed"
Set(m, at, o)    == [m EXCEPT !.out[at] = o]
Mark(m, at, st)  == [m EXCEPT !.out[at].status = st]

\* Whatever runs is interrupted.
Interrupted(m) ==
  [m EXCEPT !.paused = TRUE,
            !.out = [at \in Places |-> IF @[at].status = "Running"
                                       THEN [@[at] EXCEPT !.status = "Interrupted"] ELSE @[at]]]

\* save_missions: a failure leaves the file as it was.
SaveAs(m)  == mission' = m /\ (stored' = m \/ ("save" \in MissionFaults /\ UNCHANGED stored))
Saved(m)   == mission' = m /\ stored' = m
NotSaved(m) == "save" \in MissionFaults /\ mission' = m /\ UNCHANGED stored

-----------------------------------------------------------------------------
(* Mission::begin, record, verify.                                         *)

MayBegin(t, s) ==
  /\ ~mission.paused
  /\ t # Pilot => mission.rollout /\ PilotPassed(mission)
  /\ \A r \in Steps : r < s => Status(mission, t, r) = "Passed"
  /\ Status(mission, t, s) \notin Started

Begun(t, s) == Set(mission, <<t, s>>, [status |-> "Running", of |-> 0])

\* A finding of a step that no longer runs is refused.
Recorded(m, x) ==
  IF m.out[x.at].status = "Running" THEN Set(m, x.at, [status |-> "Review", of |-> x.n]) ELSE m

-----------------------------------------------------------------------------
(* The window.                                                             *)

Idle == pending = NoStep /\ remote = NoStep
Attempt(t, s) ==
  Idle /\ MayBegin(t, s) /\ begun < MaxAttempts /\ begun' = begun + 1
Step(t, s) == [at |-> <<t, s>>, n |-> begun + 1]

\* Observe: the TCP check runs in a thread of its own.
StartObserve(t, s) ==
  /\ "observe" \in Kinds[s] /\ Attempt(t, s) /\ pending' = Step(t, s) /\ SaveAs(Begun(t, s))
  /\ UNCHANGED <<remote, jobs, ran>>

\* Operator: the context is the finding.
StartOperator(t, s) ==
  /\ "operator" \in Kinds[s] /\ Attempt(t, s) /\ SaveAs(Recorded(Begun(t, s), Step(t, s)))
  /\ UNCHANGED <<pending, remote, jobs, ran>>

Job(x) == [step |-> x, status |-> "Queued", cancel |-> FALSE]

\* Mutant: the command is queued whether or not the mission could be saved.
StartCommand_Unsaved(t, s) ==
  /\ "command" \in Kinds[s] /\ Attempt(t, s) /\ UNCHANGED <<pending, ran>>
  /\ SaveAs(Begun(t, s)) /\ remote' = Step(t, s) /\ jobs' = jobs \cup {Job(Step(t, s))}

\* A command is queued once the mission is stored as running it.
StartCommand(t, s) ==
  /\ "command" \in Kinds[s] /\ Attempt(t, s) /\ UNCHANGED <<pending, ran>>
  /\ \/ /\ Saved(Begun(t, s))
        /\ remote' = Step(t, s) /\ jobs' = jobs \cup {Job(Step(t, s))}
     \/ /\ "full" \in MissionFaults /\ UNCHANGED <<remote, jobs>>
        /\ mission' = Interrupted(Begun(t, s))
        /\ stored' \in {Begun(t, s), mission'}
     \/ NotSaved(Interrupted(Begun(t, s))) /\ UNCHANGED <<remote, jobs>>

\* poll_missions: what the check or the job left is recorded.
PollCheck ==
  /\ pending # NoStep /\ pending' = NoStep /\ SaveAs(Recorded(mission, pending))
  /\ UNCHANGED <<remote, jobs, begun, ran>>

LetGo == remote # NoStep /\ remote' = NoStep /\ UNCHANGED <<pending, jobs, begun, ran>>
Lost  == (\A j \in jobs : j.step # remote) /\ SaveAs(Interrupted(mission))

\* Mutant: only a job with output is taken note of.
PollJob_WithOutput ==
  /\ LetGo
  /\ \/ \E j \in jobs : j.step = remote /\ j.status = "Finished" /\ SaveAs(Recorded(mission, j.step))
     \/ Lost

\* Mutant: the job is looked up by what it is for.
PollJob_Any ==
  /\ LetGo
  /\ \/ \E j \in jobs : j.step.at = remote.at /\ Ended(j) /\ SaveAs(Recorded(mission, j.step))
     \/ Lost

\* A job that ended, with output or without, or that is no longer in the list.
PollJob ==
  /\ LetGo
  /\ \/ \E j \in jobs : j.step = remote /\ Ended(j) /\ SaveAs(Recorded(mission, j.step))
     \/ Lost

\* "Confirm success" and "Not met", with a note.
Verify(t, s, passed) ==
  /\ ~mission.paused /\ Status(mission, t, s) = "Review" /\ mission.out[<<t, s>>].of # 0
  /\ SaveAs(Mark(mission, <<t, s>>, IF passed THEN "Passed" ELSE "Failed"))
  /\ UNCHANGED <<pending, remote, jobs, begun, ran>>

ApproveRollout ==
  /\ ~mission.rollout /\ ~mission.paused /\ PilotPassed(mission)
  /\ SaveAs([mission EXCEPT !.rollout = TRUE])
  /\ UNCHANGED <<pending, remote, jobs, begun, ran>>

Cancelled(x) == {IF j.step = x THEN [j EXCEPT !.cancel = TRUE] ELSE j : j \in jobs}

\* "Pause / cancel capture" lets go of what runs; "Resume" only resumes.
Pause ==
  /\ ~mission.paused /\ SaveAs(Interrupted(mission)) /\ pending' = NoStep /\ remote' = NoStep
  /\ jobs' = (IF remote = NoStep THEN jobs ELSE Cancelled(remote))
  /\ UNCHANGED <<begun, ran>>
Resume ==
  /\ mission.paused /\ SaveAs([mission EXCEPT !.paused = FALSE])
  /\ UNCHANGED <<pending, remote, jobs, begun, ran>>

\* "Map identical local profiles", once every computer has one.
MapLocalProfiles ==
  /\ mission.paused /\ SaveAs(mission) /\ UNCHANGED <<pending, remote, jobs, begun, ran>>

\* The program ends and is started again: what ran is interrupted.
RestartProgram ==
  /\ mission' = (IF \E at \in Places : stored.out[at].status = "Running"
                 THEN Interrupted(stored) ELSE stored)
  /\ pending' = NoStep /\ remote' = NoStep /\ jobs' = {} /\ UNCHANGED <<stored, begun, ran>>

-----------------------------------------------------------------------------
(* The queue, shared with the Operations view.                             *)

Around == UNCHANGED <<mission, stored, pending, remote, begun>>
Turn(j, st) == jobs' = (jobs \ {j}) \cup {[j EXCEPT !.status = st]}

JobStarts(j) ==
  /\ j.status = "Queued" /\ ~j.cancel /\ \A k \in jobs : k.status # "Running"
  /\ Turn(j, "Running") /\ ran' = [ran EXCEPT ![j.step.at] = j.step.n] /\ Around

\* A queued job that was cancelled never runs; one that runs ends: with its output,
\* killed, after 120 seconds, or without a word.
JobEnds(j) ==
  /\ UNCHANGED ran /\ Around
  /\ \/ j.status = "Queued" /\ j.cancel /\ Turn(j, "Cancelled")
     \/ j.status = "Running" /\ \E st \in {"Finished", "Cancelled"} : Turn(j, st)

CancelJob(j) ==
  /\ j.status \in {"Queued", "Running"} /\ ~j.cancel
  /\ jobs' = (jobs \ {j}) \cup {[j EXCEPT !.cancel = TRUE]} /\ UNCHANGED ran /\ Around
ClearFinished ==
  /\ \E j \in jobs : Ended(j)
  /\ jobs' = {j \in jobs : ~Ended(j)} /\ UNCHANGED ran /\ Around

-----------------------------------------------------------------------------

MissionInit ==
  /\ mission = [out |-> [at \in Places |-> Fresh], rollout |-> FALSE, paused |-> FALSE]
  /\ stored = mission /\ pending = NoStep /\ remote = NoStep /\ jobs = {}
  /\ begun = 0 /\ ran = [at \in Places |-> 0]

OnStep(t, s) ==
  \/ StartObserve(t, s) \/ StartOperator(t, s) \/ StartCommand(t, s)
  \/ \E passed \in BOOLEAN : Verify(t, s, passed)
Window ==
  \/ ApproveRollout \/ Pause \/ Resume \/ MapLocalProfiles \/ RestartProgram
Queue ==
  \/ ClearFinished
  \/ \E j \in jobs : JobStarts(j) \/ JobEnds(j) \/ CancelJob(j)

MissionNext ==
  \/ \E t \in Targets, s \in Steps : OnStep(t, s)
  \/ PollCheck \/ PollJob \/ Window \/ Queue

MissionSpec == MissionInit /\ [][MissionNext]_missionVars

\* Frames keep coming, the check gives up after 12 seconds, a job after 120.
MissionFairness ==
  /\ WF_missionVars(PollCheck) /\ WF_missionVars(PollJob)
  /\ WF_missionVars(\E j \in jobs : JobStarts(j)) /\ WF_missionVars(\E j \in jobs : JobEnds(j))

MissionFairSpec == MissionSpec /\ MissionFairness

-----------------------------------------------------------------------------
(* Properties.                                                             *)

Outcomes == [status : {"Pending", "Running", "Review", "Passed", "Failed", "Interrupted"},
             of : 0..MaxAttempts]
Missions == [out : [Places -> Outcomes], rollout : BOOLEAN, paused : BOOLEAN]
StepIds  == [at : Places, n : 1..MaxAttempts] \cup {NoStep}

\* The types the code gives its state; at most one step is under way, and the other
\* computers are approved only with a confirmed pilot, in memory and on disk.
MissionTypeOK ==
  /\ \A m \in {mission, stored} : m.rollout => PilotPassed(m)
  /\ mission \in Missions /\ stored \in Missions
  /\ pending \in StepIds /\ remote \in StepIds /\ (pending = NoStep \/ remote = NoStep)
  /\ jobs \subseteq [step : StepIds, cancel : BOOLEAN,
                     status : {"Queued", "Running", "Finished", "Cancelled"}]
  /\ begun \in 0..MaxAttempts /\ ran \in [Places -> 0..MaxAttempts]

\* A step under review, or confirmed, rests on a finding, and on one of the latest
\* command that was started for it, not on what an earlier attempt left that was
\* paused, cancelled, failed or lost in a crash.
FindingIsOfLatest ==
  \A at \in Places : mission.out[at].status \in {"Review", "Passed"} =>
    mission.out[at].of # 0 /\ mission.out[at].of >= ran[at]

\* Write-ahead: a command that was started is on disk as begun, so that no restart
\* shows it as never run; on another computer than the pilot, only after the pilot
\* was confirmed and the rollout approved, on disk too.
CommandsAreOnRecord ==
  \A at \in Places : ran[at] # 0 =>
    /\ stored.out[at].status # "Pending"
    /\ at[1] # Pilot => stored.rollout /\ PilotPassed(stored)

\* A step that runs comes to an end by itself.
StepsSettle ==
  \A at \in Places : (mission.out[at].status = "Running") ~> (mission.out[at].status # "Running")

================================================================================
