---------------------------- MODULE SessionRuns ----------------------------
(***************************************************************************)
(* One session and the runs in it: the status of the session               *)
(* (SessionService), the streams that answer a user's message or resume    *)
(* the last plan (AgentRunnerService), the executions of the latest plan   *)
(* in the background, and the event log they share, from which             *)
(* ReActAgentService finds the plan and the step to resume at.             *)
(*                                                                         *)
(* Nothing in the code keeps two runs of one session apart: each run goes  *)
(* through its awaits on its own and they meet in the status and the log.  *)
(* A run executes its plan with the machine of module AgentMachine, of     *)
(* which only the events a later resume reads are kept here.               *)
(***************************************************************************)
EXTENDS Naturals, Sequences, FiniteSets

CONSTANTS
  Runs,        \* runs the session sees, each used once
  NoRun,       \* an event that carries no run_id
  Kinds,       \* how a run may be started
  PlanSteps,   \* numbers of steps a plan may have
  MaxEvents,   \* bound: events in the log
  MaxLive,     \* bound: runs at the same time
  MaxRefusals, \* bound: refusals of the acceptance chain in one run
  MaxCuts      \* bound: runs that end without their clean-up

ASSUME SessionAssumption ==
  /\ NoRun \notin Runs
  /\ Kinds \subseteq {"chat", "pipeline", "resume", "background"}
  /\ Kinds # {}
  /\ PlanSteps \subseteq Nat \ {0}
  /\ MaxEvents \in Nat /\ MaxLive \in Nat /\ MaxRefusals \in Nat /\ MaxCuts \in Nat

VARIABLES
  status,    \* Session.status
  deleted,   \* Session.deleted_at is set
  log,       \* session_events, as far as the code reads them back
  run,       \* where each run stands
  cuts,      \* runs that ended without their clean-up so far
  orphaned   \* the status was left at running by such a run, and not
             \* written since

vars == <<status, deleted, log, run, cuts, orphaned>>

SessionStatus == {"idle", "running", "stopped", "failed"}

(* `index' is the number of steps of a plan_created event and the 1-based  *)
(* step index of a step_completed event.                                   *)
Event == [type : {"plan_created", "step_completed", "task_error", "task_done"},
          run : Runs \cup {NoRun}, index : Nat]

(* Where a run stands: before it was started; marked running, about to     *)
(* answer or to make a plan; about to look the plan up; with its plan,     *)
(* before it is marked running; executing; in the finally of the stream;   *)
(* in it, having read a running status; over.                              *)
Places == {"new", "opened", "preparing", "prepared", "executing",
           "leaving", "resetting", "over"}

(* `plan' is the position of the run's plan in the log and `refusals' the  *)
(* refusals of the chain so far.  `faithful' tells whether the run it was  *)
(* resumed from, and the runs that one was resumed from, executed the same *)
(* plan; the code does not know it.                                        *)
Record == [place : Places, kind : Kinds, plan : Nat, next : Nat,
           refusals : 0..MaxRefusals, faithful : BOOLEAN]

TypeOK ==
  /\ status \in SessionStatus
  /\ deleted \in BOOLEAN
  /\ log \in Seq(Event)
  /\ run \in [Runs -> Record]
  /\ cuts \in 0..MaxCuts
  /\ orphaned \in BOOLEAN
  /\ \A r \in Runs : run[r].plan \in 0..Len(log)

Live(r) == run[r].place \notin {"new", "over"}
New(r) == run[r].place = "new" /\ Cardinality({q \in Runs : Live(q)}) < MaxLive
At(r, place) == run[r].place = place
IsStream(r) == run[r].kind # "background"

-----------------------------------------------------------------------------
(* The log and what is read from it.                                       *)

Positions(type) == {i \in DOMAIN log : log[i].type = type}
LatestPlan == CHOOSE i \in Positions("plan_created") :
                \A j \in Positions("plan_created") : j <= i
Steps(r) == log[run[r].plan].index
CompletedBy(r) == {i \in Positions("step_completed") : log[i].run = r}

(* The events a run writes carry its id; the last task_error that has one  *)
(* names the run to resume from.                                           *)
FailedRuns == {i \in Positions("task_error") : log[i].run # NoRun}
LastFailedRun ==
  IF FailedRuns = {} THEN NoRun
  ELSE log[CHOOSE i \in FailedRuns : \A j \in FailedRuns : j <= i].run

(* Mutant of ResumeStep: counts the completed steps of every run.          *)
ResumeStepOfAll(r) == Cardinality(Positions("step_completed"))

(* _resume_context: as many steps as the run to resume from completed.     *)
ResumeStep(r) == Cardinality(CompletedBy(r))

Write(type, r, index) ==
  /\ Len(log) < MaxEvents
  /\ log' = Append(log, [type |-> type, run |-> r, index |-> index])

(* update_status finds no row when the session is deleted, and does        *)
(* nothing then.                                                           *)
SetStatus(s) ==
  /\ status' = IF deleted THEN status ELSE s
  /\ orphaned' = (deleted /\ orphaned)
KeepStatus == UNCHANGED <<status, orphaned>>

GoTo(r, place) == run' = [run EXCEPT ![r].place = place]

(* How a run was started and what was refused matters until it ends.       *)
AnyKind == CHOOSE k \in Kinds : TRUE
Ended(record, place) ==
  [record EXCEPT !.place = place, !.kind = AnyKind, !.refusals = 0]

(* A stream is left through its finally, a background run is just over.    *)
Leave(r) ==
  run' = [run EXCEPT ![r] = Ended(@, IF IsStream(r) THEN "leaving" ELSE "over")]
End(r) == run' = [run EXCEPT ![r] = Ended(@, "over")]

Init ==
  /\ status = "idle"
  /\ deleted = FALSE
  /\ log = <<>>
  /\ run = [r \in Runs |->
              [place |-> "new", kind |-> AnyKind,
               plan |-> 0, next |-> 0, refusals |-> 0, faithful |-> TRUE]]
  /\ cuts = 0
  /\ orphaned = FALSE

-----------------------------------------------------------------------------
(* The user's requests.                                                    *)

(* stream_user_message: mark_running raises for a deleted session.  A      *)
(* resume writes no message and makes no plan.                             *)
OpenStream(r, kind) ==
  /\ New(r)
  /\ kind # "background"
  /\ run' = [run EXCEPT ![r] =
       IF deleted THEN Ended(@, "leaving")
       ELSE [@ EXCEPT !.kind = kind,
                      !.place = IF kind = "resume" THEN "preparing" ELSE "opened"]]
  /\ IF deleted THEN KeepStatus ELSE SetStatus("running")
  /\ UNCHANGED <<deleted, log, cuts>>

(* execute_latest_plan, called by the task runner                          *)
StartInBackground(r) ==
  /\ New(r)
  /\ "background" \in Kinds
  /\ run' = [run EXCEPT ![r].kind = "background", ![r].place = "preparing"]
  /\ KeepStatus
  /\ UNCHANGED <<deleted, log, cuts>>

(* stop_session writes the status and nothing else.                        *)
StopSession ==
  /\ ~deleted
  /\ SetStatus("stopped")
  /\ UNCHANGED <<deleted, log, run, cuts>>

DeleteSession ==
  /\ ~deleted
  /\ deleted' = TRUE
  /\ KeepStatus
  /\ UNCHANGED <<log, run, cuts>>

-----------------------------------------------------------------------------
(* The stream before the plan is executed.                                 *)

(* AgentDirectChatService._persist_answer; create_assistant_message        *)
(* raises for a deleted session.                                           *)
ChatAnswer(r) ==
  /\ At(r, "opened")
  /\ run[r].kind = "chat"
  /\ ~deleted
  /\ SetStatus("idle")
  /\ Leave(r)
  /\ UNCHANGED <<deleted, log, cuts>>

(* create_user_message, which raises for a deleted session, and            *)
(* PlannerService.stream_plan                                              *)
MakePlan(r) ==
  /\ At(r, "opened")
  /\ run[r].kind = "pipeline"
  /\ ~deleted
  /\ \E n \in PlanSteps : Write("plan_created", NoRun, n)
  /\ GoTo(r, "preparing")
  /\ KeepStatus
  /\ UNCHANGED <<deleted, cuts>>

(* _prepare_execution: the latest plan of the session, whoever made it     *)
Prepare(r) ==
  /\ At(r, "preparing")
  /\ ~deleted
  /\ Positions("plan_created") # {}
  /\ run' = [run EXCEPT ![r].place = "prepared", ![r].plan = LatestPlan]
  /\ KeepStatus
  /\ UNCHANGED <<deleted, log, cuts>>

(* stream_latest_plan up to its first commit; only a resume looks for the  *)
(* step to start at.  That read and the commit are one step here: a run    *)
(* writes no event in between, and the status is overwritten either way.   *)
Begin(r) ==
  /\ At(r, "prepared")
  /\ LET from == IF run[r].kind = "resume" THEN LastFailedRun ELSE NoRun
     IN  run' = [run EXCEPT ![r].place = "executing",
                            ![r].next = IF from = NoRun THEN 0
                                        ELSE ResumeStep(from),
                            ![r].faithful =
                              \/ from = NoRun
                              \/ run[from].plan = run[r].plan /\ run[from].faithful]
  /\ SetStatus("running")
  /\ UNCHANGED <<deleted, log, cuts>>

(* An exception before the run has begun: AgentRunnerService._persist_error*)
(* writes an error without a run id.  In the background it only ends the   *)
(* execution.                                                              *)
FailEarly(r) ==
  /\ run[r].place \in {"opened", "preparing", "prepared"}
  /\ IF IsStream(r)
     THEN Write("task_error", NoRun, 0) /\ SetStatus("failed")
     ELSE UNCHANGED log /\ KeepStatus
  /\ Leave(r)
  /\ UNCHANGED <<deleted, cuts>>

-----------------------------------------------------------------------------
(* The execution of the plan, as _commit_event commits it.                 *)

AcceptStep(r) ==
  /\ At(r, "executing")
  /\ run[r].next < Steps(r)
  /\ Write("step_completed", r, run[r].next + 1)
  /\ run' = [run EXCEPT ![r].next = @ + 1]
  /\ KeepStatus
  /\ UNCHANGED <<deleted, cuts>>

(* Mutant of RefuseResult: nothing limits the refusals.                    *)
RefuseResultAgain(r) ==
  /\ At(r, "executing")
  /\ run[r].next = Steps(r)
  /\ CompletedBy(r) # {}
  /\ run' = [run EXCEPT ![r].next = @ - 1, ![r].refusals = @ + 1]
  /\ KeepStatus
  /\ UNCHANGED <<deleted, log, cuts>>

(* The acceptance chain refuses the last step's result: the step is        *)
(* executed, and completed, once more.                                     *)
RefuseResult(r) ==
  /\ At(r, "executing")
  /\ run[r].next = Steps(r)
  /\ CompletedBy(r) # {}
  /\ run[r].refusals < MaxRefusals
  /\ run' = [run EXCEPT ![r].next = @ - 1, ![r].refusals = @ + 1]
  /\ KeepStatus
  /\ UNCHANGED <<deleted, log, cuts>>

Answer(r) ==
  /\ At(r, "executing")
  /\ run[r].next >= Steps(r)
  /\ Write("task_done", r, 0)
  /\ SetStatus("idle")
  /\ Leave(r)
  /\ UNCHANGED <<deleted, cuts>>

(* step_blocked *)
Block(r) ==
  /\ At(r, "executing")
  /\ run[r].next < Steps(r)
  /\ SetStatus("idle")
  /\ Leave(r)
  /\ UNCHANGED <<deleted, log, cuts>>

(* A step fails for good, the chain refuses for good, or an exception      *)
(* leaves the machine.                                                     *)
Fail(r) ==
  /\ At(r, "executing")
  /\ Write("task_error", r, 0)
  /\ SetStatus("failed")
  /\ Leave(r)
  /\ UNCHANGED <<deleted, cuts>>

-----------------------------------------------------------------------------
(* The end of a run.                                                       *)

(* Mutant of Disconnect: the stream is cut off past its finally.           *)
DisconnectAtOnce(r) ==
  /\ Live(r)
  /\ IsStream(r)
  /\ run[r].place \notin {"leaving", "resetting"}
  /\ End(r)
  /\ KeepStatus
  /\ UNCHANGED <<deleted, log, cuts>>

(* The client disconnects: no event is written, the finally runs.  So it   *)
(* does when get_session raises at the end of the stream.                  *)
Disconnect(r) ==
  /\ Live(r)
  /\ IsStream(r)
  /\ run[r].place \notin {"leaving", "resetting"}
  /\ Leave(r)
  /\ KeepStatus
  /\ UNCHANGED <<deleted, log, cuts>>

(* _reset_running_session reads the status ...                             *)
ResetRead(r) ==
  /\ At(r, "leaving")
  /\ GoTo(r, IF ~deleted /\ status = "running" THEN "resetting" ELSE "over")
  /\ KeepStatus
  /\ UNCHANGED <<deleted, log, cuts>>

(* ... and writes idle if it was running.                                  *)
ResetWrite(r) ==
  /\ At(r, "resetting")
  /\ SetStatus("idle")
  /\ GoTo(r, "over")
  /\ UNCHANGED <<deleted, log, cuts>>

(* The clean-up fails and is swallowed, the process dies, or a background  *)
(* execution, which has no clean-up, is cancelled.                         *)
CutOff(r) ==
  /\ Live(r)
  /\ cuts < MaxCuts
  /\ End(r)
  /\ cuts' = cuts + 1
  /\ orphaned' = (orphaned \/ status = "running")
  /\ UNCHANGED <<status, deleted, log>>

(* The process is started again: no run survives, and a session that was   *)
(* left running is set back to idle (_reset_stale_running_sessions).       *)
Restart ==
  /\ cuts < MaxCuts
  /\ \E r \in Runs : Live(r)
  /\ run' = [r \in Runs |-> IF Live(r) THEN Ended(run[r], "over") ELSE run[r]]
  /\ cuts' = cuts + 1
  /\ status' = IF status = "running" THEN "idle" ELSE status
  /\ orphaned' = FALSE
  /\ UNCHANGED <<deleted, log>>

Next ==
  \/ StopSession
  \/ DeleteSession
  \/ Restart
  \/ \E r \in Runs :
       \/ \E kind \in Kinds : OpenStream(r, kind)
       \/ StartInBackground(r)
       \/ ChatAnswer(r)
       \/ MakePlan(r)
       \/ Prepare(r)
       \/ Begin(r)
       \/ FailEarly(r)
       \/ AcceptStep(r)
       \/ RefuseResult(r)
       \/ Answer(r)
       \/ Block(r)
       \/ Fail(r)
       \/ Disconnect(r)
       \/ ResetRead(r)
       \/ ResetWrite(r)
       \/ CutOff(r)

Spec == Init /\ [][Next]_vars

-----------------------------------------------------------------------------
(* A session shows running only while a run is in progress, or after one   *)
(* that could not clean up: whatever streams and background executions     *)
(* overlap, stop and disconnect, the last one to go leaves no running      *)
(* status behind (_reset_running_session).                                 *)
RunningIsOwned ==
  status = "running" /\ ~deleted => orphaned \/ \E r \in Runs : Live(r)

(* Some run completed step k of the plan at position p of the log.         *)
StepDone(p, k) ==
  \E i \in Positions("step_completed") :
    log[i].index = k /\ run[log[i].run].plan = p

Begun(r) == run[r].plan > 0 /\ run[r].place \notin {"preparing", "prepared"}

(* A run resumed from a failure of the same plan passes over a step only   *)
(* when a run before it completed that step, however often the plan was    *)
(* resumed and the chain refused (_resume_context).                        *)
ResumeSkipsNothing ==
  \A r \in Runs :
    Begun(r) /\ run[r].faithful =>
      \A k \in 1..run[r].next : k <= Steps(r) => StepDone(run[r].plan, k)

(* What _resume_context and _stream_resume say: a resume goes on where the *)
(* last failure was, so that an answered plan has all its steps done.      *)
AnsweredPlanIsDone ==
  \A i \in Positions("task_done") :
    \A k \in 1..Steps(log[i].run) : StepDone(run[log[i].run].plan, k)
=============================================================================
