----------------------------- MODULE AgentTasks -----------------------------
(***************************************************************************)
(* Background tasks of a single-replica deployment: the SQLite queue       *)
(* LocalAgentTaskQueue, the AgentTaskRunner that consumes it and the       *)
(* routes that enqueue, cancel and retry, in one process that may crash,   *)
(* be shut down and be started again.                                      *)
(*                                                                         *)
(* All of it runs on one event loop, and no queue method suspends between  *)
(* taking its lock and releasing it: a route, a poll of the loop and each  *)
(* piece of a coroutine between two suspensions is one action.  A          *)
(* coroutine suspends before it starts and at the semaphore ("started"),   *)
(* while the plan executes ("executing"), at the shielded get_task after   *)
(* a CancelledError ("aborting") and at the shielded acknowledge           *)
(* ("acking").  Every task has one message, so both carry the task's id.   *)
(***************************************************************************)
EXTENDS Naturals, FiniteSets, TaskStatus

CONSTANTS
  MaxTasks,        \* bound: tasks ever enqueued
  MaxConcurrency,  \* agent_task_max_concurrency
  MaxFaults        \* bound: crashes, shutdowns and storage errors together

ASSUME TasksAssumption ==
  /\ MaxTasks \in Nat
  /\ MaxConcurrency \in Nat \ {0}
  /\ MaxFaults \in Nat

VARIABLES
  process,    \* "up", "stopping" while stop() waits for coroutines, "down"
  enqueued,   \* how many tasks were enqueued; task ids are 1..enqueued
  status,     \* agent_queue_tasks.status
  parent,     \* agent_queue_tasks.parent_task_id, 0 for none
  retries,    \* agent_queue_tasks.retry_count
  message,    \* the task's row in agent_queue_messages
  coroutine,  \* where the task's coroutine in _active_tasks is, or "none"
  cancelled,  \* tasks whose coroutine has a CancelledError coming
  faults      \* faults so far

vars == <<process, enqueued, status, parent, retries, message, coroutine,
          cancelled, faults>>

store == <<enqueued, status, parent, retries>>   \* the tasks table

Tasks == 1..MaxTasks
Known == 1..enqueued

MessageStates ==
  {"none",      \* not enqueued yet
   "pending",   \* reserved_at is NULL
   "reserved",  \* reserved_at is set, not longer ago than the idle limit
   "stale",     \* reserved_at is set, longer ago than the idle limit
   "acked"}     \* acknowledged_at is set

CoroutineStates == {"none", "started", "executing", "aborting", "acking"}

TypeOK ==
  /\ process \in {"up", "stopping", "down"}
  /\ enqueued \in 0..MaxTasks
  /\ status \in [Tasks -> AgentTaskStatus]
  /\ parent \in [Tasks -> 0..MaxTasks]
  /\ retries \in [Tasks -> 0..MaxTasks]
  /\ message \in [Tasks -> MessageStates]
  /\ coroutine \in [Tasks -> CoroutineStates]
  /\ cancelled \subseteq Tasks
  /\ faults \in 0..MaxFaults

Init ==
  /\ process = "up"
  /\ enqueued = 0
  /\ status = [t \in Tasks |-> "queued"]
  /\ parent = [t \in Tasks |-> 0]
  /\ retries = [t \in Tasks |-> 0]
  /\ message = [t \in Tasks |-> "none"]
  /\ coroutine = [t \in Tasks |-> "none"]
  /\ cancelled = {}
  /\ faults = 0

-----------------------------------------------------------------------------
Active == {t \in Known : coroutine[t] # "none"}
InSemaphore == {t \in Known : coroutine[t] \in {"executing", "aborting", "acking"}}
Pending == {t \in Known : message[t] = "pending"}
Stale == {t \in Known : message[t] = "stale"}

(* enqueue_execute_plan: the task and its message in one transaction.      *)
Enqueue(from, count) ==
  /\ enqueued < MaxTasks
  /\ enqueued' = enqueued + 1
  /\ status' = [status EXCEPT ![enqueued + 1] = "queued"]
  /\ parent' = [parent EXCEPT ![enqueued + 1] = from]
  /\ retries' = [retries EXCEPT ![enqueued + 1] = count]
  /\ message' = [message EXCEPT ![enqueued + 1] = "pending"]

(* _update_status: no look at the status it overwrites.                    *)
Mark(t, s) ==
  /\ status' = [status EXCEPT ![t] = s]
  /\ UNCHANGED <<enqueued, parent, retries>>

(* The coroutine of t ends; its done callback removes it from              *)
(* _active_tasks.                                                          *)
Done(t) ==
  /\ coroutine' = [coroutine EXCEPT ![t] = "none"]
  /\ cancelled' = cancelled \ {t}

Goes(t, where) ==
  /\ coroutine' = [coroutine EXCEPT ![t] = where]
  /\ UNCHANGED cancelled

-----------------------------------------------------------------------------
(* Routes.  They are served by the process the runner is in.               *)

StartPlanTask ==
  /\ process = "up"
  /\ Enqueue(0, 0)
  /\ UNCHANGED <<process, coroutine, cancelled, faults>>

(* queue.cancel_task, then runner.cancel_task.  A cancellation while the   *)
(* aborting coroutine looks its task up ends it without acknowledging; one *)
(* at the shielded acknowledge does not stop the acknowledge.              *)
CancelTask(t) ==
  /\ process = "up"
  /\ t \in Known
  /\ IF status[t] \in TerminalStatuses THEN UNCHANGED store
     ELSE Mark(t, "stopped")
  /\ \/ /\ coroutine[t] \in {"started", "executing"}
        /\ cancelled' = cancelled \cup {t}
        /\ UNCHANGED coroutine
     \/ coroutine[t] = "aborting" /\ Done(t)
     \/ coroutine[t] \in {"none", "acking"} /\ UNCHANGED <<coroutine, cancelled>>
  /\ UNCHANGED <<process, message, faults>>

(* Mutant of RetryTask: the retry does not count.                          *)
RetryTaskUncounted(t) ==
  /\ process = "up"
  /\ t \in Known
  /\ status[t] \in RetryableStatuses
  /\ Enqueue(t, retries[t])
  /\ UNCHANGED <<process, coroutine, cancelled, faults>>

RetryTask(t) ==
  /\ process = "up"
  /\ t \in Known
  /\ status[t] \in RetryableStatuses
  /\ Enqueue(t, retries[t] + 1)
  /\ UNCHANGED <<process, coroutine, cancelled, faults>>

-----------------------------------------------------------------------------
(* The runner's loop: one pass is reclaim_stale_messages, then             *)
(* reserve_messages(count=1); _start_message skips a task that is active.  *)

HasCapacity == Cardinality(Active) < MaxConcurrency

Reserved ==
  {t \in Pending : \A u \in Pending : t <= u}      \* ORDER BY id LIMIT 1

(* Mutant of StartMessages: every message handed out starts a coroutine.   *)
StartMessagesAlways(claimed) ==
  coroutine' = [t \in Tasks |-> IF t \in claimed THEN "started" ELSE coroutine[t]]

StartMessages(claimed) ==
  coroutine' = [t \in Tasks |->
                  IF t \in claimed /\ t \notin Active THEN "started"
                  ELSE coroutine[t]]

(* Mutants of Poll: what is handed out is not marked as reserved; stale    *)
(* messages are not reclaimed.                                             *)
PollUnmarked ==
  /\ process = "up"
  /\ HasCapacity
  /\ Pending \cup Stale # {}
  /\ StartMessages(Stale \cup Reserved)
  /\ UNCHANGED <<process, store, message, cancelled, faults>>

PollPendingOnly ==
  /\ process = "up"
  /\ HasCapacity
  /\ Pending # {}
  /\ message' = [t \in Tasks |->
                   IF t \in Reserved THEN "reserved" ELSE message[t]]
  /\ StartMessages(Reserved)
  /\ UNCHANGED <<process, store, cancelled, faults>>

Poll ==
  /\ process = "up"
  /\ HasCapacity
  /\ Pending \cup Stale # {}
  /\ message' = [t \in Tasks |->
                   IF t \in Stale \cup Reserved THEN "reserved" ELSE message[t]]
  /\ StartMessages(Stale \cup Reserved)
  /\ UNCHANGED <<process, store, cancelled, faults>>

(* Fifteen minutes pass since the reservation of t.                        *)
GoesStale(t) ==
  /\ process = "up"
  /\ t \in Known /\ message[t] = "reserved"
  /\ message' = [message EXCEPT ![t] = "stale"]
  /\ UNCHANGED <<process, store, coroutine, cancelled, faults>>

-----------------------------------------------------------------------------
(* A task's coroutine: _process_message and _handle_message.               *)

(* Mutants of Begin: an aborted task is executed all the same; there is no *)
(* semaphore.                                                              *)
BeginAborted(t) ==
  /\ t \in Known
  /\ coroutine[t] = "started" /\ t \notin cancelled
  /\ Cardinality(InSemaphore) < MaxConcurrency
  /\ Goes(t, "executing") /\ Mark(t, "running")
  /\ UNCHANGED <<process, message, faults>>

BeginUnbounded(t) ==
  /\ t \in Known
  /\ coroutine[t] = "started" /\ t \notin cancelled
  /\ IF status[t] \in AbortedStatuses
     THEN Goes(t, "acking") /\ UNCHANGED store
     ELSE Goes(t, "executing") /\ Mark(t, "running")
  /\ UNCHANGED <<process, message, faults>>

(* Through the semaphore; a task the user aborted is acknowledged as it    *)
(* is, any other is marked running and its plan executed.                  *)
Begin(t) ==
  /\ t \in Known
  /\ coroutine[t] = "started" /\ t \notin cancelled
  /\ Cardinality(InSemaphore) < MaxConcurrency
  /\ IF status[t] \in AbortedStatuses
     THEN Goes(t, "acking") /\ UNCHANGED store
     ELSE Goes(t, "executing") /\ Mark(t, "running")
  /\ UNCHANGED <<process, message, faults>>

(* Cancelled before or at the semaphore: nothing has run, nothing is       *)
(* acknowledged.                                                           *)
CancelledEarly(t) ==
  /\ t \in Known
  /\ coroutine[t] = "started" /\ t \in cancelled
  /\ Done(t)
  /\ UNCHANGED <<process, store, message, faults>>

(* The plan was executed: without a blocking or an error event the task    *)
(* has succeeded, unless it was aborted meanwhile.                         *)
PlanDone(t) ==
  /\ t \in Known
  /\ coroutine[t] = "executing" /\ t \notin cancelled
  /\ IF status[t] \in AbortedStatuses THEN UNCHANGED store
     ELSE Mark(t, "completed")
  /\ Goes(t, "acking")
  /\ UNCHANGED <<process, message, faults>>

(* Mutant of PlanBlocked: the status is named like the event.              *)
PlanBlockedByName(t) ==
  /\ t \in Known
  /\ coroutine[t] = "executing" /\ t \notin cancelled
  /\ Mark(t, "blocked")
  /\ Goes(t, "acking")
  /\ UNCHANGED <<process, message, faults>>

PlanBlocked(t) ==
  /\ t \in Known
  /\ coroutine[t] = "executing" /\ t \notin cancelled
  /\ Mark(t, "waiting")
  /\ Goes(t, "acking")
  /\ UNCHANGED <<process, message, faults>>

(* An error event, or an exception; an exception may also come out of the  *)
(* clean-up of a cancelled execution in place of the CancelledError.       *)
PlanFailed(t) ==
  /\ t \in Known
  /\ coroutine[t] = "executing"
  /\ Mark(t, "failed")
  /\ coroutine' = [coroutine EXCEPT ![t] = "acking"]
  /\ cancelled' = cancelled \ {t}
  /\ UNCHANGED <<process, message, faults>>

PlanCancelled(t) ==
  /\ t \in Known
  /\ coroutine[t] = "executing" /\ t \in cancelled
  /\ coroutine' = [coroutine EXCEPT ![t] = "aborting"]
  /\ cancelled' = cancelled \ {t}
  /\ UNCHANGED <<process, store, message, faults>>

(* Mutant of Abort: every cancelled task is acknowledged.                  *)
AbortAcknowledges(t) ==
  /\ t \in Known
  /\ coroutine[t] = "aborting"
  /\ Goes(t, "acking")
  /\ UNCHANGED <<process, store, message, faults>>

(* Only a task the user aborted is acknowledged after a cancellation; one  *)
(* cancelled by a shutdown is left for the next start.                     *)
Abort(t) ==
  /\ t \in Known
  /\ coroutine[t] = "aborting"
  /\ IF status[t] \in AbortedStatuses THEN Goes(t, "acking") ELSE Done(t)
  /\ UNCHANGED <<process, store, message, faults>>

Acknowledge(t) ==
  /\ t \in Known
  /\ coroutine[t] = "acking"
  /\ message' = [message EXCEPT ![t] = "acked"]
  /\ Done(t)
  /\ UNCHANGED <<process, store, faults>>

-----------------------------------------------------------------------------
(* Faults *)

(* The storage raises under the coroutine: at a look-up, at a mark or at   *)
(* the acknowledge.  The message stays reserved.                           *)
StorageError(t) ==
  /\ faults < MaxFaults
  /\ t \in Known
  /\ coroutine[t] # "none"
  /\ coroutine[t] = "started" => Cardinality(InSemaphore) < MaxConcurrency
  /\ Done(t)
  /\ faults' = faults + 1
  /\ UNCHANGED <<process, store, message>>

Crash ==
  /\ process # "down"
  /\ faults < MaxFaults
  /\ process' = "down"
  /\ coroutine' = [t \in Tasks |-> "none"]
  /\ cancelled' = {}
  /\ faults' = faults + 1
  /\ UNCHANGED <<store, message>>

(* stop(): the loop ends, every active coroutine is cancelled and awaited. *)
Stop ==
  /\ process = "up"
  /\ faults < MaxFaults
  /\ process' = "stopping"
  /\ coroutine' = [t \in Tasks |->
                     IF coroutine[t] = "aborting" THEN "none" ELSE coroutine[t]]
  /\ cancelled' = {t \in Known : coroutine[t] \in {"started", "executing"}}
  /\ faults' = faults + 1
  /\ UNCHANGED <<store, message>>

Stopped ==
  /\ process = "stopping"
  /\ Active = {}
  /\ process' = "down"
  /\ UNCHANGED <<store, message, coroutine, cancelled, faults>>

(* queue.start(): what the last process reserved becomes pending again.    *)
Restart ==
  /\ process = "down"
  /\ process' = "up"
  /\ message' = [t \in Tasks |->
                   IF message[t] \in {"reserved", "stale"} THEN "pending"
                   ELSE message[t]]
  /\ UNCHANGED <<store, coroutine, cancelled, faults>>

-----------------------------------------------------------------------------
Routes == StartPlanTask \/ \E t \in Tasks : CancelTask(t) \/ RetryTask(t)

Coroutine(t) ==
  \/ Begin(t) \/ CancelledEarly(t) \/ PlanDone(t) \/ PlanBlocked(t)
  \/ PlanFailed(t) \/ PlanCancelled(t) \/ Abort(t) \/ Acknowledge(t)

Next ==
  \/ Routes \/ Poll \/ Crash \/ Stop \/ Stopped \/ Restart
  \/ \E t \in Tasks : GoesStale(t) \/ Coroutine(t) \/ StorageError(t)

Spec == Init /\ [][Next]_vars

(* The loop polls, time passes, coroutines are resumed, executions end     *)
(* (AgentMachine's Termination), and a stopped service is started again.   *)
Fairness ==
  /\ WF_vars(Poll) /\ WF_vars(Stopped) /\ WF_vars(Restart)
  /\ \A t \in Tasks : WF_vars(GoesStale(t)) /\ WF_vars(Coroutine(t))

FairSpec == Spec /\ Fairness

-----------------------------------------------------------------------------
(* Properties *)

Settled == {"waiting", "completed", "failed", "stopped"}

(* No task is lost: while a task is queued or running its message is still *)
(* to be acknowledged, so that whatever happens to the process the task    *)
(* can be consumed again.                                                  *)
NoTaskLost ==
  \A t \in Known : message[t] = "acked" => status[t] \in Settled

(* While a task is stopped no coroutine runs it, completes it or leaves it *)
(* waiting.  The only thing that overwrites the abort is the failure of an *)
(* execution that the abort has reached: one with a CancelledError coming, *)
(* whose clean-up raises (agent_task_runner.py, _handle_message).  What    *)
(* has failed that way is not aborted any more: if its acknowledge is lost *)
(* it is executed again, as TerminalNotConsumed below shows of any failed  *)
(* task.                                                                   *)
AbortTakesHold ==
  [][\A t \in Known : status[t] = "stopped" =>
       \/ status'[t] = "stopped"
       \/ status'[t] = "failed" /\ coroutine[t] = "executing" /\ t \in cancelled]_vars

(* A message that comes back while its task is still active starts no      *)
(* second execution of the task.                                           *)
NoDoubleStart ==
  [][\A t \in Known : coroutine[t] # "none" /\ coroutine'[t] = "started"
                        => coroutine[t] = "started"]_vars

(* An executing task is shown as such, or as aborted; its message is       *)
(* reserved, so that neither a poll hands it out as new nor a crash loses  *)
(* it.                                                                     *)
ExecutionOwned ==
  \A t \in Known :
    /\ coroutine[t] = "executing" => status[t] \in {"running", "stopped"}
    /\ coroutine[t] # "none" => message[t] \in {"reserved", "stale"}

(* The semaphore bounds executions even when a poll reclaims more messages *)
(* than there is capacity for.                                             *)
ConcurrencyBounded == Cardinality(InSemaphore) <= MaxConcurrency

(* Retries form chains: a retry is younger than its parent, which had      *)
(* ended, and counts one more.                                             *)
RetryLineage ==
  \A t \in Known : parent[t] # 0 =>
    /\ parent[t] < t
    /\ retries[t] = retries[parent[t]] + 1

(* Whatever happens to the process and in whatever order routes and        *)
(* coroutines run, the queue keeps the contract of its port                *)
(* (domain/tasks/queue.py): a message that is out is not handed out again  *)
(* before its time, a task is not marked once its message is acknowledged  *)
(* nor acknowledged before it has settled, what has ended is not           *)
(* cancelled, and retries derive from what has ended and count.            *)
Queue == INSTANCE TaskQueue

QueueContract == Queue!Spec

(* Every task settles and its message is acknowledged, through crashes,    *)
(* shutdowns and storage errors, if the user does not cancel it for ever:  *)
(* each cancellation of a task whose message came back throws the coming   *)
(* acknowledge away (_handle_message is cancelled before it looks).        *)
UserStopsCancelling == \A t \in Tasks : <>[][~CancelTask(t)]_vars

EventuallySettled ==
  UserStopsCancelling =>
    \A t \in Tasks :
      (t \in Known) ~> (status[t] \in Settled /\ message[t] = "acked")

-----------------------------------------------------------------------------
(* What a comment of the source says, and the code does not do: "statuses  *)
(* in which a task is not consumed any more".                              *)
TerminalNotConsumed ==
  [][\A t \in Known :
       status[t] \in TerminalStatuses => status'[t] # "running"]_vars
=============================================================================
