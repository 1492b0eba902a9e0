----------------------------- MODULE TaskQueue ------------------------------
(***************************************************************************)
(* What a queue of background tasks promises to those who enqueue, cancel  *)
(* and retry tasks and to whoever consumes them (the port AgentTaskQueue), *)
(* whatever happens to the consumer.  A task has one message, which is     *)
(* handed out, comes back when nobody acknowledges it, and is acknowledged *)
(* once the task has settled.  Who consumes, where he is and how often he  *)
(* dies does not appear here.  AgentTasks implements this specification.   *)
(***************************************************************************)
EXTENDS Naturals, TaskStatus

CONSTANT MaxTasks     \* bound: tasks ever enqueued

VARIABLES
  enqueued,           \* how many tasks were enqueued; task ids are 1..enqueued
  status,             \* of each task
  parent,             \* the task it retries, 0 for none
  retries,            \* how many retries it is the last of
  message             \* where the message of each task is

vars == <<enqueued, status, parent, retries, message>>

Tasks == 1..MaxTasks
Known == 1..enqueued

\* Out for consumption, for longer than the idle limit or not.
HandedOut == {"reserved", "stale"}

Init ==
  /\ enqueued = 0
  /\ status = [t \in Tasks |-> "queued"]
  /\ parent = [t \in Tasks |-> 0]
  /\ retries = [t \in Tasks |-> 0]
  /\ message = [t \in Tasks |-> "none"]

-----------------------------------------------------------------------------
(* A task that nobody has seen, with its message.                          *)
Add(from, count) ==
  LET t == enqueued + 1 IN
  /\ t \in Tasks
  /\ enqueued' = t
  /\ status' = [status EXCEPT ![t] = "queued"]
  /\ parent' = [parent EXCEPT ![t] = from]
  /\ retries' = [retries EXCEPT ![t] = count]
  /\ message' = [message EXCEPT ![t] = "pending"]

EnqueueExecutePlan == Add(0, 0)

RetryTask(t) == status[t] \in RetryableStatuses /\ Add(t, retries[t] + 1)

Becomes(t, s) ==
  /\ status' = [status EXCEPT ![t] = s]
  /\ UNCHANGED <<enqueued, parent, retries, message>>

(* What has ended is not ended again.                                      *)
CancelTask(t) == status[t] \notin TerminalStatuses /\ Becomes(t, "stopped")

(* mark_running, mark_waiting, mark_succeeded and mark_failed: only while  *)
(* the message is out, and of an aborted task no more than that it failed. *)
Mark(t, s) ==
  /\ message[t] \in HandedOut
  /\ status[t] \in AbortedStatuses => s = "failed"
  /\ Becomes(t, s)

Moves(S, state) ==
  /\ message' = [t \in Tasks |-> IF t \in S THEN state ELSE message[t]]
  /\ UNCHANGED <<enqueued, status, parent, retries>>

(* reserve_messages and reclaim_stale_messages: nothing that is already    *)
(* out, unless it has been out for too long.                               *)
HandOut(S) ==
  /\ \A t \in S : message[t] \in {"pending", "stale"}
  /\ Moves(S, "reserved")

(* The idle limit passes.                                                  *)
GoesStale(t) == message[t] = "reserved" /\ Moves({t}, "stale")

(* start(): what was out when the last consumer ended is pending again.    *)
Start == Moves({t \in Known : message[t] \in HandedOut}, "pending")

(* Only a message that is out, of a task that has settled, and for good.   *)
Acknowledge(t) ==
  /\ message[t] \in HandedOut
  /\ status[t] \in {"waiting"} \cup TerminalStatuses
  /\ Moves({t}, "acked")

Next ==
  \/ EnqueueExecutePlan \/ Start
  \/ \E S \in SUBSET Known : HandOut(S)
  \/ \E t \in Known :
       \/ RetryTask(t) \/ CancelTask(t) \/ GoesStale(t) \/ Acknowledge(t)
       \/ \E s \in {"running", "waiting", "completed", "failed"} : Mark(t, s)

Spec == Init /\ [][Next]_vars
=============================================================================
