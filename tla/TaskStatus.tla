----------------------------- MODULE TaskStatus -----------------------------
(***************************************************************************)
(* The statuses of a background task and the sets of them the queues and   *)
(* the runner decide by.  The two legacy values "succeeded" and            *)
(* "cancelled" are still read, but nothing writes them any more.           *)
(***************************************************************************)
AgentTaskStatus ==
  {"queued", "running", "waiting", "completed", "failed", "stopped",
   "succeeded", "cancelled"}

TerminalStatuses == {"completed", "succeeded", "failed", "stopped", "cancelled"}

(* The user aborted the task: its message may be acknowledged.             *)
AbortedStatuses == {"stopped", "cancelled"}

(* retry_task derives a new task from these only.                          *)
RetryableStatuses == {"failed", "stopped", "cancelled"}
=============================================================================
