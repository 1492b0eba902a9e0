----------------------------- MODULE RedisTasks -----------------------------
(***************************************************************************)
(* Background tasks of a deployment with several replicas of the API: the  *)
(* queue RedisAgentTaskQueue, which keeps a hash per task and a stream     *)
(* with a consumer group, and in every replica an AgentTaskRunner and the  *)
(* routes that enqueue, cancel and retry.                                  *)
(*                                                                         *)
(* Every Redis command is an await of its own, so each is an action here:  *)
(* other coroutines and other replicas come in between.  The runner is     *)
(* that of module AgentTasks, in these smaller pieces.  The pointer to the *)
(* session's latest task, which follows every write of a status, is left   *)
(* out: only the user interface reads it.                                  *)
(***************************************************************************)
EXTENDS Naturals, FiniteSets, TaskStatus

CONSTANTS
  Replicas,        \* API processes
  MaxTasks,        \* bound: tasks ever enqueued
  MaxConcurrency,  \* agent_task_max_concurrency, per replica
  MaxRequests,     \* bound: requests served at the same time
  MaxOverlaps,     \* bound: tasks claimed while they are worked on
  MaxCrashes       \* bound: crashes, shutdowns and Redis errors

ASSUME RedisAssumption ==
  /\ MaxTasks \in Nat /\ MaxConcurrency \in Nat \ {0}
  /\ MaxRequests \in Nat /\ MaxOverlaps \in Nat /\ MaxCrashes \in Nat

VARIABLES
  status,    \* status in the hash of a task, "absent" before it is written
  message,   \* the task's entry in the stream and its consumer group
  ids,       \* tasks whose id was drawn (uuid4)
  request,   \* the route each replica is serving
  work,      \* where the coroutine of a task in _active_tasks is
  crashes,   \* crashes so far
  overlapped \* tasks claimed while another replica still worked on them

vars == <<status, message, ids, request, work, crashes, overlapped>>
store == <<status, message>>
counters == <<ids, crashes, overlapped>>

Tasks == 1..MaxTasks

(* "stale": pending for longer than agent_task_claim_idle_ms.              *)
MessageStates == {"none", "added", "pending", "stale", "acked"}
Unacknowledged == {"added", "pending", "stale"}

(* Requests, by the next command they send.                                *)
RequestStates == {"idle",
  "write", "add",  \* enqueue_execute_plan
  "read", "stop",  \* cancel_task
  "kill",          \* runner.cancel_task, after it
  "look"}          \* retry_task
NoRequest == [at |-> "idle", task |-> 0]

(* Coroutines, by what they do next; `to' is the status being written, and *)
(* queued for those that write none.                                       *)
Pieces == {"none", "started", "lookup", "mark", "execute", "check",
           "acknowledge", "abort"}
NoWork == [at |-> "none", to |-> "queued"]

At(p, t, piece) == work[p][t].at = piece
Active(p) == {t \in Tasks : ~At(p, t, "none")}
InSemaphore(p) == {t \in Active(p) : ~At(p, t, "started")}

TypeOK ==
  /\ status \in [Tasks -> AgentTaskStatus \cup {"absent"}]
  /\ message \in [Tasks -> MessageStates]
  /\ ids \in 0..MaxTasks
  /\ request \in [Replicas -> [at : RequestStates, task : 0..MaxTasks]]
  /\ work \in [Replicas -> [Tasks -> [at : Pieces, to : AgentTaskStatus]]]
  /\ crashes \in 0..MaxCrashes
  /\ overlapped \subseteq Tasks
  /\ \A p \in Replicas : Cardinality(InSemaphore(p)) <= MaxConcurrency

Init ==
  /\ status = [t \in Tasks |-> "absent"]
  /\ message = [t \in Tasks |-> "none"]
  /\ ids = 0
  /\ request = [p \in Replicas |-> NoRequest]
  /\ work = [p \in Replicas |-> [t \in Tasks |-> NoWork]]
  /\ crashes = 0
  /\ overlapped = {}

Settled(t) == status[t] \in TerminalStatuses \cup {"waiting"}

Goes(p, t, piece, to) == work' = [work EXCEPT ![p][t] = [at |-> piece, to |-> to]]
Proceeds(p, t, piece) ==
  Goes(p, t, piece, IF piece = "mark" THEN work[p][t].to ELSE "queued")
Ends(p, t) == work' = [work EXCEPT ![p][t] = NoWork]

-----------------------------------------------------------------------------
(* Routes.                                                                 *)

Free(p) ==
  /\ request[p] = NoRequest
  /\ Cardinality({q \in Replicas : request[q] # NoRequest}) < MaxRequests
Serving(p, at) == request[p].at = at
Serve(p, at, t) == request' = [request EXCEPT ![p] = [at |-> at, task |-> t]]
Respond(p) == request' = [request EXCEPT ![p] = NoRequest]

(* The first half of enqueue_execute_plan: a new id.                       *)
NewTask(p) ==
  /\ ids < MaxTasks
  /\ ids' = ids + 1
  /\ Serve(p, "write", ids + 1)

StartPlanTask(p) ==
  /\ Free(p)
  /\ NewTask(p)
  /\ UNCHANGED <<store, work, crashes, overlapped>>

(* cancel_agent_task or retry_agent_task for a task the user knows of.     *)
AskFor(p, t, what) ==
  /\ Free(p)
  /\ status[t] # "absent"
  /\ Serve(p, what, t)
  /\ UNCHANGED <<store, work, counters>>

(* _write_task and xadd of an enqueue                                      *)
WriteTask(p) ==
  /\ Serving(p, "write")
  /\ LET t == request[p].task
     IN  status' = [status EXCEPT ![t] = "queued"] /\ Serve(p, "add", t)
  /\ UNCHANGED <<message, work, counters>>

AddMessage(p) ==
  /\ Serving(p, "add")
  /\ message' = [message EXCEPT ![request[p].task] = "added"]
  /\ Respond(p)
  /\ UNCHANGED <<status, work, counters>>

(* cancel_task: what is read here is what the next command overwrites.     *)
CancelReads(p) ==
  /\ Serving(p, "read")
  /\ LET t == request[p].task
     IN  Serve(p, IF status[t] \in TerminalStatuses THEN "kill" ELSE "stop", t)
  /\ UNCHANGED <<store, work, counters>>

CancelWrites(p) ==
  /\ Serving(p, "stop")
  /\ LET t == request[p].task
     IN  status' = [status EXCEPT ![t] = "stopped"] /\ Serve(p, "kill", t)
  /\ UNCHANGED <<message, work, counters>>

(* runner.cancel_task reaches the coroutines of this replica only.  One    *)
(* that waits to start, or is already aborting, ends without a look; the   *)
(* shielded acknowledge goes on.                                           *)
KillCoroutine(p) ==
  /\ Serving(p, "kill")
  /\ LET t == request[p].task
     IN  IF At(p, t, "none") \/ At(p, t, "acknowledge") THEN UNCHANGED work
         ELSE IF At(p, t, "started") \/ At(p, t, "abort") THEN Ends(p, t)
         ELSE Proceeds(p, t, "abort")
  /\ Respond(p)
  /\ UNCHANGED <<store, counters>>

RetryReads(p) ==
  /\ Serving(p, "look")
  /\ IF status[request[p].task] \in RetryableStatuses
     THEN NewTask(p)
     ELSE Respond(p) /\ UNCHANGED ids
  /\ UNCHANGED <<store, work, crashes, overlapped>>

-----------------------------------------------------------------------------
(* The loop of the runner.                                                 *)

(* _start_message for each message: a task that is active is skipped.      *)
Start(p, delivered) ==
  /\ work' = [work EXCEPT ![p] = [t \in Tasks |->
                IF t \in delivered \ Active(p)
                THEN [at |-> "started", to |-> "queued"] ELSE work[p][t]]]
  /\ overlapped' = overlapped \cup
       {t \in delivered \ Active(p) :
          \E q \in Replicas \ {p} : ~At(q, t, "none")}

(* One round of the loop: xautoclaim takes every stale message, whoever it *)
(* was delivered to, and xreadgroup one that nobody was given yet.         *)
Poll(p) ==
  /\ Cardinality(Active(p)) < MaxConcurrency
  /\ LET stale == {t \in Tasks : message[t] = "stale"}
         new == {t \in Tasks : message[t] = "added"}
     IN  \E next \in IF new = {} THEN {{}} ELSE {{t} : t \in new} :
           /\ stale \cup next # {}
           /\ message' = [t \in Tasks |-> IF t \in stale \cup next THEN "pending"
                                         ELSE message[t]]
           /\ Start(p, stale \cup next)
  /\ UNCHANGED <<status, request, ids, crashes>>

(* Time passes for a message that was delivered and not acknowledged.      *)
TurnsStale(t) ==
  /\ message[t] = "pending"
  /\ \/ Cardinality(overlapped) < MaxOverlaps
     \/ \A p \in Replicas : At(p, t, "none")
  /\ message' = [message EXCEPT ![t] = "stale"]
  /\ UNCHANGED <<status, request, work, ids, crashes, overlapped>>

-----------------------------------------------------------------------------
(* _process_message and _handle_message.                                   *)

(* Mutant of Enter: the semaphore is not waited for.                       *)
EnterUnbounded(p, t) ==
  /\ At(p, t, "started")
  /\ Proceeds(p, t, "lookup")
  /\ UNCHANGED <<store, request, counters>>

(* The semaphore, which is held until the coroutine ends.                  *)
Enter(p, t) ==
  /\ At(p, t, "started")
  /\ Cardinality(InSemaphore(p)) < MaxConcurrency
  /\ Proceeds(p, t, "lookup")
  /\ UNCHANGED <<store, request, counters>>

Lookup(p, t) ==
  /\ At(p, t, "lookup")
  /\ IF status[t] \in AbortedStatuses THEN Proceeds(p, t, "acknowledge")
     ELSE Goes(p, t, "mark", "running")
  /\ UNCHANGED <<store, request, counters>>

(* _update_status: reads the hash, and writes it with the new status; only *)
(* the status ever differs between the two.                                *)
Mark(p, t) ==
  /\ At(p, t, "mark")
  /\ status' = [status EXCEPT ![t] = work[p][t].to]
  /\ Proceeds(p, t, IF work[p][t].to = "running" THEN "execute" ELSE "acknowledge")
  /\ UNCHANGED <<message, request, counters>>

(* _execute_task: the plan was executed, blocked or failed.                *)
Execute(p, t) ==
  /\ At(p, t, "execute")
  /\ \/ Goes(p, t, "check", "completed")
     \/ Goes(p, t, "mark", "waiting")
     \/ Goes(p, t, "mark", "failed")
  /\ UNCHANGED <<store, request, counters>>

Check(p, t) ==
  /\ At(p, t, "check")
  /\ IF status[t] \in AbortedStatuses THEN Proceeds(p, t, "acknowledge")
     ELSE Proceeds(p, t, "mark")
  /\ UNCHANGED <<store, request, counters>>

(* Mutant of Abort: acknowledges whatever the status is.                   *)
AbortAcknowledges(p, t) ==
  /\ At(p, t, "abort")
  /\ Proceeds(p, t, "acknowledge")
  /\ UNCHANGED <<store, request, counters>>

(* The shielded get_task after a CancelledError.                           *)
Abort(p, t) ==
  /\ At(p, t, "abort")
  /\ IF status[t] \in AbortedStatuses THEN Proceeds(p, t, "acknowledge")
     ELSE Ends(p, t)
  /\ UNCHANGED <<store, request, counters>>

(* xack removes the message from the group, whoever it is pending for.     *)
Acknowledge(p, t) ==
  /\ At(p, t, "acknowledge")
  /\ message' = [message EXCEPT ![t] = "acked"]
  /\ Ends(p, t)
  /\ UNCHANGED <<status, request, counters>>

-----------------------------------------------------------------------------
(* Faults.                                                                 *)

(* A replica dies and is started again, with a new consumer name.          *)
Crash(p) ==
  /\ crashes < MaxCrashes
  /\ Active(p) # {} \/ ~Serving(p, "idle")
  /\ crashes' = crashes + 1
  /\ work' = [work EXCEPT ![p] = [t \in Tasks |-> NoWork]]
  /\ Respond(p)
  /\ UNCHANGED <<store, ids, overlapped>>

(* A Redis command of a coroutine raises.  In mark_running, the checks and *)
(* the acknowledge that ends the coroutine.                                *)
RedisError(p, t) ==
  /\ crashes < MaxCrashes
  /\ work[p][t].at \in {"lookup", "mark", "check", "abort", "acknowledge"}
  /\ crashes' = crashes + 1
  /\ Ends(p, t)
  /\ UNCHANGED <<store, request, ids, overlapped>>

-----------------------------------------------------------------------------
Route(p) ==
  \/ WriteTask(p) \/ AddMessage(p)
  \/ CancelReads(p) \/ CancelWrites(p) \/ KillCoroutine(p)
  \/ RetryReads(p)

User(p) ==
  \/ StartPlanTask(p)
  \/ \E t \in Tasks : AskFor(p, t, "read") \/ AskFor(p, t, "look")

Coroutine(p, t) ==
  \/ Enter(p, t) \/ Lookup(p, t) \/ Mark(p, t) \/ Execute(p, t)
  \/ Check(p, t) \/ Abort(p, t) \/ Acknowledge(p, t)

Next ==
  \/ \E p \in Replicas :
       \/ User(p) \/ Route(p) \/ Poll(p) \/ Crash(p)
       \/ \E t \in Tasks : Coroutine(p, t) \/ RedisError(p, t)
  \/ \E t \in Tasks : TurnsStale(t)

Spec == Init /\ [][Next]_vars

-----------------------------------------------------------------------------
(* An acknowledged message stands for a task that has settled: no crash,   *)
(* cancellation, retry or error between any two commands loses a task,     *)
(* as long as no replica claims what another is still working on.          *)
AckedIsSettled ==
  \A t \in Tasks \ overlapped : message[t] = "acked" => Settled(t)
=============================================================================
