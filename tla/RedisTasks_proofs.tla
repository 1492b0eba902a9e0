------------------------- MODULE RedisTasks_proofs -------------------------
(***************************************************************************)
(* Theorems about RedisTasks, for any number of replicas, tasks, requests  *)
(* and faults, and any order of the Redis commands.                        *)
(***************************************************************************)
EXTENDS RedisTasks, TLAPS, FiniteSetTheorems

(* The types, without the bound of the semaphore.                          *)
Types ==
  /\ status \in [Tasks -> AgentTaskStatus \cup {"absent"}]
  /\ message \in [Tasks -> MessageStates]
  /\ ids \in 0..MaxTasks
  /\ request \in [Replicas -> [at : RequestStates, task : 0..MaxTasks]]
  /\ work \in [Replicas -> [Tasks -> [at : Pieces, to : AgentTaskStatus]]]
  /\ crashes \in 0..MaxCrashes
  /\ overlapped \subseteq Tasks

Bounded(p) == Cardinality(InSemaphore(p)) <= MaxConcurrency

(* A request that is served names a task.                                  *)
RequestsNameTasks ==
  \A p \in Replicas : request[p].at # "idle" => request[p].task \in Tasks

TypeInv == Types /\ RequestsNameTasks

(* A replica is between drawing the id of t and adding its message.        *)
Enqueues(p, t) == request[p].at \in {"write", "add"} /\ request[p].task = t

(* An id is enqueued by one request, before its message exists; one that   *)
(* was not drawn has no message, and without a message nobody works on it. *)
EnqueuedOnce(t) ==
  /\ t > ids => message[t] = "none" /\ \A p \in Replicas : ~Enqueues(p, t)
  /\ message[t] = "none" => \A p \in Replicas : At(p, t, "none")
  /\ \A p \in Replicas : Enqueues(p, t) => message[t] = "none"
  /\ \A p, q \in Replicas : Enqueues(p, t) /\ Enqueues(q, t) => p = q

(* What a coroutine has established when it is about to send a command.    *)
Knows(p, t) ==
  /\ At(p, t, "acknowledge") => Settled(t)
  /\ At(p, t, "mark") => work[p][t].to \in {"running", "completed", "waiting", "failed"}
  /\ At(p, t, "check") => work[p][t].to = "completed"

(* One coroutine works on t, none before its message is delivered or after *)
(* it is acknowledged.                                                     *)
WorkedOnOnce(t) ==
  /\ message[t] \in {"added", "acked"}
       => \A p \in Replicas : At(p, t, "none")
  /\ \A p, q \in Replicas : ~At(p, t, "none") /\ ~At(q, t, "none") => p = q

Sound(t) ==
  /\ EnqueuedOnce(t)
  /\ t \notin overlapped =>
       /\ WorkedOnOnce(t)
       /\ \A p \in Replicas : Knows(p, t)
       /\ message[t] = "acked" => Settled(t)

SettledInv == \A t \in Tasks : Sound(t)

-----------------------------------------------------------------------------
(* What a step of a coroutine leaves alone: the work on all other tasks.   *)
Elsewhere(p, t) ==
  \A q \in Replicas, u \in Tasks : q # p \/ u # t => work'[q][u] = work[q][u]
WorkTyped == work \in [Replicas -> [Tasks -> [at : Pieces, to : AgentTaskStatus]]]

(* What one step of a coroutine writes.                                    *)
LEMMA WorkWritten ==
  ASSUME Types, NEW p \in Replicas, NEW t \in Tasks,
         NEW r \in [at : Pieces, to : AgentTaskStatus],
         work' = [work EXCEPT ![p][t] = r]
  PROVE  WorkTyped' /\ work'[p][t] = r /\ Elsewhere(p, t)
BY DEF Types, WorkTyped, Elsewhere

(* The same for Goes: the piece and the status to write.                   *)
LEMMA GoesWrites ==
  ASSUME Types, NEW p \in Replicas, NEW t \in Tasks,
         NEW piece \in Pieces, NEW to \in AgentTaskStatus, Goes(p, t, piece, to)
  PROVE  /\ WorkTyped' /\ Elsewhere(p, t)
         /\ work'[p][t].at = piece /\ work'[p][t].to = to
<1>1. [at |-> piece, to |-> to] \in [at : Pieces, to : AgentTaskStatus]
  OBVIOUS
<1>2. PICK r \in [at : Pieces, to : AgentTaskStatus] :
        /\ r = [at |-> piece, to |-> to]
        /\ work' = [work EXCEPT ![p][t] = r]
  BY <1>1 DEF Goes
<1>3. WorkTyped' /\ work'[p][t] = r /\ Elsewhere(p, t)
  BY <1>2, WorkWritten
<1>4. QED
  BY <1>2, <1>3

(* The same for Proceeds, which keeps the status only on the way to mark.  *)
LEMMA ProceedsWrites ==
  ASSUME Types, NEW p \in Replicas, NEW t \in Tasks,
         NEW piece \in Pieces, Proceeds(p, t, piece)
  PROVE  /\ WorkTyped' /\ Elsewhere(p, t)
         /\ work'[p][t].at = piece
         /\ piece = "mark" => work'[p][t].to = work[p][t].to
<1>1. "queued" \in AgentTaskStatus /\ work[p][t].to \in AgentTaskStatus
  BY DEF Types, AgentTaskStatus
<1>2. CASE piece = "mark"
  BY <1>1, <1>2, GoesWrites DEF Proceeds
<1>3. CASE piece # "mark"
  BY <1>1, <1>3, GoesWrites DEF Proceeds
<1>4. QED
  BY <1>2, <1>3

(* The same for Ends.                                                      *)
LEMMA EndsWrites ==
  ASSUME Types, NEW p \in Replicas, NEW t \in Tasks, Ends(p, t)
  PROVE  WorkTyped' /\ Elsewhere(p, t) /\ work'[p][t].at = "none"
<1>1. NoWork \in [at : Pieces, to : AgentTaskStatus] /\ NoWork.at = "none"
  BY DEF NoWork, Pieces, AgentTaskStatus
<1>2. QED
  BY <1>1, WorkWritten DEF Ends

(* What a route's step writes.                                             *)
LEMMA RequestWritten ==
  ASSUME Types, NEW p \in Replicas,
         NEW r \in [at : RequestStates, task : 0..MaxTasks],
         request' = [request EXCEPT ![p] = r]
  PROVE  /\ request' \in [Replicas -> [at : RequestStates, task : 0..MaxTasks]]
         /\ request'[p] = r
         /\ \A q \in Replicas : q # p => request'[q] = request[q]
BY DEF Types

(* The routes keep the types: a request goes on with its task or a new id. *)
LEMMA TypeRoutes ==
  ASSUME TypeInv, NEW p \in Replicas, User(p) \/ Route(p)
  PROVE  TypeInv'
<1> DEFINE R == [at : RequestStates, task : 0..MaxTasks]
           W == [Replicas -> [Tasks -> [at : Pieces, to : AgentTaskStatus]]]
           S == [Tasks -> AgentTaskStatus \cup {"absent"}]
           M == [Tasks -> MessageStates]
<1>1. /\ status \in S /\ message \in M /\ work \in W
      /\ ids \in 0..MaxTasks /\ MaxTasks \in Nat
      /\ request \in [Replicas -> R]
      /\ \A q \in Replicas : request[q].at # "idle" => request[q].task \in Tasks
  BY RedisAssumption DEF TypeInv, Types, RequestsNameTasks
(* What every route writes: a request that names a task, or none.          *)
<1>2. ASSUME NEW r \in R, request' = [request EXCEPT ![p] = r],
             r.at # "idle" => r.task \in Tasks,
             ids' \in 0..MaxTasks, status' \in S, message' \in M, work' \in W,
             UNCHANGED <<crashes, overlapped>>
      PROVE  TypeInv'
  <2>1. /\ request' \in [Replicas -> R]
        /\ request'[p] = r
        /\ \A q \in Replicas : q # p => request'[q] = request[q]
    BY <1>2, RequestWritten DEF TypeInv
  <2>2. Types'
    BY <1>2, <2>1 DEF TypeInv, Types, Tasks
  <2>3. \A q \in Replicas : request'[q].at # "idle" => request'[q].task \in Tasks
    BY <1>1, <1>2, <2>1
  <2>4. QED
    BY <2>2, <2>3 DEF TypeInv, RequestsNameTasks, Tasks
<1>3. NoRequest \in R /\ NoRequest.at = "idle"
  BY <1>1 DEF NoRequest, RequestStates
<1>4. ASSUME NEW at \in RequestStates, NEW t \in Tasks
      PROVE  [at |-> at, task |-> t] \in R
  BY <1>1 DEF Tasks
<1> HIDE DEF R, W, S, M
<1>5. ASSUME Respond(p), UNCHANGED <<crashes, overlapped, ids>>,
             status' \in S, message' \in M, work' \in W
      PROVE  TypeInv'
  BY <1>1, <1>2, <1>3, <1>5 DEF Respond
<1>6. ASSUME NEW at \in RequestStates, NEW t \in Tasks, Serve(p, at, t),
             UNCHANGED <<crashes, overlapped>>, ids' \in 0..MaxTasks,
             status' \in S, message' \in M, work' \in W
      PROVE  TypeInv'
  BY <1>2, <1>4, <1>6 DEF Serve
<1>7. ASSUME NewTask(p), UNCHANGED <<store, work, crashes, overlapped>>
      PROVE  TypeInv'
  <2>1. ids + 1 \in Tasks /\ ids' \in 0..MaxTasks
    BY <1>1, <1>7 DEF NewTask, Tasks
  <2>2. QED
    BY <1>1, <1>6, <1>7, <2>1 DEF NewTask, RequestStates, store
<1>8. CASE StartPlanTask(p)
  BY <1>7, <1>8 DEF StartPlanTask
<1>9. ASSUME NEW t \in Tasks, AskFor(p, t, "read") \/ AskFor(p, t, "look")
      PROVE  TypeInv'
  BY <1>1, <1>6, <1>9 DEF AskFor, RequestStates, store, counters
<1>10. CASE WriteTask(p)
  <2>1. request[p].task \in Tasks
    BY <1>1, <1>10 DEF WriteTask, Serving
  <2>2. status' \in S
    BY <1>1, <1>10 DEF WriteTask, AgentTaskStatus, S
  <2>3. QED
    BY <1>1, <1>6, <1>10, <2>1, <2>2 DEF WriteTask, RequestStates, counters
<1>11. CASE AddMessage(p)
  <2>1. message' \in M
    BY <1>1, <1>11 DEF AddMessage, MessageStates, M
  <2>2. QED
    BY <1>1, <1>5, <1>11, <2>1 DEF AddMessage, counters
<1>12. CASE CancelReads(p)
  <2>1. request[p].task \in Tasks
    BY <1>1, <1>12 DEF CancelReads, Serving
  <2>2. PICK at \in {"kill", "stop"} : Serve(p, at, request[p].task)
    BY <1>12 DEF CancelReads
  <2>3. QED
    BY <1>1, <1>6, <1>12, <2>1, <2>2 DEF CancelReads, RequestStates, store, counters
<1>13. CASE CancelWrites(p)
  <2>1. request[p].task \in Tasks
    BY <1>1, <1>13 DEF CancelWrites, Serving
  <2>2. status' \in S
    BY <1>1, <1>13 DEF CancelWrites, AgentTaskStatus, S
  <2>3. QED
    BY <1>1, <1>6, <1>13, <2>1, <2>2 DEF CancelWrites, RequestStates, counters
<1>14. CASE KillCoroutine(p)
  <2>1. request[p].task \in Tasks
    BY <1>1, <1>14 DEF KillCoroutine, Serving
  <2>2. work' \in W
    <3> DEFINE t == request[p].task
    <3>1. \/ UNCHANGED work \/ Ends(p, t) \/ Proceeds(p, t, "abort")
      BY <1>14 DEF KillCoroutine
    <3>2. t \in Tasks /\ Types /\ "abort" \in Pieces
      BY <2>1 DEF TypeInv, Pieces
    <3> HIDE DEF t
    <3>3. QED
      BY <1>1, <3>1, <3>2, EndsWrites, ProceedsWrites DEF WorkTyped, W
  <2>3. QED
    BY <1>1, <1>5, <1>14, <2>2 DEF KillCoroutine, store, counters
<1>15. CASE RetryReads(p)
  BY <1>1, <1>5, <1>7, <1>15 DEF RetryReads, store
<1>16. QED
  BY <1>8, <1>9, <1>10, <1>11, <1>12, <1>13, <1>14, <1>15 DEF User, Route

(* The commands of a coroutine keep the types.                             *)
LEMMA TypeCoroutine ==
  ASSUME TypeInv, NEW p \in Replicas, NEW t \in Tasks, Coroutine(p, t)
  PROVE  TypeInv' /\ Elsewhere(p, t)
<1>1. Types /\ WorkTyped
  BY DEF TypeInv, Types, WorkTyped
(* A coroutine writes its own status and message, and where it is.         *)
<1>2. ASSUME WorkTyped', UNCHANGED <<ids, request, crashes, overlapped>>,
             status' \in [Tasks -> AgentTaskStatus \cup {"absent"}],
             message' \in [Tasks -> MessageStates]
      PROVE  TypeInv'
  BY <1>1, <1>2 DEF TypeInv, Types, WorkTyped, RequestsNameTasks, Tasks
<1>3. ASSUME NEW piece \in Pieces, Proceeds(p, t, piece)
      PROVE  WorkTyped' /\ Elsewhere(p, t)
  BY <1>1, <1>3, ProceedsWrites
<1>4. ASSUME NEW piece \in Pieces, NEW to \in AgentTaskStatus, Goes(p, t, piece, to)
      PROVE  WorkTyped' /\ Elsewhere(p, t)
  BY <1>1, <1>4, GoesWrites
<1>5. ASSUME Ends(p, t)
      PROVE  WorkTyped' /\ Elsewhere(p, t)
  BY <1>1, <1>5, EndsWrites
<1>6. /\ status \in [Tasks -> AgentTaskStatus \cup {"absent"}]
      /\ message \in [Tasks -> MessageStates]
  BY <1>1 DEF Types
<1> USE DEF Pieces, AgentTaskStatus, store, counters
<1>7. CASE Enter(p, t)
  BY <1>2, <1>3, <1>6, <1>7 DEF Enter
<1>8. CASE Lookup(p, t)
  BY <1>2, <1>3, <1>4, <1>6, <1>8 DEF Lookup
<1>9. CASE Mark(p, t)
  <2>1. status' \in [Tasks -> AgentTaskStatus \cup {"absent"}]
    BY <1>1, <1>6, <1>9 DEF Mark, WorkTyped
  <2>2. WorkTyped' /\ Elsewhere(p, t)
    BY <1>3, <1>9 DEF Mark
  <2>3. QED
    BY <1>2, <1>6, <1>9, <2>1, <2>2 DEF Mark
<1>10. CASE Execute(p, t)
  BY <1>2, <1>4, <1>6, <1>10 DEF Execute
<1>11. CASE Check(p, t)
  BY <1>2, <1>3, <1>6, <1>11 DEF Check
<1>12. CASE Abort(p, t)
  BY <1>2, <1>3, <1>5, <1>6, <1>12 DEF Abort
<1>13. CASE Acknowledge(p, t)
  <2>1. message' \in [Tasks -> MessageStates]
    BY <1>6, <1>13 DEF Acknowledge, MessageStates
  <2>2. QED
    BY <1>2, <1>5, <1>6, <1>13, <2>1 DEF Acknowledge
<1>14. QED
  BY <1>7, <1>8, <1>9, <1>10, <1>11, <1>12, <1>13 DEF Coroutine

(* A poll gives its replica a coroutine for each message it delivers that  *)
(* the replica does not work on already.                                   *)
LEMMA PollWrites ==
  ASSUME TypeInv, NEW p \in Replicas, Poll(p)
  PROVE  \E delivered \in SUBSET Tasks :
           /\ \A u \in delivered : message[u] \in {"stale", "added"}
           /\ \A u \in Tasks : message'[u] =
                IF u \in delivered THEN "pending" ELSE message[u]
           /\ message' \in [Tasks -> MessageStates]
           /\ WorkTyped'
           /\ \A q \in Replicas, u \in Tasks :
                \/ work'[q][u] = work[q][u]
                \/ q = p /\ u \in delivered /\ At(p, u, "none") /\ work'[p][u].at = "started"
           /\ overlapped' = overlapped \cup
                {u \in delivered \ Active(p) :
                   \E q \in Replicas \ {p} : ~At(q, u, "none")}
           /\ UNCHANGED <<status, request, ids, crashes>>
<1>1. PICK delivered \in SUBSET Tasks :
        /\ \A u \in delivered : message[u] \in {"stale", "added"}
        /\ message' = [u \in Tasks |-> IF u \in delivered THEN "pending" ELSE message[u]]
        /\ Start(p, delivered)
  <2>1. PICK next \in SUBSET {t \in Tasks : message[t] = "added"} :
          /\ message' = [u \in Tasks |->
               IF u \in {t \in Tasks : message[t] = "stale"} \cup next
               THEN "pending" ELSE message[u]]
          /\ Start(p, {t \in Tasks : message[t] = "stale"} \cup next)
    BY DEF Poll
  <2>2. QED
    BY <2>1
<1>2. work \in [Replicas -> [Tasks -> [at : Pieces, to : AgentTaskStatus]]]
      /\ message \in [Tasks -> MessageStates]
  BY DEF TypeInv, Types
<1>3. [at |-> "started", to |-> "queued"] \in [at : Pieces, to : AgentTaskStatus]
  BY DEF Pieces, AgentTaskStatus
<1>4. WorkTyped'
  BY <1>1, <1>2, <1>3 DEF Start, WorkTyped
<1>5. ASSUME NEW q \in Replicas, NEW u \in Tasks
      PROVE  \/ work'[q][u] = work[q][u]
             \/ q = p /\ u \in delivered /\ At(p, u, "none") /\ work'[p][u].at = "started"
  BY <1>1, <1>2 DEF Start, Active
<1>6. message' \in [Tasks -> MessageStates]
  BY <1>1, <1>2 DEF MessageStates
<1>7. QED
  BY <1>1, <1>4, <1>5, <1>6 DEF Poll, Start

(* Every step keeps the types.                                             *)
LEMMA TypeNext ==
  ASSUME TypeInv, [Next]_vars
  PROVE  TypeInv'
<1> USE DEF store, counters
<1>1. ASSUME NEW p \in Replicas, User(p) \/ Route(p)
      PROVE  TypeInv'
  BY <1>1, TypeRoutes
<1>2. ASSUME NEW p \in Replicas, Poll(p)
      PROVE  TypeInv'
  <2>1. /\ WorkTyped' /\ message' \in [Tasks -> MessageStates]
        /\ overlapped' \subseteq Tasks
        /\ UNCHANGED <<status, request, ids, crashes>>
    BY <1>2, PollWrites DEF TypeInv, Types
  <2>2. QED
    BY <2>1 DEF TypeInv, Types, RequestsNameTasks, WorkTyped, Tasks
<1>3. ASSUME NEW p \in Replicas, Crash(p)
      PROVE  TypeInv'
  <2>1. NoWork \in [at : Pieces, to : AgentTaskStatus]
    BY DEF NoWork, Pieces, AgentTaskStatus
  <2>2. WorkTyped'
    BY <1>3, <2>1 DEF Crash, TypeInv, Types, WorkTyped
  <2>3. NoRequest \in [at : RequestStates, task : 0..MaxTasks] /\ NoRequest.at = "idle"
    BY RedisAssumption DEF NoRequest, RequestStates
  <2>4. /\ request' \in [Replicas -> [at : RequestStates, task : 0..MaxTasks]]
        /\ request'[p].at = "idle"
        /\ \A q \in Replicas : q # p => request'[q] = request[q]
    BY <1>3, <2>3, RequestWritten DEF Crash, Respond, TypeInv
  <2>5. crashes' \in 0..MaxCrashes
    BY <1>3, RedisAssumption DEF Crash, TypeInv, Types
  <2>6. \A q \in Replicas : request'[q].at # "idle" => request'[q].task \in Tasks
    BY <2>4 DEF TypeInv, RequestsNameTasks
  <2>7. QED
    BY <1>3, <2>2, <2>4, <2>5, <2>6 DEF Crash, TypeInv, Types, RequestsNameTasks,
       WorkTyped, Tasks
<1>4. ASSUME NEW p \in Replicas, NEW t \in Tasks, Coroutine(p, t)
      PROVE  TypeInv'
  BY <1>4, TypeCoroutine
<1>5. ASSUME NEW p \in Replicas, NEW t \in Tasks, RedisError(p, t)
      PROVE  TypeInv'
  <2>1. WorkTyped'
    BY <1>5, EndsWrites DEF RedisError, TypeInv
  <2>2. crashes' \in 0..MaxCrashes
    BY <1>5, RedisAssumption DEF RedisError, TypeInv, Types
  <2>3. QED
    BY <1>5, <2>1, <2>2 DEF RedisError, TypeInv, Types, RequestsNameTasks, WorkTyped, Tasks
<1>6. ASSUME NEW t \in Tasks, TurnsStale(t)
      PROVE  TypeInv'
  <2>1. message' \in [Tasks -> MessageStates]
    BY <1>6 DEF TurnsStale, TypeInv, Types, MessageStates
  <2>2. QED
    BY <1>6, <2>1 DEF TurnsStale, TypeInv, Types, RequestsNameTasks, Tasks
<1>7. CASE UNCHANGED vars
  BY <1>7 DEF vars, TypeInv, Types, RequestsNameTasks, Tasks
<1>8. QED
  BY <1>1, <1>2, <1>3, <1>4, <1>5, <1>6, <1>7 DEF Next

(* They hold at the start.                                                 *)
LEMMA TypeInit ==
  ASSUME Init
  PROVE  TypeInv
<1>1. NoWork \in [at : Pieces, to : AgentTaskStatus]
  BY DEF NoWork, Pieces, AgentTaskStatus
<1>2. NoRequest \in [at : RequestStates, task : 0..MaxTasks] /\ NoRequest.at = "idle"
  BY RedisAssumption DEF NoRequest, RequestStates
<1>3. 0 \in 0..MaxTasks /\ 0 \in 0..MaxCrashes
  BY RedisAssumption
<1>4. work \in [Replicas -> [Tasks -> [at : Pieces, to : AgentTaskStatus]]]
  BY <1>1 DEF Init
<1>5. /\ request \in [Replicas -> [at : RequestStates, task : 0..MaxTasks]]
      /\ RequestsNameTasks
  BY <1>2 DEF Init, RequestsNameTasks
<1>6. QED
  BY <1>3, <1>4, <1>5 DEF Init, TypeInv, Types, MessageStates, AgentTaskStatus

(* Hence they are invariants.                                              *)
LEMMA TypeAlways == Spec => []TypeInv
<1>1. QED
  BY TypeInit, TypeNext, PTL DEF Spec

-----------------------------------------------------------------------------
(* The tasks of a replica are finitely many.                               *)
LEMMA SemaphoreFinite ==
  ASSUME TypeInv, NEW p \in Replicas
  PROVE  IsFiniteSet(InSemaphore(p)) /\ Cardinality(InSemaphore(p)) \in Nat
<1>1. IsFiniteSet(Tasks)
  BY RedisAssumption, FS_Interval DEF Tasks
<1>2. InSemaphore(p) \subseteq Tasks
  BY DEF InSemaphore, Active
<1>3. QED
  BY <1>1, <1>2, FS_Subset, FS_CardinalityType

(* Only Enter lets a coroutine into the semaphore of its replica.          *)
LEMMA SemaphoreStep ==
  ASSUME TypeInv, [Next]_vars, NEW p \in Replicas, NEW t \in Tasks,
         ~Enter(p, t), work'[p][t].at \notin {"none", "started"}
  PROVE  t \in InSemaphore(p)
<1> SUFFICES work[p][t].at \notin {"none", "started"}
  BY DEF InSemaphore, Active, At
<1> USE DEF store, counters
<1>1. ASSUME NEW q \in Replicas, User(q) \/ Route(q)
      PROVE  work[p][t].at \notin {"none", "started"}
  <2>1. CASE KillCoroutine(q)
    <3> DEFINE u == request[q].task
    <3>1. \/ UNCHANGED work \/ Ends(q, u)
          \/ Proceeds(q, u, "abort") /\ work[q][u].at \notin {"none", "started"}
      BY <2>1 DEF KillCoroutine, At
    <3>2. u \in Tasks /\ Types /\ "abort" \in Pieces
      BY <2>1 DEF TypeInv, RequestsNameTasks, KillCoroutine, Serving, Pieces
    <3> HIDE DEF u
    <3>3. QED
      BY <3>1, <3>2, EndsWrites, ProceedsWrites DEF Elsewhere
  <2>2. CASE UNCHANGED work
    BY <2>2
  <2>3. QED
    BY <1>1, <2>1, <2>2 DEF User, Route, StartPlanTask, AskFor, WriteTask, AddMessage,
       CancelReads, CancelWrites, RetryReads
<1>2. ASSUME NEW q \in Replicas, Poll(q)
      PROVE  work[p][t].at \notin {"none", "started"}
  BY <1>2, PollWrites
<1>3. ASSUME NEW q \in Replicas, Crash(q)
      PROVE  work[p][t].at \notin {"none", "started"}
  BY <1>3 DEF Crash, NoWork, TypeInv, Types
<1>4. ASSUME NEW q \in Replicas, NEW u \in Tasks, Coroutine(q, u)
      PROVE  work[p][t].at \notin {"none", "started"}
  <2>1. CASE q # p \/ u # t
    BY <1>4, <2>1, TypeCoroutine DEF Elsewhere
  <2>2. CASE q = p /\ u = t
    BY <1>4, <2>2 DEF Coroutine, Lookup, Mark, Execute, Check, Abort, Acknowledge, At
  <2>3. QED
    BY <2>1, <2>2
<1>5. ASSUME NEW q \in Replicas, NEW u \in Tasks, RedisError(q, u)
      PROVE  work[p][t].at \notin {"none", "started"}
  BY <1>5, EndsWrites DEF RedisError, TypeInv, Elsewhere
<1>6. ASSUME NEW u \in Tasks, TurnsStale(u)
      PROVE  work[p][t].at \notin {"none", "started"}
  BY <1>6 DEF TurnsStale
<1>7. CASE UNCHANGED vars
  BY <1>7 DEF vars
<1>8. QED
  BY <1>1, <1>2, <1>3, <1>4, <1>5, <1>6, <1>7 DEF Next

(* No replica executes more than its semaphore allows.                     *)
LEMMA BoundedNext ==
  ASSUME TypeInv, [Next]_vars, NEW p \in Replicas, Bounded(p)
  PROVE  Bounded(p)'
<1>1. IsFiniteSet(InSemaphore(p)) /\ Cardinality(InSemaphore(p)) \in Nat
  BY SemaphoreFinite
<1>2. MaxConcurrency \in Nat
  BY RedisAssumption
<1>3. InSemaphore(p)' = {u \in Tasks : work'[p][u].at \notin {"none", "started"}}
  BY DEF InSemaphore, Active, At, Tasks
<1>4. CASE \E t \in Tasks : Enter(p, t)
  <2>1. PICK t \in Tasks : Enter(p, t)
    BY <1>4
  <2>2. Elsewhere(p, t)
    BY <2>1, TypeCoroutine DEF Coroutine
  <2>3. InSemaphore(p)' \subseteq InSemaphore(p) \cup {t}
    BY <1>3, <2>2 DEF Elsewhere, InSemaphore, Active, At
  <2>4. t \notin InSemaphore(p) /\ Cardinality(InSemaphore(p)) < MaxConcurrency
    BY <2>1 DEF Enter, InSemaphore
  <2>5. /\ IsFiniteSet(InSemaphore(p) \cup {t})
        /\ Cardinality(InSemaphore(p) \cup {t}) = Cardinality(InSemaphore(p)) + 1
    BY <1>1, <2>4, FS_AddElement
  <2>6. /\ Cardinality(InSemaphore(p)') <= Cardinality(InSemaphore(p) \cup {t})
        /\ Cardinality(InSemaphore(p)') \in Nat
    BY <2>3, <2>5, FS_Subset, FS_CardinalityType
  <2>7. QED
    BY <1>1, <1>2, <2>4, <2>5, <2>6 DEF Bounded
<1>5. CASE ~\E t \in Tasks : Enter(p, t)
  <2>1. InSemaphore(p)' \subseteq InSemaphore(p)
    BY <1>3, <1>5, SemaphoreStep
  <2>2. /\ Cardinality(InSemaphore(p)') <= Cardinality(InSemaphore(p))
        /\ Cardinality(InSemaphore(p)') \in Nat
    BY <1>1, <2>1, FS_Subset, FS_CardinalityType
  <2>3. QED
    BY <1>1, <1>2, <2>2 DEF Bounded
<1>6. QED
  BY <1>4, <1>5

(* Type correctness: the types, and the bound of every replica's           *)
(* semaphore, whatever is started, cancelled, retried, claimed or lost.    *)
THEOREM TypeCorrect == Spec => []TypeOK
<1> DEFINE AllBounded == \A p \in Replicas : Bounded(p)
<1>1. Init => AllBounded
  <2>1. ASSUME Init, NEW p \in Replicas
        PROVE  InSemaphore(p) = {}
    BY <2>1 DEF Init, InSemaphore, Active, At, NoWork
  <2>2. QED
    BY <2>1, FS_EmptySet, RedisAssumption DEF Bounded
<1>2. TypeInv /\ AllBounded /\ [Next]_vars => AllBounded'
  BY BoundedNext
<1>3. TypeInv /\ AllBounded => TypeOK
  BY DEF TypeInv, Types, TypeOK, Bounded
<1> HIDE DEF AllBounded
<1>4. QED
  BY <1>1, <1>2, <1>3, TypeAlways, PTL DEF Spec

-----------------------------------------------------------------------------
(* A step that neither begins to enqueue u, nor delivers or acknowledges   *)
(* it, nor starts a coroutine on it, keeps what is known of it.            *)
LEMMA SoundKept ==
  ASSUME TypeInv, NEW u \in Tasks, Sound(u),
         UNCHANGED overlapped, ids' = ids,
         \/ message'[u] = message[u]
         \/ message[u] \in {"pending", "stale"} /\ message'[u] \in {"pending", "stale"},
         \A q \in Replicas :
           /\ Enqueues(q, u)' => Enqueues(q, u)
           /\ work[q][u].at = "none" => work'[q][u].at = "none"
           /\ u \notin overlapped /\ message[u] # "none" => Knows(q, u)',
         message[u] # "none" /\ Settled(u) => Settled(u)'
  PROVE  Sound(u)'
<1>1. EnqueuedOnce(u)'
  BY DEF Sound, EnqueuedOnce, At
<1>2. ASSUME u \notin overlapped
      PROVE  WorkedOnOnce(u)' /\ (message'[u] = "acked" => Settled(u)')
  BY <1>2 DEF Sound, WorkedOnOnce, At
<1>3. ASSUME u \notin overlapped, NEW q \in Replicas
      PROVE  Knows(q, u)'
  <2>1. CASE message[u] # "none"
    BY <1>3, <2>1
  <2>2. CASE message[u] = "none"
    BY <1>3, <2>2 DEF Sound, EnqueuedOnce, Knows, At
  <2>3. QED
    BY <2>1, <2>2
<1>4. QED
  BY <1>1, <1>2, <1>3 DEF Sound

(* Drawing an id: nobody else enqueues it, and it has no message.          *)
LEMMA SoundNewTask ==
  ASSUME TypeInv, NEW p \in Replicas, NewTask(p), UNCHANGED <<store, work, crashes, overlapped>>,
         request[p].at \notin {"write", "add"},
         NEW u \in Tasks, Sound(u)
  PROVE  Sound(u)'
<1> USE DEF store
<1>1. ids \in Nat /\ u \in Nat
  BY RedisAssumption DEF TypeInv, Types, Tasks
<1>2. /\ request'[p] = [at |-> "write", task |-> ids + 1]
      /\ \A q \in Replicas : q # p => request'[q] = request[q]
      /\ ids' = ids + 1
  BY DEF NewTask, Serve, TypeInv, Types
<1>3. ASSUME NEW q \in Replicas
      PROVE  Enqueues(q, u)' <=> IF q = p THEN u = ids + 1 ELSE Enqueues(q, u)
  BY <1>2 DEF Enqueues
<1>4. EnqueuedOnce(u)'
  <2>1. CASE u = ids + 1
    BY <1>1, <1>2, <1>3, <2>1 DEF Sound, EnqueuedOnce, At
  <2>2. CASE u # ids + 1
    BY <1>1, <1>2, <1>3, <2>2 DEF Sound, EnqueuedOnce, At
  <2>3. QED
    BY <2>1, <2>2
<1>5. QED
  BY <1>4 DEF Sound, WorkedOnOnce, Knows, Settled, At

(* The routes keep what is known.                                          *)
LEMMA SoundRoutes ==
  ASSUME TypeInv, NEW p \in Replicas, User(p) \/ Route(p), NEW u \in Tasks, Sound(u)
  PROVE  Sound(u)'
<1> USE DEF store, counters
<1> DEFINE r == request[p].task
<1>1. /\ status \in [Tasks -> AgentTaskStatus \cup {"absent"}]
      /\ message \in [Tasks -> MessageStates]
      /\ request \in [Replicas -> [at : RequestStates, task : 0..MaxTasks]]
      /\ request[p].at # "idle" => r \in Tasks
  BY DEF TypeInv, Types, RequestsNameTasks
<1>2. u \notin overlapped => \A q \in Replicas : Knows(q, u)
  BY DEF Sound
(* A request that goes on or ends leaves the others alone.                 *)
<1>3. ASSUME NEW at \in RequestStates \ {"write"}, NEW t \in Tasks,
             at = "add" => request[p] = [at |-> "write", task |-> t],
             Serve(p, at, t) \/ Respond(p), NEW q \in Replicas
      PROVE  Enqueues(q, u)' => Enqueues(q, u)
  BY <1>1, <1>3 DEF Serve, Respond, NoRequest, Enqueues
<1>4. CASE StartPlanTask(p)
  <2>1. request[p].at = "idle"
    BY <1>4 DEF StartPlanTask, Free, NoRequest
  <2>2. QED
    BY <1>4, <2>1, SoundNewTask DEF StartPlanTask
<1>5. ASSUME NEW t \in Tasks, AskFor(p, t, "read") \/ AskFor(p, t, "look")
      PROVE  Sound(u)'
  BY <1>2, <1>3, <1>5, SoundKept DEF AskFor, Knows, Settled, At, RequestStates
<1>6. CASE WriteTask(p)
  <2>1. /\ r \in Tasks /\ Enqueues(p, r) /\ request[p] = [at |-> "write", task |-> r]
        /\ Serve(p, "add", r)
        /\ \A t \in Tasks : t # r => status'[t] = status[t]
        /\ UNCHANGED <<message, work, ids, crashes, overlapped>>
    BY <1>1, <1>6 DEF WriteTask, Serving, Enqueues
  <2>2. message[u] # "none" => u # r
    BY <2>1 DEF Sound, EnqueuedOnce
  <2>3. \A q \in Replicas : Enqueues(q, u)' => Enqueues(q, u)
    BY <1>3, <2>1 DEF RequestStates
  <2>4. message[u] # "none" => status'[u] = status[u]
    BY <2>1, <2>2
  <2> HIDE DEF r
  <2>5. QED
    BY <1>2, <2>1, <2>3, <2>4, SoundKept DEF Knows, Settled, At
<1>7. CASE AddMessage(p)
  <2>1. /\ r \in Tasks /\ Enqueues(p, r) /\ Respond(p)
        /\ message' = [message EXCEPT ![r] = "added"]
        /\ UNCHANGED <<status, work, ids, crashes, overlapped>>
    BY <1>1, <1>7 DEF AddMessage, Serving, Enqueues
  <2>2. \A q \in Replicas : Enqueues(q, u)' => Enqueues(q, u) /\ q # p
    BY <1>1, <2>1 DEF Respond, NoRequest, Enqueues
  <2>3. CASE u # r
    BY <1>1, <1>2, <2>1, <2>2, <2>3, SoundKept DEF Knows, Settled, At
  <2>4. CASE u = r
    <3>1. /\ message'[u] = "added" /\ message[u] = "none" /\ ~(u > ids)
          /\ \A q \in Replicas : work[q][u].at = "none"
      BY <1>1, <2>1, <2>4 DEF Sound, EnqueuedOnce, At
    <3>2. \A q \in Replicas : ~Enqueues(q, u)'
      BY <2>1, <2>2, <2>4 DEF Sound, EnqueuedOnce
    <3>3. EnqueuedOnce(u)'
      BY <2>1, <3>1, <3>2 DEF EnqueuedOnce, At
    <3>4. QED
      BY <2>1, <3>1, <3>3 DEF Sound, WorkedOnOnce, Knows, At
  <2>5. QED
    BY <2>3, <2>4
<1>8. CASE CancelReads(p)
  <2>1. PICK at \in {"kill", "stop"} : Serve(p, at, r)
    BY <1>8 DEF CancelReads
  <2>2. r \in Tasks
    BY <1>1, <1>8 DEF CancelReads, Serving
  <2> HIDE DEF r
  <2>3. \A q \in Replicas : Enqueues(q, u)' => Enqueues(q, u)
    BY <1>3, <2>1, <2>2 DEF RequestStates
  <2>4. QED
    BY <1>2, <1>8, <2>3, SoundKept DEF CancelReads, Knows, Settled, At
<1>9. CASE CancelWrites(p)
  <2>1. /\ r \in Tasks /\ Serve(p, "kill", r)
        /\ \A t \in Tasks : status'[t] = status[t] \/ status'[t] = "stopped"
        /\ UNCHANGED <<message, work, ids, crashes, overlapped>>
    BY <1>1, <1>9 DEF CancelWrites, Serving
  <2> HIDE DEF r
  <2>3. \A q \in Replicas : Enqueues(q, u)' => Enqueues(q, u)
    BY <1>3, <2>1 DEF RequestStates
  <2>4. Settled(u) => Settled(u)'
    BY <2>1 DEF Settled, TerminalStatuses
  <2>5. QED
    BY <1>2, <2>1, <2>3, <2>4, SoundKept DEF Knows, At
<1>10. CASE KillCoroutine(p)
  <2>1. /\ r \in Tasks /\ Respond(p) /\ Types /\ "abort" \in Pieces
        /\ UNCHANGED <<status, message, ids, crashes, overlapped>>
    BY <1>1, <1>10 DEF KillCoroutine, Serving, TypeInv, Pieces
  <2>2. \/ UNCHANGED work
        \/ Ends(p, r)
        \/ work[p][r].at # "none" /\ Proceeds(p, r, "abort")
    BY <1>10 DEF KillCoroutine, At
  <2>3. \A q \in Replicas : Enqueues(q, u)' => Enqueues(q, u)
    BY <1>1, <2>1 DEF Respond, NoRequest, Enqueues
  <2> HIDE DEF r
  <2>4. ASSUME NEW q \in Replicas
        PROVE  \/ work'[q][u] = work[q][u]
               \/ work'[q][u].at = "none"
               \/ work[q][u].at # "none" /\ work'[q][u].at = "abort"
    BY <2>1, <2>2, EndsWrites, ProceedsWrites DEF Elsewhere
  <2>5. ASSUME NEW q \in Replicas
        PROVE  /\ work[q][u].at = "none" => work'[q][u].at = "none"
               /\ u \notin overlapped => Knows(q, u)'
    BY <1>2, <2>1, <2>4 DEF Knows, At, Settled
  <2>6. QED
    BY <2>1, <2>3, <2>5, SoundKept DEF Settled
<1>11. CASE RetryReads(p)
  <2>1. CASE NewTask(p)
    BY <1>11, <2>1, SoundNewTask DEF RetryReads, Serving
  <2>2. CASE Respond(p) /\ UNCHANGED ids
    <3>1. \A q \in Replicas : Enqueues(q, u)' => Enqueues(q, u)
      BY <1>1, <2>2 DEF Respond, NoRequest, Enqueues
    <3>2. QED
      BY <1>2, <1>11, <2>2, <3>1, SoundKept DEF RetryReads, Knows, Settled, At
  <2>3. QED
    BY <1>11, <2>1, <2>2 DEF RetryReads
<1>12. QED
  BY <1>4, <1>5, <1>6, <1>7, <1>8, <1>9, <1>10, <1>11 DEF User, Route

(* So do the commands of a coroutine: alone on its task, it knows that     *)
(* nobody undoes what it has read or written.                              *)
LEMMA SoundCoroutine ==
  ASSUME TypeInv, NEW p \in Replicas, NEW t \in Tasks, Coroutine(p, t),
         NEW u \in Tasks, Sound(u)
  PROVE  Sound(u)'
<1> USE DEF store, counters
<1>1. /\ status \in [Tasks -> AgentTaskStatus \cup {"absent"}]
      /\ message \in [Tasks -> MessageStates]
      /\ Types
  BY DEF TypeInv, Types
<1>2. /\ work[p][t].at # "none"
      /\ UNCHANGED <<ids, request, crashes, overlapped>>
  BY DEF Coroutine, Enter, Lookup, Mark, Execute, Check, Abort, Acknowledge, At
<1>3. Elsewhere(p, t)
  BY TypeCoroutine
<1>4. \A q \in Replicas : Enqueues(q, u)' => Enqueues(q, u)
  BY <1>2 DEF Enqueues
<1>5. u \notin overlapped => \A q \in Replicas : Knows(q, u)
  BY DEF Sound
<1>6. CASE u # t
  <2>1. status'[u] = status[u] /\ message'[u] = message[u]
    BY <1>1, <1>6 DEF Coroutine, Enter, Lookup, Mark, Execute, Check, Abort, Acknowledge
  <2>2. \A q \in Replicas : work'[q][u] = work[q][u]
    BY <1>3, <1>6 DEF Elsewhere
  <2>3. QED
    BY <1>2, <1>4, <1>5, <2>1, <2>2, SoundKept DEF Knows, Settled, At
<1>7. ASSUME u = t, UNCHANGED message,
             u \notin overlapped => Knows(p, u)',
             u \notin overlapped => (Settled(u) => Settled(u)')
      PROVE  Sound(u)'
  <2>1. ASSUME NEW q \in Replicas
        PROVE  /\ work[q][u].at = "none" => work'[q][u].at = "none"
               /\ u \notin overlapped /\ message[u] # "none" => Knows(q, u)'
    <3>1. CASE q = p
      BY <1>2, <1>7, <3>1
    <3>2. CASE q # p
      <4>1. work'[q][u] = work[q][u]
        BY <1>3, <3>2 DEF Elsewhere
      <4>2. u \notin overlapped => work[q][u].at = "none"
        BY <1>2, <1>7, <3>2 DEF Sound, WorkedOnOnce, At
      <4>3. QED
        BY <4>1, <4>2 DEF Knows, At
    <3>3. QED
      BY <3>1, <3>2
  <2>2. EnqueuedOnce(u)'
    BY <1>2, <1>4, <1>7, <2>1 DEF Sound, EnqueuedOnce, At
  <2>3. ASSUME u \notin overlapped
        PROVE  WorkedOnOnce(u)' /\ (message'[u] = "acked" => Settled(u)')
    BY <1>2, <1>7, <2>1, <2>3 DEF Sound, WorkedOnOnce, At
  <2>4. message[u] # "none"
    BY <1>2, <1>7 DEF Sound, EnqueuedOnce, At
  <2>5. QED
    BY <1>2, <2>1, <2>2, <2>3, <2>4 DEF Sound
<1>8. CASE u = t /\ Enter(p, t)
  <2>1. work'[p][u].at = "lookup"
    BY <1>1, <1>8, ProceedsWrites DEF Enter, Pieces
  <2>2. QED
    BY <1>7, <1>8, <2>1 DEF Enter, Knows, Settled, At
<1>9. CASE u = t /\ Lookup(p, t)
  <2>1. CASE status[t] \in AbortedStatuses
    <3>1. work'[p][u].at = "acknowledge"
      BY <1>1, <1>9, <2>1, ProceedsWrites DEF Lookup, Pieces
    <3>2. Settled(u)'
      BY <1>9, <2>1 DEF Lookup, Settled, AbortedStatuses, TerminalStatuses
    <3>3. QED
      BY <1>7, <1>9, <3>1, <3>2 DEF Lookup, Knows, At
  <2>2. CASE status[t] \notin AbortedStatuses
    <3>1. work'[p][u].at = "mark" /\ work'[p][u].to = "running"
      BY <1>1, <1>9, <2>2, GoesWrites DEF Lookup, Pieces, AgentTaskStatus
    <3>2. QED
      BY <1>7, <1>9, <3>1 DEF Lookup, Knows, Settled, At
  <2>3. QED
    BY <2>1, <2>2
<1>10. CASE u = t /\ Mark(p, t)
  <2>1. work[p][t].to \in AgentTaskStatus
    BY <1>1 DEF Types
  <2>2. status'[u] = work[p][u].to
    BY <1>1, <1>10 DEF Mark
  <2>3. u \notin overlapped => work[p][u].to \in {"running", "completed", "waiting", "failed"}
    BY <1>5, <1>10 DEF Mark, Knows
  <2>4. CASE work[p][u].to = "running"
    <3>1. work'[p][u].at = "execute"
      BY <1>1, <1>10, <2>4, ProceedsWrites DEF Mark, Pieces
    <3>2. UNCHANGED message
      BY <1>10 DEF Mark
    <3>3. u \notin overlapped => message[u] # "acked"
      BY <1>2, <1>10 DEF Sound, WorkedOnOnce, At
    <3>4. message[u] # "none"
      BY <1>2, <1>10 DEF Sound, EnqueuedOnce, At
    <3>5. ASSUME NEW q \in Replicas
          PROVE  work[q][u].at = "none" => work'[q][u].at = "none"
      BY <1>2, <1>3, <1>10 DEF Elsewhere
    <3>6. EnqueuedOnce(u)'
      BY <1>2, <1>4, <3>2, <3>5 DEF Sound, EnqueuedOnce, At
    <3>7. ASSUME u \notin overlapped, NEW q \in Replicas
          PROVE  Knows(q, u)'
      <4>1. CASE q = p
        BY <3>1, <4>1 DEF Knows, At
      <4>2. CASE q # p
        BY <1>2, <1>10, <3>5, <3>7, <4>2 DEF Sound, WorkedOnOnce, Knows, At
      <4>3. QED
        BY <4>1, <4>2
    <3>8. ASSUME u \notin overlapped
          PROVE  WorkedOnOnce(u)' /\ message'[u] # "acked"
      BY <3>2, <3>3, <3>5, <3>8 DEF Sound, WorkedOnOnce, At
    <3>9. QED
      BY <1>2, <3>6, <3>7, <3>8 DEF Sound
  <2>5. CASE work[p][u].to # "running"
    <3>1. work'[p][u].at = "acknowledge"
      BY <1>1, <1>10, <2>5, ProceedsWrites DEF Mark, Pieces
    <3>2. u \notin overlapped => Settled(u)'
      BY <2>2, <2>3, <2>5 DEF Settled, TerminalStatuses
    <3>3. QED
      BY <1>7, <1>10, <3>1, <3>2 DEF Mark, Knows, At
  <2>6. QED
    BY <2>4, <2>5
<1>11. CASE u = t /\ Execute(p, t)
  <2>1. \/ work'[p][u].at = "check" /\ work'[p][u].to = "completed"
        \/ work'[p][u].at = "mark" /\ work'[p][u].to \in {"waiting", "failed"}
    BY <1>1, <1>11, GoesWrites DEF Execute, Pieces, AgentTaskStatus
  <2>2. QED
    BY <1>7, <1>11, <2>1 DEF Execute, Knows, Settled, At
<1>12. CASE u = t /\ Check(p, t)
  <2>1. CASE status[t] \in AbortedStatuses
    <3>1. work'[p][u].at = "acknowledge"
      BY <1>1, <1>12, <2>1, ProceedsWrites DEF Check, Pieces
    <3>2. Settled(u)'
      BY <1>12, <2>1 DEF Check, Settled, AbortedStatuses, TerminalStatuses
    <3>3. QED
      BY <1>7, <1>12, <3>1, <3>2 DEF Check, Knows, At
  <2>2. CASE status[t] \notin AbortedStatuses
    <3>1. work'[p][u].at = "mark" /\ work'[p][u].to = work[p][u].to
      BY <1>1, <1>12, <2>2, ProceedsWrites DEF Check, Pieces
    <3>2. u \notin overlapped => work[p][u].to = "completed"
      BY <1>5, <1>12 DEF Check, Knows
    <3>3. QED
      BY <1>7, <1>12, <3>1, <3>2 DEF Check, Knows, Settled, At
  <2>3. QED
    BY <2>1, <2>2
<1>13. CASE u = t /\ Abort(p, t)
  <2>1. CASE status[t] \in AbortedStatuses
    <3>1. work'[p][u].at = "acknowledge"
      BY <1>1, <1>13, <2>1, ProceedsWrites DEF Abort, Pieces
    <3>2. Settled(u)'
      BY <1>13, <2>1 DEF Abort, Settled, AbortedStatuses, TerminalStatuses
    <3>3. QED
      BY <1>7, <1>13, <3>1, <3>2 DEF Abort, Knows, At
  <2>2. CASE status[t] \notin AbortedStatuses
    <3>1. work'[p][u].at = "none"
      BY <1>1, <1>13, <2>2, EndsWrites DEF Abort
    <3>2. QED
      BY <1>7, <1>13, <3>1 DEF Abort, Knows, Settled, At
  <2>3. QED
    BY <2>1, <2>2
<1>14. CASE u = t /\ Acknowledge(p, t)
  <2>1. work'[p][u].at = "none" /\ message'[u] = "acked" /\ UNCHANGED status
    BY <1>1, <1>14, EndsWrites DEF Acknowledge
  <2>2. message[u] # "none"
    BY <1>2, <1>14 DEF Sound, EnqueuedOnce, At
  <2>3. EnqueuedOnce(u)'
    BY <1>2, <1>4, <2>1, <2>2 DEF Sound, EnqueuedOnce, At
  <2>4. ASSUME u \notin overlapped, NEW q \in Replicas
        PROVE  work'[q][u].at = "none"
    BY <1>2, <1>3, <1>14, <2>1, <2>4 DEF Sound, WorkedOnOnce, Elsewhere, At
  <2>5. u \notin overlapped => Settled(u)'
    BY <1>5, <1>14, <2>1 DEF Acknowledge, Knows, Settled
  <2>6. QED
    BY <1>2, <2>3, <2>4, <2>5 DEF Sound, WorkedOnOnce, Knows, At
<1>15. QED
  BY <1>6, <1>8, <1>9, <1>10, <1>11, <1>12, <1>13, <1>14 DEF Coroutine

(* A poll delivers what nobody works on, or what is overlapped from then.  *)
LEMMA SoundPoll ==
  ASSUME TypeInv, NEW p \in Replicas, Poll(p), NEW u \in Tasks, Sound(u)
  PROVE  Sound(u)'
<1>1. PICK delivered \in SUBSET Tasks :
           /\ \A v \in delivered : message[v] \in {"stale", "added"}
           /\ \A v \in Tasks : message'[v] =
                IF v \in delivered THEN "pending" ELSE message[v]
           /\ \A q \in Replicas, v \in Tasks :
                \/ work'[q][v] = work[q][v]
                \/ q = p /\ v \in delivered /\ At(p, v, "none") /\ work'[p][v].at = "started"
           /\ overlapped' = overlapped \cup
                {v \in delivered \ Active(p) :
                   \E q \in Replicas \ {p} : ~At(q, v, "none")}
           /\ UNCHANGED <<status, request, ids, crashes>>
  BY PollWrites
<1>2. \A q \in Replicas : Enqueues(q, u)' <=> Enqueues(q, u)
  BY <1>1 DEF Enqueues
<1>3. CASE u \notin delivered
  <2>1. /\ message'[u] = message[u] /\ u \in overlapped' <=> u \in overlapped
        /\ \A q \in Replicas : work'[q][u] = work[q][u]
    BY <1>1, <1>3
  <2>2. QED
    BY <1>1, <1>2, <2>1 DEF Sound, EnqueuedOnce, WorkedOnOnce, Knows, Settled, At
<1>4. CASE u \in delivered
  <2>1. message[u] \in {"stale", "added"} /\ message'[u] = "pending"
    BY <1>1, <1>4
  <2>2. EnqueuedOnce(u)'
    BY <1>1, <1>2, <2>1 DEF Sound, EnqueuedOnce
  <2>3. ASSUME u \notin overlapped'
        PROVE  WorkedOnOnce(u)' /\ \A q \in Replicas : Knows(q, u)'
    <3>1. u \notin overlapped
      BY <1>1, <2>3
    <3>2. u \in Active(p) \/ \A q \in Replicas \ {p} : work[q][u].at = "none"
      BY <1>1, <1>4, <2>3 DEF At
    <3>3. ASSUME NEW q \in Replicas
          PROVE  Knows(q, u)'
      BY <1>1, <3>1 DEF Sound, Knows, Settled, At
    <3>4. ASSUME NEW q \in Replicas, NEW s \in Replicas,
                 work'[q][u].at # "none", work'[s][u].at # "none"
          PROVE  q = s
      <4>1. CASE work'[p][u] = work[p][u]
        BY <1>1, <3>1, <3>4, <4>1 DEF Sound, WorkedOnOnce, At
      <4>2. CASE work'[p][u] # work[p][u]
        BY <1>1, <3>2, <3>4, <4>2 DEF Active, At
      <4>3. QED
        BY <4>1, <4>2
    <3>5. QED
      BY <2>1, <3>3, <3>4 DEF WorkedOnOnce, At
  <2>4. QED
    BY <2>1, <2>2, <2>3 DEF Sound
<1>5. QED
  BY <1>3, <1>4

(* Every step keeps it.                                                    *)
LEMMA SettledNext ==
  ASSUME TypeInv, SettledInv, [Next]_vars
  PROVE  SettledInv'
<1> SUFFICES ASSUME NEW u \in Tasks
             PROVE  Sound(u)'
  BY DEF SettledInv, Tasks
<1> USE DEF store, counters
<1>1. Sound(u) /\ (u \notin overlapped => \A q \in Replicas : Knows(q, u))
  BY DEF SettledInv, Sound
<1>2. ASSUME NEW p \in Replicas, User(p) \/ Route(p)
      PROVE  Sound(u)'
  BY <1>1, <1>2, SoundRoutes
<1>3. ASSUME NEW p \in Replicas, Poll(p)
      PROVE  Sound(u)'
  BY <1>1, <1>3, SoundPoll
<1>4. ASSUME NEW p \in Replicas, Crash(p)
      PROVE  Sound(u)'
  <2>1. ASSUME NEW q \in Replicas
        PROVE  work'[q][u] = work[q][u] \/ work'[q][u].at = "none"
    BY <1>4 DEF Crash, NoWork, TypeInv, Types
  <2>2. ASSUME NEW q \in Replicas
        PROVE  Enqueues(q, u)' => Enqueues(q, u)
    BY <1>4 DEF Crash, Respond, NoRequest, Enqueues, TypeInv, Types
  <2>3. QED
    BY <1>1, <1>4, <2>1, <2>2, SoundKept DEF Crash, Knows, Settled, At
<1>5. ASSUME NEW p \in Replicas, NEW t \in Tasks, Coroutine(p, t)
      PROVE  Sound(u)'
  BY <1>1, <1>5, SoundCoroutine
<1>6. ASSUME NEW p \in Replicas, NEW t \in Tasks, RedisError(p, t)
      PROVE  Sound(u)'
  <2>1. ASSUME NEW q \in Replicas
        PROVE  work'[q][u] = work[q][u] \/ work'[q][u].at = "none"
    BY <1>6, EndsWrites DEF RedisError, TypeInv, Elsewhere
  <2>2. \A q \in Replicas : Enqueues(q, u)' => Enqueues(q, u)
    BY <1>6 DEF RedisError, Enqueues
  <2>3. QED
    BY <1>1, <1>6, <2>1, <2>2, SoundKept DEF RedisError, Knows, Settled, At
<1>7. ASSUME NEW t \in Tasks, TurnsStale(t)
      PROVE  Sound(u)'
  <2>1. \/ message'[u] = message[u]
        \/ message[u] = "pending" /\ message'[u] = "stale"
    BY <1>7 DEF TurnsStale, TypeInv, Types
  <2>2. \A q \in Replicas : Enqueues(q, u)' => Enqueues(q, u)
    BY <1>7 DEF TurnsStale, Enqueues
  <2>3. QED
    BY <1>1, <1>7, <2>1, <2>2, SoundKept DEF TurnsStale, Knows, Settled, At
<1>8. CASE UNCHANGED vars
  BY <1>1, <1>8, SoundKept DEF vars, Enqueues, Knows, Settled, At
<1>9. QED
  BY <1>2, <1>3, <1>4, <1>5, <1>6, <1>7, <1>8 DEF Next

(* It holds at the start, when there are no tasks.                         *)
LEMMA SettledInit ==
  ASSUME Init
  PROVE  SettledInv
BY DEF Init, SettledInv, Sound, EnqueuedOnce, WorkedOnOnce, Knows, Enqueues, At,
   NoWork, NoRequest

(* No task is lost: unless two replicas worked on it at the same time, an  *)
(* acknowledged message belongs to a task that settled, wherever between   *)
(* two Redis commands a crash, a cancellation or an error comes.           *)
THEOREM TasksSurvive == Spec => []AckedIsSettled
<1>1. SettledInv => AckedIsSettled
  BY DEF SettledInv, Sound, AckedIsSettled
<1>2. QED
  BY <1>1, SettledInit, SettledNext, TypeAlways, PTL DEF Spec
=============================================================================
