------------------------- MODULE AgentTasks_proofs -------------------------
(***************************************************************************)
(* Theorems about AgentTasks, for any number of tasks, any concurrency and *)
(* any number of faults.                                                   *)
(***************************************************************************)
EXTENDS AgentTasks, TLAPS, FiniteSetTheorems

(* Ids past `enqueued' are untouched; a retry counts less than its own id, *)
(* which keeps the counter in its type.                                    *)
Bookkeeping ==
  /\ \A t \in Tasks \ Known : message[t] = "none" /\ coroutine[t] = "none"
  /\ \A t \in Known : message[t] # "none" /\ retries[t] < t

TypeInv == TypeOK /\ Bookkeeping

(* The enqueued tasks are among the possible ones.                         *)
LEMMA KnownTasks == TypeInv => Known \subseteq Tasks
BY TasksAssumption DEF TypeInv, TypeOK, Known, Tasks

(* The routes keep TypeInv.                                                *)
LEMMA TypeRoutes ==
  ASSUME TypeInv, Routes
  PROVE  TypeInv'
<1> USE TasksAssumption DEF TypeInv, TypeOK, Bookkeeping, Tasks, Known,
      MessageStates, CoroutineStates, AgentTaskStatus
<1>1. CASE StartPlanTask
  BY <1>1 DEF StartPlanTask, Enqueue
<1>2. ASSUME NEW t \in Tasks, CancelTask(t)
      PROVE  TypeInv'
  BY <1>2 DEF CancelTask, Mark, Done, store
<1>3. ASSUME NEW t \in Tasks, RetryTask(t)
      PROVE  TypeInv'
  BY <1>3 DEF RetryTask, Enqueue
<1>4. QED
  BY <1>1, <1>2, <1>3 DEF Routes

(* The pieces of a coroutine keep it.                                      *)
LEMMA TypeCoroutine ==
  ASSUME TypeInv, NEW t \in Tasks, Coroutine(t)
  PROVE  TypeInv'
<1> USE TasksAssumption DEF TypeInv, TypeOK, Bookkeeping, Tasks, Known,
      MessageStates, CoroutineStates, AgentTaskStatus, Goes, Done, Mark, store
<1>1. CASE Begin(t)
  BY <1>1 DEF Begin
<1>2. CASE CancelledEarly(t)
  BY <1>2 DEF CancelledEarly
<1>3. CASE PlanDone(t)
  BY <1>3 DEF PlanDone
<1>4. CASE PlanBlocked(t)
  BY <1>4 DEF PlanBlocked
<1>5. CASE PlanFailed(t)
  BY <1>5 DEF PlanFailed
<1>6. CASE PlanCancelled(t)
  BY <1>6 DEF PlanCancelled
<1>7. CASE Abort(t)
  BY <1>7 DEF Abort
<1>8. CASE Acknowledge(t)
  BY <1>8 DEF Acknowledge
<1>9. QED
  BY <1>1, <1>2, <1>3, <1>4, <1>5, <1>6, <1>7, <1>8 DEF Coroutine

(* Every step keeps it.                                                    *)
LEMMA TypeNext ==
  ASSUME TypeInv, [Next]_vars
  PROVE  TypeInv'
<1> USE TasksAssumption DEF TypeInv, TypeOK, Bookkeeping, Tasks, Known,
      MessageStates, CoroutineStates, store
<1>1. CASE Routes
  BY <1>1, TypeRoutes
<1>2. CASE Poll
  <2> DEFINE Claimed == Stale \cup Reserved
  <2>1. Claimed \subseteq Known
    BY DEF Stale, Reserved, Pending
  <2>2. message' = [t \in Tasks |-> IF t \in Claimed THEN "reserved"
                                     ELSE message[t]]
    BY <1>2 DEF Poll
  <2>4. \A t \in Tasks \ Known : coroutine'[t] = coroutine[t]
    BY <1>2, <2>1 DEF Poll, StartMessages
  <2>5. coroutine' \in [Tasks -> CoroutineStates]
    BY <1>2 DEF Poll, StartMessages
  <2> HIDE DEF Claimed
  <2>6. QED
    BY <1>2, <2>1, <2>2, <2>4, <2>5 DEF Poll
<1>3. CASE Crash
  BY <1>3 DEF Crash
<1>4. CASE Stop
  BY <1>4 DEF Stop
<1>5. CASE Stopped
  BY <1>5 DEF Stopped
<1>6. CASE Restart
  BY <1>6 DEF Restart
<1>7. ASSUME NEW t \in Tasks, GoesStale(t)
      PROVE  TypeInv'
  BY <1>7 DEF GoesStale
<1>8. ASSUME NEW t \in Tasks, Coroutine(t)
      PROVE  TypeInv'
  BY <1>8, TypeCoroutine
<1>9. ASSUME NEW t \in Tasks, StorageError(t)
      PROVE  TypeInv'
  BY <1>9 DEF StorageError, Done
<1>10. CASE UNCHANGED vars
  BY <1>10 DEF vars
<1>11. QED
  BY <1>1, <1>2, <1>3, <1>4, <1>5, <1>6, <1>7, <1>8, <1>9, <1>10 DEF Next

(* It holds at the start.                                                  *)
LEMMA TypeInit ==
  ASSUME Init
  PROVE  TypeInv
BY TasksAssumption DEF Init, TypeInv, TypeOK, Bookkeeping, Tasks, Known,
   MessageStates, CoroutineStates, AgentTaskStatus

(* Hence it is an invariant.                                               *)
LEMMA TypeAlways == Spec => []TypeInv
<1>1. QED
  BY TypeInit, TypeNext, PTL DEF Spec

(* Type correctness: the statuses, messages and coroutines stay in their   *)
(* types whatever the tasks, the bound on concurrency and the faults.      *)
THEOREM TypeCorrect == Spec => []TypeOK
<1>1. TypeInv => TypeOK
  BY DEF TypeInv
<1>2. QED
  BY <1>1, TypeAlways, PTL

-----------------------------------------------------------------------------
(* Who owns a message.  A coroutine acknowledges settled tasks only; a     *)
(* task stopped while its plan executes has a cancellation coming; nobody  *)
(* is active in a process that is down, so that a restart gives back no    *)
(* message a coroutine still holds.                                        *)
Owned(t) ==
  /\ coroutine[t] = "executing" => status[t] \in {"running", "stopped"}
  /\ coroutine[t] # "none" => message[t] \in {"reserved", "stale"}
  /\ message[t] = "acked" => status[t] \in Settled
  /\ status[t] \notin {"succeeded", "cancelled"}
  /\ coroutine[t] = "acking" => status[t] \in Settled
  /\ coroutine[t] = "executing" /\ status[t] = "stopped" => t \in cancelled
  /\ process = "down" => coroutine[t] = "none"

OwnInv == \A t \in Known : Owned(t)

(* The routes keep it: a task is stopped together with its cancellation.   *)
LEMMA OwnRoutes ==
  ASSUME TypeInv, OwnInv, Routes
  PROVE  OwnInv'
<1> SUFFICES ASSUME NEW u \in Known'
             PROVE  Owned(u)'
  BY DEF OwnInv
<1>1. u \in Known => Owned(u)
  BY DEF OwnInv
<1> USE TasksAssumption DEF TypeInv, TypeOK, Bookkeeping, Tasks, Known,
      Owned, Settled
<1>2. CASE StartPlanTask
  BY <1>1, <1>2 DEF StartPlanTask, Enqueue
<1>3. ASSUME NEW t \in Tasks, CancelTask(t)
      PROVE  Owned(u)'
  <2>1. CASE status[t] \in TerminalStatuses
    BY <1>1, <1>3, <2>1, SMTT(30) DEF CancelTask, Done, store, TerminalStatuses
  <2>2. CASE status[t] \notin TerminalStatuses
    BY <1>1, <1>3, <2>2, SMTT(30) DEF CancelTask, Done, Mark, TerminalStatuses
  <2>3. QED
    BY <2>1, <2>2
<1>4. ASSUME NEW t \in Tasks, RetryTask(t)
      PROVE  Owned(u)'
  BY <1>1, <1>4 DEF RetryTask, Enqueue
<1>5. QED
  BY <1>2, <1>3, <1>4 DEF Routes

(* The pieces of a coroutine keep it.                                      *)
LEMMA OwnCoroutine ==
  ASSUME TypeInv, OwnInv, NEW t \in Tasks, Coroutine(t)
  PROVE  OwnInv'
<1> SUFFICES ASSUME NEW u \in Known'
             PROVE  Owned(u)'
  BY DEF OwnInv
<1>1. Known' = Known
  BY DEF Coroutine, Begin, CancelledEarly, PlanDone, PlanBlocked, PlanFailed,
     PlanCancelled, Abort, Acknowledge, Mark, store, Known
<1>2. t \in Known
  BY DEF Coroutine, Begin, CancelledEarly, PlanDone, PlanBlocked, PlanFailed,
     PlanCancelled, Abort, Acknowledge
<1>3. u \in Tasks /\ Owned(u) /\ Owned(t)
  BY <1>1, <1>2, KnownTasks DEF OwnInv
<1>4. /\ status \in [Tasks -> AgentTaskStatus]
      /\ coroutine \in [Tasks -> CoroutineStates]
      /\ message \in [Tasks -> MessageStates]
  BY DEF TypeInv, TypeOK
<1> USE <1>3, <1>4 DEF Owned, Settled, Goes, Done, Mark, store,
      AbortedStatuses
<1>5. CASE Begin(t)
  BY <1>5 DEF Begin
<1>6. CASE CancelledEarly(t)
  BY <1>6 DEF CancelledEarly
<1>7. CASE PlanDone(t)
  BY <1>7 DEF PlanDone
<1>8. CASE PlanBlocked(t)
  BY <1>8 DEF PlanBlocked
<1>9. CASE PlanFailed(t)
  BY <1>9 DEF PlanFailed
<1>10. CASE PlanCancelled(t)
  BY <1>10 DEF PlanCancelled
<1>11. CASE Abort(t)
  BY <1>11 DEF Abort
<1>12. CASE Acknowledge(t)
  BY <1>12 DEF Acknowledge
<1>13. QED
  BY <1>5, <1>6, <1>7, <1>8, <1>9, <1>10, <1>11, <1>12 DEF Coroutine

(* Every step keeps it.                                                    *)
LEMMA OwnNext ==
  ASSUME TypeInv, OwnInv, [Next]_vars
  PROVE  OwnInv'
<1>1. CASE Routes
  BY <1>1, OwnRoutes
<1>2. ASSUME NEW t \in Tasks, Coroutine(t)
      PROVE  OwnInv'
  BY <1>2, OwnCoroutine
<1> DEFINE Other == \/ Poll \/ Crash \/ Stop \/ Stopped \/ Restart
                    \/ \E t \in Tasks : GoesStale(t) \/ StorageError(t)
                    \/ UNCHANGED vars
<1>3. ASSUME Other, NEW u \in Known'
      PROVE  Owned(u)'
  <2>1. u \in Known /\ UNCHANGED <<enqueued, status>>
    BY <1>3 DEF Poll, Crash, Stop, Stopped, Restart, GoesStale, StorageError,
       store, vars, Known
  <2>2. Owned(u) /\ u \in Tasks
    BY <2>1, KnownTasks DEF OwnInv
  <2> USE <2>1, <2>2 DEF TypeInv, TypeOK, Owned
  <2>3. CASE Poll
    <3> DEFINE Claimed == Stale \cup Reserved
    <3>1. u \in Claimed => message[u] \in {"pending", "stale"}
      BY DEF Stale, Reserved, Pending
    <3>2. message'[u] = IF u \in Claimed THEN "reserved" ELSE message[u]
      BY <2>3 DEF Poll
    <3>3. \/ coroutine'[u] = coroutine[u]
          \/ u \in Claimed /\ coroutine'[u] = "started"
      BY <2>3 DEF Poll, StartMessages
    <3>4. process' # "down" /\ UNCHANGED cancelled
      BY <2>3 DEF Poll
    <3> HIDE DEF Claimed
    <3>5. QED
      BY <3>1, <3>2, <3>3, <3>4
  <2>4. CASE Crash
    BY <2>4 DEF Crash, store
  <2>5. CASE Stop
    BY <2>5 DEF Stop, store
  <2>6. CASE Stopped
    BY <2>6 DEF Stopped, Active, store
  <2>7. CASE Restart
    BY <2>7 DEF Restart
  <2>8. ASSUME NEW t \in Tasks, GoesStale(t)
        PROVE  Owned(u)'
    BY <2>8 DEF GoesStale
  <2>9. ASSUME NEW t \in Tasks, StorageError(t)
        PROVE  Owned(u)'
    BY <2>9 DEF StorageError, Done
  <2>10. CASE UNCHANGED vars
    BY <2>10 DEF vars
  <2>11. QED
    BY <1>3, <2>3, <2>4, <2>5, <2>6, <2>7, <2>8, <2>9, <2>10
<1>4. Other => OwnInv'
  BY <1>3 DEF OwnInv
<1>5. QED
  BY <1>1, <1>2, <1>4 DEF Next

(* It holds at the start, when there are no tasks.                         *)
LEMMA OwnInit ==
  ASSUME Init
  PROVE  OwnInv
BY DEF Init, OwnInv, Known

(* Hence it is an invariant.                                               *)
LEMMA OwnAlways == Spec => []OwnInv
<1>1. QED
  BY OwnInit, OwnNext, TypeAlways, PTL DEF Spec

(* No task is lost: whatever the crashes, shutdowns, storage errors and    *)
(* cancellations, an acknowledged message belongs to a task that settled.  *)
THEOREM TasksSurvive == Spec => []NoTaskLost
<1>1. OwnInv => NoTaskLost
  BY DEF OwnInv, Owned, NoTaskLost
<1>2. QED
  BY <1>1, OwnAlways, PTL

(* A coroutine owns the message it works on until it acknowledges it.      *)
THEOREM CoroutinesOwn == Spec => []ExecutionOwned
<1>1. OwnInv => ExecutionOwned
  BY DEF OwnInv, Owned, ExecutionOwned
<1>2. QED
  BY <1>1, OwnAlways, PTL
-----------------------------------------------------------------------------
(* What one step leaves of the abort of a task, as AbortTakesHold says it. *)
Holds(u) ==
  \/ status'[u] = "stopped"
  \/ status'[u] = "failed" /\ coroutine[u] = "executing" /\ u \in cancelled

(* One step of a stopped task.  If its execution fails, OwnInv says that   *)
(* the abort has reached it.                                               *)
LEMMA AbortedStep ==
  ASSUME TypeInv, OwnInv, [Next]_vars,
         NEW u \in Known, status[u] = "stopped"
  PROVE  Holds(u)
<1>1. u \in Tasks /\ Owned(u) /\ status \in [Tasks -> AgentTaskStatus]
  BY KnownTasks DEF OwnInv, TypeInv, TypeOK
<1>2. u # enqueued + 1
  BY DEF TypeInv, TypeOK, Known
<1> USE <1>1, <1>2 DEF Mark, store, Holds
<1>3. CASE Routes
  BY <1>3 DEF Routes, StartPlanTask, CancelTask, RetryTask, Enqueue
<1>4. ASSUME NEW t \in Tasks, Coroutine(t)
      PROVE  Holds(u)
  <2>1. CASE Begin(t)
    BY <2>1 DEF Begin, AbortedStatuses
  <2>2. CASE PlanDone(t)
    BY <2>2 DEF PlanDone, AbortedStatuses
  <2>3. CASE PlanBlocked(t)
    BY <2>3 DEF PlanBlocked, Owned
  <2>4. CASE PlanFailed(t)
    BY <2>4 DEF PlanFailed, Owned
  <2>5. CASE CancelledEarly(t) \/ PlanCancelled(t) \/ Abort(t) \/ Acknowledge(t)
    BY <2>5 DEF CancelledEarly, PlanCancelled, Abort, Acknowledge
  <2>6. QED
    BY <1>4, <2>1, <2>2, <2>3, <2>4, <2>5 DEF Coroutine
<1>5. CASE \/ Poll \/ Crash \/ Stop \/ Stopped \/ Restart
           \/ \E t \in Tasks : GoesStale(t) \/ StorageError(t)
           \/ UNCHANGED vars
  BY <1>5 DEF Poll, Crash, Stop, Stopped, Restart, GoesStale, StorageError, vars
<1>6. QED
  BY <1>3, <1>4, <1>5 DEF Next

(* While a task is stopped nothing but the failing clean-up of the         *)
(* execution its abort has reached overwrites the abort, for any number of *)
(* tasks and faults.                                                       *)
THEOREM AbortsHold == Spec => AbortTakesHold
<1>1. TypeInv /\ OwnInv /\ [Next]_vars
        => [\A t \in Known : status[t] = "stopped" =>
              \/ status'[t] = "stopped"
              \/ status'[t] = "failed" /\ coroutine[t] = "executing" /\ t \in cancelled]_vars
  BY AbortedStep DEF Holds
<1>2. QED
  BY <1>1, TypeAlways, OwnAlways, PTL DEF Spec, AbortTakesHold

(* One step of an active task.                                             *)
LEMMA StartStep ==
  ASSUME TypeInv, [Next]_vars, NEW u \in Known,
         coroutine[u] # "none", coroutine'[u] = "started"
  PROVE  coroutine[u] = "started"
<1>1. u \in Tasks /\ coroutine \in [Tasks -> CoroutineStates]
  BY KnownTasks DEF TypeInv, TypeOK
<1> USE <1>1 DEF Goes, Done
<1>2. CASE Routes
  BY <1>2 DEF Routes, StartPlanTask, CancelTask, RetryTask
<1>3. ASSUME NEW t \in Tasks, Coroutine(t)
      PROVE  coroutine[u] = "started"
  BY <1>3 DEF Coroutine, Begin, CancelledEarly, PlanDone, PlanBlocked,
     PlanFailed, PlanCancelled, Abort, Acknowledge
<1>4. CASE Poll
  BY <1>4 DEF Poll, StartMessages, Active
<1>5. CASE Crash \/ Stop \/ Stopped \/ Restart
  BY <1>5 DEF Crash, Stop, Stopped, Restart
<1>6. ASSUME NEW t \in Tasks, GoesStale(t) \/ StorageError(t)
      PROVE  coroutine[u] = "started"
  BY <1>6 DEF GoesStale, StorageError
<1>7. CASE UNCHANGED vars
  BY <1>7 DEF vars
<1>8. QED
  BY <1>2, <1>3, <1>4, <1>5, <1>6, <1>7 DEF Next

(* A redelivered message starts no second execution of an active task.     *)
THEOREM StartsOnce == Spec => NoDoubleStart
<1>1. TypeInv /\ [Next]_vars
        => [\A t \in Known : coroutine[t] # "none" /\ coroutine'[t] = "started"
                               => coroutine[t] = "started"]_vars
  BY StartStep
<1>2. QED
  BY <1>1, TypeAlways, PTL DEF Spec, NoDoubleStart

-----------------------------------------------------------------------------
(* One step of the retry chains: only enqueueing writes them.              *)
LEMMA LineageNext ==
  ASSUME TypeInv, RetryLineage, [Next]_vars
  PROVE  RetryLineage'
<1> DEFINE Unchanged == UNCHANGED <<enqueued, parent, retries>>
<1> USE TasksAssumption DEF TypeInv, TypeOK, Bookkeeping, Known, Tasks
<1>1. CASE Unchanged
  BY <1>1 DEF RetryLineage
<1>2. ASSUME NEW from \in {0} \cup Known, NEW count \in Nat,
             from # 0 => count = retries[from] + 1, Enqueue(from, count)
      PROVE  RetryLineage'
  BY <1>2, SMTT(30) DEF RetryLineage, Enqueue
<1>3. CASE Routes
  <2>1. CASE StartPlanTask
    BY <1>2, <2>1 DEF StartPlanTask
  <2>2. ASSUME NEW t \in Tasks, CancelTask(t)
        PROVE  Unchanged
    BY <2>2 DEF CancelTask, Mark, store
  <2>3. ASSUME NEW t \in Tasks, RetryTask(t)
        PROVE  RetryLineage'
    BY <1>2, <2>3 DEF RetryTask
  <2>4. QED
    BY <1>1, <1>3, <2>1, <2>2, <2>3 DEF Routes
<1>4. ASSUME NEW t \in Tasks, Coroutine(t)
      PROVE  Unchanged
  BY <1>4 DEF Coroutine, Begin, CancelledEarly, PlanDone, PlanBlocked,
     PlanFailed, PlanCancelled, Abort, Acknowledge, Mark, store
<1>5. CASE \/ Poll \/ Crash \/ Stop \/ Stopped \/ Restart
           \/ \E t \in Tasks : GoesStale(t) \/ StorageError(t)
           \/ UNCHANGED vars
  BY <1>1, <1>5 DEF Poll, Crash, Stop, Stopped, Restart, GoesStale,
     StorageError, vars, store
<1>6. QED
  BY <1>1, <1>3, <1>4, <1>5 DEF Next

(* Retries form chains that lead to older tasks and count their length.    *)
THEOREM RetriesChain == Spec => []RetryLineage
<1>1. Init => RetryLineage
  BY DEF Init, RetryLineage, Known
<1>2. QED
  BY <1>1, LineageNext, TypeAlways, PTL DEF Spec
-----------------------------------------------------------------------------
(* Only Begin lets a coroutine into the semaphore.                         *)
LEMMA SemaphoreStep ==
  ASSUME TypeInv, [Next]_vars, NEW u \in InSemaphore'
  PROVE  u \in InSemaphore \/ Begin(u)
<1> DEFINE In == {"executing", "aborting", "acking"}
<1>1. u \in Known' /\ coroutine'[u] \in In
  BY DEF InSemaphore
<1>2. u \in Tasks /\ coroutine \in [Tasks -> CoroutineStates]
  <2>1. Known' \subseteq Tasks
    BY TypeNext, TasksAssumption DEF TypeInv, TypeOK, Known, Tasks
  <2>2. QED
    BY <1>1, <2>1 DEF TypeInv, TypeOK
<1>3. coroutine[u] \in In => u \in InSemaphore
  <2>1. u \notin Known => coroutine[u] = "none"
    BY <1>2 DEF TypeInv, Bookkeeping
  <2>2. QED
    BY <2>1 DEF InSemaphore
<1> SUFFICES ASSUME ~Begin(u)
             PROVE  coroutine[u] \in In
  BY <1>3
<1> USE <1>1, <1>2 DEF Goes, Done
<1>4. CASE Routes
  <2>1. ASSUME NEW t \in Tasks, CancelTask(t)
        PROVE  coroutine[u] \in In
    BY <2>1 DEF CancelTask
  <2>2. QED
    BY <1>4, <2>1 DEF Routes, StartPlanTask, RetryTask
<1>5. ASSUME NEW t \in Tasks, Coroutine(t)
      PROVE  coroutine[u] \in In
  <2>1. CASE Begin(t)
    BY <2>1 DEF Begin
  <2>2. CASE PlanDone(t) \/ PlanBlocked(t) \/ PlanFailed(t) \/ PlanCancelled(t)
    BY <2>2 DEF PlanDone, PlanBlocked, PlanFailed, PlanCancelled
  <2>3. CASE CancelledEarly(t) \/ Abort(t) \/ Acknowledge(t)
    BY <2>3 DEF CancelledEarly, Abort, Acknowledge
  <2>4. QED
    BY <1>5, <2>1, <2>2, <2>3 DEF Coroutine
<1>6. CASE Poll
  BY <1>6 DEF Poll, StartMessages, store, Known
<1>7. CASE Crash \/ Stop \/ Stopped \/ Restart
  BY <1>7 DEF Crash, Stop, Stopped, Restart, store, Known
<1>8. ASSUME NEW t \in Tasks, GoesStale(t) \/ StorageError(t)
      PROVE  coroutine[u] \in In
  BY <1>8 DEF GoesStale, StorageError
<1>9. CASE UNCHANGED vars
  BY <1>9 DEF vars
<1>10. QED
  BY <1>4, <1>5, <1>6, <1>7, <1>8, <1>9 DEF Next

(* The bound holds after every step: Begin is the only one that adds, one  *)
(* at a time and with room left.                                           *)
LEMMA BoundedNext ==
  ASSUME TypeInv, ConcurrencyBounded, [Next]_vars
  PROVE  ConcurrencyBounded'
<1>1. IsFiniteSet(InSemaphore) /\ Cardinality(InSemaphore) \in Nat
  <2>1. IsFiniteSet(Known)
    BY FS_Interval DEF TypeInv, TypeOK, Known
  <2>2. QED
    BY <2>1, FS_Subset, FS_CardinalityType DEF InSemaphore
<1>2. CASE \E t \in Tasks : Begin(t)
  <2>1. PICK t \in Tasks : Begin(t)
    BY <1>2
  <2>2. InSemaphore' \subseteq InSemaphore \cup {t}
    <3>1. \A u \in Known \ {t} : coroutine'[u] = coroutine[u]
      BY <2>1, KnownTasks DEF Begin, Goes, TypeInv, TypeOK
    <3>2. Known' = Known
      BY <2>1 DEF Begin, Mark, store, Known
    <3>3. QED
      BY <3>1, <3>2 DEF InSemaphore
  <2>3. /\ IsFiniteSet(InSemaphore \cup {t})
        /\ Cardinality(InSemaphore \cup {t}) = Cardinality(InSemaphore) + 1
    <3>1. t \notin InSemaphore
      BY <2>1 DEF Begin, InSemaphore
    <3>2. QED
      BY <1>1, <3>1, FS_AddElement
  <2>4. /\ Cardinality(InSemaphore') <= Cardinality(InSemaphore \cup {t})
        /\ Cardinality(InSemaphore') \in Nat
    BY <1>1, <2>2, <2>3, FS_Subset, FS_CardinalityType
  <2>5. Cardinality(InSemaphore) < MaxConcurrency
    BY <2>1 DEF Begin
  <2>6. QED
    BY <1>1, <2>3, <2>4, <2>5, TasksAssumption DEF ConcurrencyBounded
<1>3. CASE ~\E t \in Tasks : Begin(t)
  <2>1. InSemaphore' \subseteq InSemaphore
    BY <1>3, SemaphoreStep, KnownTasks DEF Begin
  <2>2. /\ Cardinality(InSemaphore') <= Cardinality(InSemaphore)
        /\ Cardinality(InSemaphore') \in Nat
    BY <1>1, <2>1, FS_Subset, FS_CardinalityType
  <2>3. QED
    BY <1>1, <2>2, TasksAssumption DEF ConcurrencyBounded
<1>4. QED
  BY <1>2, <1>3

(* The semaphore bounds the executions, the clean-ups and the pending      *)
(* acknowledgements together.                                              *)
THEOREM ExecutionsBounded == Spec => []ConcurrencyBounded
<1>1. Init => ConcurrencyBounded
  <2>1. Init => InSemaphore = {}
    BY DEF Init, InSemaphore, Known
  <2>2. QED
    BY <2>1, FS_EmptySet, TasksAssumption DEF ConcurrencyBounded
<1>2. QED
  BY <1>1, BoundedNext, TypeAlways, PTL DEF Spec
-----------------------------------------------------------------------------
(* Every step is one of the abstract queue, or nothing it knows of.        *)
LEMMA QueueStep ==
  ASSUME TypeInv, OwnInv, [Next]_vars
  PROVE  Queue!Next \/ UNCHANGED Queue!vars
<1>1. /\ Queue!Known = Known /\ Queue!Tasks = Tasks /\ Known \in SUBSET Tasks
      /\ DOMAIN message = Tasks /\ enqueued \in Nat
  BY KnownTasks DEF Queue!Known, Queue!Tasks, Known, Tasks, TypeInv, TypeOK
<1>2. \A t \in Known : Owned(t)
  BY DEF OwnInv
<1>3. CASE StartPlanTask
  <2>1. Queue!EnqueueExecutePlan
    BY <1>1, <1>3, TasksAssumption
    DEF StartPlanTask, Enqueue, Queue!EnqueueExecutePlan, Queue!Add, Tasks
  <2> QED
    BY <2>1 DEF Queue!Next
<1>4. ASSUME NEW t \in Tasks, CancelTask(t)
      PROVE  Queue!Next \/ UNCHANGED Queue!vars
  <2>1. CASE status[t] \in TerminalStatuses
    BY <1>4, <2>1 DEF CancelTask, store, Queue!vars
  <2>2. CASE status[t] \notin TerminalStatuses
    <3>1. Queue!CancelTask(t) /\ t \in Known
      BY <1>4, <2>2
      DEF CancelTask, Mark, Queue!CancelTask, Queue!Becomes, TerminalStatuses, Queue!TerminalStatuses
    <3> QED
      BY <1>1, <3>1 DEF Queue!Next
  <2> QED
    BY <2>1, <2>2
<1>5. ASSUME NEW t \in Tasks, RetryTask(t)
      PROVE  Queue!Next
  <2>1. Queue!RetryTask(t) /\ t \in Known
    BY <1>1, <1>5, TasksAssumption
    DEF RetryTask, Enqueue, Queue!RetryTask, Queue!Add, RetryableStatuses,
        Queue!RetryableStatuses, Tasks
  <2> QED
    BY <1>1, <2>1 DEF Queue!Next
<1>6. ASSUME NEW t \in Tasks, Coroutine(t)
      PROVE  Queue!Next \/ UNCHANGED Queue!vars
  <2>1. t \in Known /\ coroutine[t] # "none"
    BY <1>6 DEF Coroutine, Begin, CancelledEarly, PlanDone, PlanBlocked, PlanFailed,
       PlanCancelled, Abort, Acknowledge
  <2>2. message[t] \in {"reserved", "stale"} /\ Owned(t)
    BY <1>2, <2>1 DEF Owned
  <2>3. ASSUME NEW s \in {"running", "waiting", "completed", "failed"},
               Mark(t, s), message' = message, status[t] \in AbortedStatuses => s = "failed"
        PROVE  Queue!Next
    <3>1. Queue!Mark(t, s)
      BY <2>2, <2>3
      DEF Mark, Queue!Mark, Queue!Becomes, Queue!HandedOut, AbortedStatuses, Queue!AbortedStatuses
    <3> QED
      BY <1>1, <2>1, <3>1 DEF Queue!Next
  <2>4. CASE Begin(t)
    BY <2>3, <2>4 DEF Begin, store, Queue!vars
  <2>5. CASE PlanDone(t)
    BY <2>3, <2>5 DEF PlanDone, store, Queue!vars
  <2>6. CASE PlanBlocked(t)
    <3>1. status[t] \notin AbortedStatuses
      BY <2>2, <2>6 DEF PlanBlocked, Owned, AbortedStatuses
    <3> QED
      BY <2>3, <2>6, <3>1 DEF PlanBlocked
  <2>7. CASE PlanFailed(t)
    BY <2>3, <2>7 DEF PlanFailed
  <2>8. CASE CancelledEarly(t) \/ PlanCancelled(t) \/ Abort(t)
    BY <2>8 DEF CancelledEarly, PlanCancelled, Abort, store, Queue!vars
  <2>9. CASE Acknowledge(t)
    <3>1. status[t] \in Settled
      BY <2>2, <2>9 DEF Acknowledge, Owned
    <3>2. message' = [u \in Tasks |-> IF u \in {t} THEN "acked" ELSE message[u]]
      BY <1>1, <2>9 DEF Acknowledge
    <3>3. Queue!Acknowledge(t)
      BY <1>1, <2>2, <2>9, <3>1, <3>2
      DEF Acknowledge, store, Settled, Queue!Acknowledge, Queue!Moves, Queue!HandedOut,
          Queue!TerminalStatuses
    <3> QED
      BY <1>1, <2>1, <3>3 DEF Queue!Next
  <2> QED
    BY <1>6, <2>4, <2>5, <2>6, <2>7, <2>8, <2>9 DEF Coroutine
<1>7. CASE Poll
  <2>1. PICK S \in SUBSET Known : S = Stale \cup Reserved
    BY DEF Stale, Reserved, Pending
  <2>2. \A t \in S : message[t] \in {"pending", "stale"}
    BY <2>1 DEF Stale, Reserved, Pending
  <2>3. message' = [t \in Tasks |-> IF t \in S THEN "reserved" ELSE message[t]]
    BY <1>7, <2>1 DEF Poll
  <2>4. Queue!HandOut(S)
    BY <1>1, <1>7, <2>2, <2>3 DEF Poll, store, Queue!HandOut, Queue!Moves
  <2> QED
    BY <1>1, <2>4 DEF Queue!Next
<1>8. ASSUME NEW t \in Tasks, GoesStale(t)
      PROVE  Queue!Next
  <2>1. message' = [u \in Tasks |-> IF u \in {t} THEN "stale" ELSE message[u]]
    BY <1>1, <1>8 DEF GoesStale
  <2>2. Queue!GoesStale(t) /\ t \in Known
    BY <1>1, <1>8, <2>1 DEF GoesStale, store, Queue!GoesStale, Queue!Moves
  <2> QED
    BY <1>1, <2>2 DEF Queue!Next
<1>9. CASE Restart
  <2>1. PICK S : S = {t \in Known : message[t] \in {"reserved", "stale"}}
    OBVIOUS
  <2>2. \A t \in Tasks : message[t] \in {"reserved", "stale"} <=> t \in S
    BY <1>1, <2>1 DEF TypeInv, Bookkeeping
  <2>3. message' = [t \in Tasks |-> IF t \in S THEN "pending" ELSE message[t]]
    BY <1>9, <2>2 DEF Restart
  <2>4. Queue!Start
    BY <1>1, <1>9, <2>1, <2>3 DEF Restart, store, Queue!Start, Queue!Moves, Queue!HandedOut
  <2> QED
    BY <2>4 DEF Queue!Next
<1>10. CASE \/ Crash \/ Stop \/ Stopped \/ (\E t \in Tasks : StorageError(t))
            \/ UNCHANGED vars
  BY <1>10 DEF Crash, Stop, Stopped, StorageError, vars, store, Queue!vars
<1> QED
  BY <1>3, <1>4, <1>5, <1>6, <1>7, <1>8, <1>9, <1>10 DEF Next, Routes

(* However often the process crashes, is shut down and is started again,   *)
(* however many tasks there are and whatever users ask meanwhile, the      *)
(* local queue with its runner keeps the contract of the port: the tasks   *)
(* and messages move as those of TaskQueue do.                             *)
THEOREM QueueKeepsContract == Spec => QueueContract
<1>1. Init => Queue!Init
  BY DEF Init, Queue!Init, Tasks, Queue!Tasks
<1>2. TypeInv /\ OwnInv /\ [Next]_vars => [Queue!Next]_Queue!vars
  BY QueueStep
<1> QED
  BY <1>1, <1>2, TypeAlways, OwnAlways, PTL DEF Spec, QueueContract, Queue!Spec

\* What the contract alone says of the tasks and their messages.
ContractInv ==
  /\ status \in [Queue!Tasks -> {"queued", "running"} \cup Settled]
  /\ message \in [Queue!Tasks -> MessageStates]
  /\ \A t \in Queue!Tasks : message[t] = "acked" => status[t] \in Settled

(* The contract is enough for what matters most: whatever queue keeps it   *)
(* loses no task, even if it is consumed by somebody else than the runner. *)
THEOREM ContractLosesNothing == QueueContract => []NoTaskLost
<1> DEFINE Inv == ContractInv /\ Known \subseteq Queue!Tasks
<1> USE DEF ContractInv, Settled, MessageStates
<1>1. Queue!Init => Inv
  BY DEF Queue!Init, Known
<1>2. Inv /\ [Queue!Next]_Queue!vars => Inv'
  <2> SUFFICES ASSUME Inv, [Queue!Next]_Queue!vars PROVE Inv'
    OBVIOUS
  <2>1. Queue!Known = Known
    BY DEF Queue!Known, Known
  <2>2. ASSUME NEW n, NEW c, Queue!Add(n, c) PROVE Inv'
    BY <2>2, TasksAssumption DEF Queue!Add, Known, Queue!Tasks
  <2>3. ASSUME NEW t \in Known, NEW s \in Settled \cup {"running"}, Queue!Becomes(t, s),
               message[t] = "acked" => s \in Settled
        PROVE  Inv'
    BY <2>3 DEF Queue!Becomes, Known
  <2>4. ASSUME NEW S, NEW state \in MessageStates, Queue!Moves(S, state),
               \A t \in Queue!Tasks : t \in S /\ state = "acked" => status[t] \in Settled
        PROVE  Inv'
    BY <2>4 DEF Queue!Moves, Known
  <2>5. CASE Queue!EnqueueExecutePlan
    BY <2>2, <2>5 DEF Queue!EnqueueExecutePlan
  <2>6. CASE Queue!Start
    BY <2>4, <2>6 DEF Queue!Start
  <2>7. ASSUME NEW S, Queue!HandOut(S) PROVE Inv'
    BY <2>4, <2>7 DEF Queue!HandOut
  <2>8. ASSUME NEW t \in Known, Queue!RetryTask(t) PROVE Inv'
    BY <2>2, <2>8 DEF Queue!RetryTask
  <2>9. ASSUME NEW t \in Known, Queue!CancelTask(t) PROVE Inv'
    BY <2>3, <2>9 DEF Queue!CancelTask
  <2>10. ASSUME NEW t \in Known, Queue!GoesStale(t) PROVE Inv'
    BY <2>4, <2>10 DEF Queue!GoesStale
  <2>11. ASSUME NEW t \in Known, Queue!Acknowledge(t) PROVE Inv'
    <3>1. status[t] \in Settled
      BY <2>11 DEF Queue!Acknowledge, Queue!TerminalStatuses
    <3> QED
      BY <2>4, <2>11, <3>1 DEF Queue!Acknowledge
  <2>12. ASSUME NEW t \in Known, NEW s \in {"running", "waiting", "completed", "failed"},
                Queue!Mark(t, s)
         PROVE  Inv'
    BY <2>3, <2>12 DEF Queue!Mark, Queue!HandedOut
  <2>13. CASE UNCHANGED Queue!vars
    BY <2>13 DEF Queue!vars, Known
  <2> QED
    BY <2>1, <2>5, <2>6, <2>7, <2>8, <2>9, <2>10, <2>11, <2>12, <2>13 DEF Queue!Next
<1>3. Inv => NoTaskLost
  BY DEF NoTaskLost
<1> QED
  BY <1>1, <1>2, <1>3, PTL DEF QueueContract, Queue!Spec
=============================================================================
