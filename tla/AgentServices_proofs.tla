------------------------ MODULE AgentServices_proofs ------------------------
(***************************************************************************)
(* Proofs about what decides how a run goes on: the todo board, the task   *)
(* of the control plane, the verdicts of the stages, the tool a step calls *)
(* without a model at its side, the remote servers and agents a call is    *)
(* passed to, the loop that carries a step out, and the turn of a          *)
(* conversation, which may need no plan.                                   *)
(***************************************************************************)
EXTENDS AgentServices, ProofLemmas, Sequences

-----------------------------------------------------------------------------
(* TodoBoard.  No transition leaves "done", so a mark that was checked on  *)
(* an older board is dropped when it is replayed.                          *)
LEMMA DoneIsFinal ==
  ASSUME NEW b \in [Todos -> Todo!TodoStatus], NEW t \in Todos, NEW u \in Todos,
         NEW s \in Todo!TodoStatus, b[t] = "done"
  PROVE  Todo!Replay(b, u, s)[t] = "done" /\ Todo!Replay(b, u, s) \in [Todos -> Todo!TodoStatus]
<1>1. Todo!Allowed["done"] = {}
  BY DEF Todo!Allowed
<1> QED
  BY <1>1 DEF Todo!Replay

(* A step of the board keeps its type and what is done.                    *)
LEMMA BoardNext ==
  ASSUME Todo!TypeOK, Todo!Next
  PROVE  /\ Todo!TypeOK'
         /\ \A t \in Todos : board[t] = "done" => \/ board'[t] = "done"
                                                  \/ board' = Todo!AllPending
<1>1. ASSUME NEW deps \in [Todos -> SUBSET Todos], Todo!NewPlan(deps)
      PROVE  Todo!TypeOK' /\ board' = Todo!AllPending
  <2>1. Todo!AllPending \in [Todos -> Todo!TodoStatus]
    BY DEF Todo!AllPending, Todo!TodoStatus
  <2> QED
    BY <1>1, <2>1 DEF Todo!NewPlan, Todo!TypeOK
<1>2. ASSUME NEW c \in Clients, NEW t \in Todos, NEW s \in Todo!TodoStatus, Todo!Read(c, t, s)
      PROVE  Todo!TypeOK' /\ board' = board
  BY <1>2 DEF Todo!Read, Todo!TypeOK
<1>3. ASSUME NEW c \in Clients, Todo!Write(c)
      PROVE  /\ Todo!TypeOK'
             /\ \A t \in Todos : board[t] = "done" => board'[t] = "done"
  <2>1. mark[c].todo \in Todos /\ mark[c].status \in Todo!TodoStatus
    BY <1>3 DEF Todo!Write, Todo!TypeOK
  <2>2. \/ board' = board
        \/ board' = Todo!Replay(board, mark[c].todo, mark[c].status)
    BY <1>3 DEF Todo!Write
  <2>3. board' \in [Todos -> Todo!TodoStatus]
    BY <2>1, <2>2 DEF Todo!TypeOK, Todo!Replay
  <2>4. \A t \in Todos : board[t] = "done" => board'[t] = "done"
    BY <2>1, <2>2, DoneIsFinal DEF Todo!TypeOK
  <2> QED
    BY <1>3, <2>3, <2>4 DEF Todo!Write, Todo!TypeOK
<1> QED
  BY <1>1, <1>2, <1>3 DEF Todo!Next

(* Among the pending todos of a plan without a cycle one depends on none   *)
(* of them.                                                                *)
LEMMA PendingIsRunnable ==
  ASSUME Todo!TypeOK, Todo!HasBoard, \E t \in Todos : board[t] = "pending"
  PROVE  Todo!Runnable # {} \/ \E t \in Todos : board[t] \in {"in_progress", "failed"}
<1> DEFINE S == {t \in Todos : board[t] = "pending"}
<1>1. S \in (SUBSET Todos) \ {{}}
  OBVIOUS
<1>2. PICK t \in S : plan[t] \cap S = {}
  BY <1>1 DEF Todo!HasBoard, Todo!Acyclic
<1>3. plan[t] \subseteq Todos
  BY <1>2 DEF Todo!TypeOK, Todo!HasBoard
<1>4. CASE \A d \in plan[t] : board[d] \in {"done", "skipped"}
  <2>1. t \in Todo!Runnable
    BY <1>2, <1>4 DEF Todo!Runnable
  <2> QED
    BY <2>1
<1>5. ASSUME NEW d \in plan[t], board[d] \notin {"done", "skipped"}
      PROVE  board[d] \in {"in_progress", "failed"} /\ d \in Todos
  <2>1. d \in Todos /\ d \notin S
    BY <1>2, <1>3
  <2>2. board[d] \in Todo!TodoStatus /\ board[d] # "pending"
    BY <2>1 DEF Todo!TypeOK
  <2> QED
    BY <1>5, <2>1, <2>2 DEF Todo!TodoStatus
<1> QED
  BY <1>4, <1>5

(* For any set of todos and any number of requests: marks that overlap     *)
(* take no todo of a plan back from done, and the board never blocks       *)
(* itself.                                                                 *)
THEOREM BoardIsSound == AgentSpec => BoardSound
<1>1. AgentInit => Todo!TypeOK
  BY DEF AgentInit, Todo!Init, Todo!TypeOK, Todo!AllPending, Todo!TodoStatus
<1>2. Todo!TypeOK /\ [AgentNext]_agentVars => Todo!TypeOK'
  <2> SUFFICES ASSUME Todo!TypeOK, [AgentNext]_agentVars PROVE Todo!TypeOK'
    OBVIOUS
  <2>1. UNCHANGED todoVars => Todo!TypeOK'
    BY DEF todoVars, Todo!TypeOK
  <2> QED
    BY <2>1, BoardNext DEF AgentNext, agentVars
<1>3. Todo!TypeOK /\ [AgentNext]_agentVars =>
        [\A t \in Todos : board[t] = "done" => \/ board'[t] = "done"
                                               \/ board' = Todo!AllPending]_Todo!vars
  <2>1. UNCHANGED todoVars => UNCHANGED Todo!vars
    BY DEF todoVars, Todo!vars
  <2> QED
    BY <2>1, BoardNext DEF AgentNext, agentVars
<1>4. Todo!TypeOK =>
        (Todo!HasBoard /\ (\E t \in Todos : board[t] = "pending") =>
           Todo!Runnable # {} \/ \E t \in Todos : board[t] \in {"in_progress", "failed"})
  BY PendingIsRunnable
<1> QED
  BY <1>1, <1>2, <1>3, <1>4, PTL DEF AgentSpec, BoardSound, Todo!BoardSound

-----------------------------------------------------------------------------
(* ControlPlane.  Every version there has been but the last was read by an *)
(* accepted update; and as long as no two accepted updates had read the    *)
(* same one, there are as many of them as versions before the last.        *)
ReadBelow(n) ==
  \A v \in 1..(n - 1) : \E d \in Control!Accepted : request[d].version = v

Distinct ==
  \A c, d \in Control!Accepted : request[c].version = request[d].version => c = d

Counted ==
  Distinct =>
    /\ task.version = 1 + accepted
    /\ \A c \in Control!Accepted : request[c].version < task.version

(* A column that one accepted update alone has changed is as it left it.   *)
Kept(column) ==
  \A c \in Control!Accepted :
    (\A d \in Control!Accepted : Control!Changes(d, column) <=> d = c)
      => task.state[column] = request[c].patch[column]

TaskRead == task.version > 0 /\ ReadBelow(task.version)

RequestRead(c) ==
  request[c] # None => request[c].version > 0 /\ ReadBelow(request[c].version)

ControlInv ==
  /\ Control!TypeOK
  /\ TaskRead /\ \A c \in Clients : RequestRead(c)
  /\ Counted
  /\ Kept("goal") /\ Kept("preserve")

(* What is at a position of a sequence.                                    *)
LEMMA EntryOfSeq ==
  ASSUME NEW S, NEW q \in Seq(S), NEW k \in DOMAIN q
  PROVE  q[k] \in S /\ k \in 1..Len(q)
OBVIOUS

(* The task is created with a goal and with all of its constraints.        *)
LEMMA ControlInit == Control!Init => ControlInv
<1> SUFFICES ASSUME Control!Init PROVE ControlInv
  OBVIOUS
<1>1. PICK g \in TaskGoals : g = CHOOSE h \in TaskGoals : TRUE
  BY AgentAssumption
<1>2. task = [state |-> [goal |-> g, preserve |-> Constraints], version |-> 1]
  BY <1>1 DEF Control!Init
<1>3. [goal |-> g, preserve |-> Constraints] \in Control!States
  BY DEF Control!States
<1>4. task \in [state : Control!States, version : Nat]
  BY <1>2, <1>3
<1>5. checkpoints = <<>> /\ accepted = 0 /\ request \in [Clients -> Control!Updates \cup {None}]
  BY DEF Control!Init
<1>6. Control!TypeOK
  BY <1>4, <1>5 DEF Control!TypeOK
<1>7. Control!Accepted = {} /\ \A c \in Clients : request[c] = None
  BY DEF Control!Init, Control!Accepted
<1>8. task.version = 1 /\ ReadBelow(task.version)
  BY <1>2 DEF ReadBelow
<1> QED
  BY <1>5, <1>6, <1>7, <1>8 DEF ControlInv, TaskRead, RequestRead, Counted, Kept

(* What a patch leaves is a state of the task, and each of its columns is  *)
(* the one of the patch if the patch changes it, and as it was if not.     *)
PatchLeaves(new, now, read, patch) ==
  /\ new \in Control!States
  /\ \A column \in {"goal", "preserve"} :
       new[column] = IF patch[column] \in {None, read[column]} THEN now[column] ELSE patch[column]

(* That is what the setting of its columns leaves.                         *)
LEMMA PatchedIsState ==
  ASSUME NEW now \in Control!States, NEW read \in Control!States, NEW patch \in Control!Patches
  PROVE  PatchLeaves(Control!Patched(now, read, patch), now, read, patch)
<1> DEFINE new == Control!Patched(now, read, patch)
<1>1. now = [goal |-> now.goal, preserve |-> now.preserve] /\ DOMAIN now = {"goal", "preserve"}
  BY DEF Control!States
<1>2. new = [column \in {"goal", "preserve"} |->
               IF patch[column] \in {None, read[column]} THEN now[column] ELSE patch[column]]
  BY <1>1 DEF Control!Patched
<1>3. new["goal"] \in TaskGoals
  BY <1>2 DEF Control!States, Control!Patches
<1>4. new["preserve"] \in SUBSET Constraints
  BY <1>2 DEF Control!States, Control!Patches
<1> HIDE DEF new
<1>5. new = [goal |-> new["goal"], preserve |-> new["preserve"]]
  BY <1>2
<1>6. [goal |-> new["goal"], preserve |-> new["preserve"]] \in Control!States
  BY <1>3, <1>4 DEF Control!States
<1>7. \A column \in {"goal", "preserve"} :
        new[column] = IF patch[column] \in {None, read[column]} THEN now[column] ELSE patch[column]
  BY <1>2
<1> QED
  BY <1>5, <1>6, <1>7 DEF new, PatchLeaves

(* A request that has read adds nothing to what was accepted.              *)
LEMMA ControlRead ==
  ASSUME ControlInv, NEW c \in Clients, NEW b \in BOOLEAN, NEW p \in Control!Patches,
         Control!Read(c, p, b)
  PROVE  ControlInv'
<1> DEFINE new == [step |-> IF b THEN "write" ELSE "refused", read |-> task.state,
                   version |-> task.version, patch |-> p]
<1>1. Control!TypeOK
  BY DEF ControlInv
<1>2. new \in Control!Updates /\ new.version = task.version /\ new.step # "over"
  BY <1>1 DEF Control!TypeOK, Control!Updates
<1>3. /\ request[c] = None /\ request' = [request EXCEPT ![c] = new]
      /\ UNCHANGED <<task, accepted, checkpoints>>
  BY DEF Control!Read
<1> HIDE DEF new
<1>4. Control!TypeOK'
  BY <1>1, <1>2, <1>3 DEF Control!TypeOK
<1>5. /\ request'[c] = new
      /\ \A d \in Clients : d # c => request'[d] = request[d]
  BY <1>1, <1>3 DEF Control!TypeOK
<1>6. /\ Control!Accepted' = Control!Accepted
      /\ \A d \in Control!Accepted : d \in Clients /\ request'[d] = request[d]
  BY <1>2, <1>3, <1>5 DEF Control!Accepted
<1>7. ASSUME NEW n PROVE ReadBelow(n) => ReadBelow(n)'
  BY <1>6 DEF ReadBelow
<1>8. TaskRead /\ TaskRead'
  BY <1>3, <1>7 DEF ControlInv, TaskRead, ReadBelow
<1>9. ASSUME NEW d \in Clients PROVE RequestRead(d)'
  <2>1. CASE d = c
    BY <1>2, <1>3, <1>5, <1>8, <2>1 DEF RequestRead, TaskRead, ReadBelow
  <2>2. CASE d # c
    BY <1>5, <1>7, <2>2 DEF ControlInv, RequestRead, ReadBelow
  <2> QED
    BY <2>1, <2>2
<1>10. Counted'
  BY <1>3, <1>6 DEF ControlInv, Counted, Distinct
<1>11. ASSUME NEW column, Kept(column) PROVE Kept(column)'
  BY <1>3, <1>6, <1>11 DEF Kept, Control!Changes
<1> QED
  BY <1>4, <1>8, <1>9, <1>10, <1>11 DEF ControlInv

(* An accepted update makes the last version the one after that it has     *)
(* read, and if no other had read the same one, that was the last before.  *)
LEMMA ControlWrite ==
  ASSUME ControlInv, NEW c \in Clients, Control!Write(c)
  PROVE  ControlInv'
<1> DEFINE new == Control!Patched(task.state, request[c].read, request[c].patch)
           v == request[c].version
<1>1. Control!TypeOK
  BY DEF ControlInv
<1>2. request[c] \in Control!Updates /\ request[c].step = "write"
  BY <1>1 DEF Control!Write, Control!TypeOK
<1>3. /\ request[c].read \in Control!States /\ request[c].patch \in Control!Patches
      /\ task.state \in Control!States /\ task.version \in Nat /\ v \in Nat
  BY <1>1, <1>2 DEF Control!Updates, Control!TypeOK
<1>4. /\ new \in Control!States
      /\ \A column \in {"goal", "preserve"} :
           new[column] = IF Control!Changes(c, column)
                         THEN request[c].patch[column] ELSE task.state[column]
  <2>1. PatchLeaves(new, task.state, request[c].read, request[c].patch)
    BY <1>3, PatchedIsState
  <2> HIDE DEF new
  <2>2. ASSUME NEW column \in {"goal", "preserve"}
        PROVE  new[column] = IF Control!Changes(c, column)
                             THEN request[c].patch[column] ELSE task.state[column]
    <3>1. new[column] = IF request[c].patch[column] \in {None, request[c].read[column]}
                        THEN task.state[column] ELSE request[c].patch[column]
      BY <2>1 DEF PatchLeaves
    <3> QED
      BY <3>1 DEF Control!Changes
  <2>3. new \in Control!States
    BY <2>1 DEF PatchLeaves
  <2> QED
    BY <2>2, <2>3
<1>5. /\ request[c] # None
      /\ task' = [state |-> new, version |-> v + 1]
      /\ accepted' = accepted + 1 /\ UNCHANGED checkpoints
      /\ request' = [request EXCEPT ![c].step = "over"]
  BY DEF Control!Write
<1> HIDE DEF new
<1>6. Control!TypeOK'
  <2>1. [request[c] EXCEPT !.step = "over"] \in Control!Updates
    BY <1>2 DEF Control!Updates
  <2>2. request' \in [Clients -> Control!Updates \cup {None}]
    BY <1>1, <1>5, <2>1 DEF Control!TypeOK
  <2>3. task' \in [state : Control!States, version : Nat] /\ accepted' \in Nat
    BY <1>1, <1>3, <1>4, <1>5 DEF Control!TypeOK
  <2> QED
    BY <1>1, <1>5, <2>2, <2>3 DEF Control!TypeOK
<1>7. /\ request'[c] = [request[c] EXCEPT !.step = "over"]
      /\ \A d \in Clients : d # c => request'[d] = request[d]
  BY <1>1, <1>5 DEF Control!TypeOK
<1>8. /\ request'[c] # None /\ request'[c].step = "over"
      /\ request'[c].version = v
      /\ request'[c].patch = request[c].patch /\ request'[c].read = request[c].read
  <2>1. request'[c] \in Control!Updates /\ request'[c].step = "over"
    BY <1>2, <1>7 DEF Control!Updates
  <2>2. None \notin Control!Updates
    BY AgentAssumption
  <2> QED
    BY <1>2, <1>7, <2>1, <2>2 DEF Control!Updates
<1> HIDE DEF v
<1>9. /\ c \notin Control!Accepted /\ Control!Accepted' = Control!Accepted \cup {c}
      /\ \A d \in Control!Accepted : d \in Clients /\ d # c /\ request'[d] = request[d]
                                   /\ request[d].version \in Nat
  <2>1. c \notin Control!Accepted
    BY <1>2 DEF Control!Accepted
  <2>2. Control!Accepted' = Control!Accepted \cup {c}
    BY <1>7, <1>8 DEF Control!Accepted
  <2>3. \A d \in Control!Accepted : d \in Clients /\ request[d] \in Control!Updates
    BY <1>1 DEF Control!TypeOK, Control!Accepted
  <2> QED
    BY <1>7, <2>1, <2>2, <2>3 DEF Control!Updates
<1>10. v > 0 /\ ReadBelow(v) /\ task.version > 0 /\ ReadBelow(task.version)
  BY <1>5 DEF ControlInv, TaskRead, RequestRead, v
<1>11. ASSUME NEW n PROVE ReadBelow(n) => ReadBelow(n)'
  BY <1>9 DEF ReadBelow
<1>12. TaskRead'
  <2>1. task'.version = v + 1 /\ task'.version > 0
    BY <1>3, <1>5
  <2>2. ASSUME NEW u \in 1..v PROVE \E d \in Control!Accepted' : request'[d].version = u
    <3>1. CASE u = v
      BY <1>8, <1>9, <3>1
    <3>2. CASE u # v
      <4>1. u \in 1..(v - 1)
        BY <1>3, <3>2
      <4>2. PICK d \in Control!Accepted : request[d].version = u
        BY <1>10, <4>1 DEF ReadBelow
      <4> QED
        BY <1>9, <4>2
    <3> QED
      BY <3>1, <3>2
  <2>3. 1..(task'.version - 1) = 1..v
    BY <1>3, <2>1
  <2> QED
    BY <2>1, <2>2, <2>3 DEF TaskRead, ReadBelow
<1>13. ASSUME NEW d \in Clients PROVE RequestRead(d)'
  <2>1. CASE d = c
    BY <1>8, <1>10, <1>11, <2>1 DEF RequestRead, ReadBelow
  <2>2. CASE d # c
    BY <1>7, <1>11, <2>2 DEF ControlInv, RequestRead, ReadBelow
  <2> QED
    BY <2>1, <2>2
<1>14. Counted'
  <2> SUFFICES ASSUME Distinct'
               PROVE  /\ task'.version = 1 + accepted'
                      /\ \A d \in Control!Accepted' : request'[d].version < task'.version
    BY DEF Counted
  <2>1. Distinct /\ \A d \in Control!Accepted : request[d].version # v
    BY <1>8, <1>9 DEF Distinct
  <2>2. /\ task.version = 1 + accepted
        /\ \A d \in Control!Accepted : request[d].version < task.version
    BY <2>1 DEF ControlInv, Counted
  <2>3. ~(v < task.version)
    <3> SUFFICES ASSUME v < task.version PROVE FALSE
      OBVIOUS
    <3>1. v \in 1..(task.version - 1)
      BY <1>3, <1>10
    <3> QED
      BY <1>10, <2>1, <3>1 DEF ReadBelow
  <2>4. ~(task.version < v)
    <3> SUFFICES ASSUME task.version < v PROVE FALSE
      OBVIOUS
    <3>1. task.version \in 1..(v - 1)
      BY <1>3, <1>10
    <3>2. PICK d \in Control!Accepted : request[d].version = task.version
      BY <1>10, <3>1 DEF ReadBelow
    <3> QED
      BY <1>3, <2>2, <3>2
  <2>5. v = task.version /\ task'.version = v + 1
    BY <1>3, <1>5, <2>3, <2>4
  <2>6. task'.version = 1 + accepted'
    BY <1>1, <1>3, <1>5, <2>2, <2>5 DEF Control!TypeOK
  <2>7. ASSUME NEW d \in Control!Accepted' PROVE request'[d].version < task'.version
    BY <1>3, <1>8, <1>9, <2>2, <2>5
  <2> QED
    BY <2>6, <2>7
<1>15. ASSUME NEW column \in {"goal", "preserve"}, Kept(column) PROVE Kept(column)'
  <2> SUFFICES ASSUME NEW d \in Control!Accepted',
                      \A e \in Control!Accepted' : Control!Changes(e, column)' <=> e = d
               PROVE  task'.state[column] = request'[d].patch[column]
    BY DEF Kept
  <2>1. task'.state = new
    BY <1>5
  <2>2. Control!Changes(c, column)' <=> Control!Changes(c, column)
    BY <1>8 DEF Control!Changes
  <2>3. CASE d = c
    BY <1>4, <1>8, <2>1, <2>2, <2>3
  <2>4. CASE d # c
    <3>1. ~Control!Changes(c, column) /\ d \in Control!Accepted
      BY <1>9, <2>2, <2>4
    <3>2. \A e \in Control!Accepted : Control!Changes(e, column) <=> e = d
      BY <1>9 DEF Control!Changes
    <3>3. task.state[column] = request[d].patch[column]
      BY <1>15, <3>1, <3>2 DEF Kept
    <3> QED
      BY <1>4, <1>9, <2>1, <3>1, <3>3
  <2> QED
    BY <2>3, <2>4
<1> QED
  BY <1>6, <1>12, <1>13, <1>14, <1>15 DEF ControlInv

(* Every step of the requests; a checkpoint is made of the task as it is   *)
(* and leaves it alone.                                                    *)
LEMMA ControlNext == ASSUME ControlInv, Control!Next PROVE ControlInv'
<1>1. /\ Control!TypeOK /\ Len(checkpoints) \in Nat
      /\ checkpoints \in Seq([state : Control!States, parent : Nat])
      /\ DOMAIN checkpoints = 1..Len(checkpoints)
  BY DEF ControlInv, Control!TypeOK
<1>2. ASSUME NEW k \in DOMAIN checkpoints
      PROVE  checkpoints[k].state \in Control!Patches
  <2>1. checkpoints[k] \in [state : Control!States, parent : Nat]
    BY <1>1, EntryOfSeq
  <2> QED
    BY <2>1 DEF Control!States, Control!Patches
<1>3. ASSUME NEW q \in {0} \cup DOMAIN checkpoints, Control!CreateCheckpoint(q)
      PROVE  ControlInv'
  <2> DEFINE new == [state |-> task.state, parent |-> q]
  <2>1. new \in [state : Control!States, parent : Nat] /\ new.parent = q
    BY <1>1 DEF Control!TypeOK
  <2>2. checkpoints' = Append(checkpoints, new) /\ UNCHANGED <<task, request, accepted>>
    BY <1>3 DEF Control!CreateCheckpoint
  <2> HIDE DEF new
  <2>3. /\ checkpoints' \in Seq([state : Control!States, parent : Nat])
        /\ DOMAIN checkpoints' = 1..(Len(checkpoints) + 1)
        /\ checkpoints'[Len(checkpoints) + 1] = new
        /\ \A k \in DOMAIN checkpoints : checkpoints'[k] = checkpoints[k]
    BY <1>1, <2>1, <2>2
  <2>4. \A k \in DOMAIN checkpoints' : checkpoints'[k].parent < k
    BY <1>1, <2>1, <2>3 DEF Control!TypeOK
  <2>5. Control!TypeOK'
    BY <1>1, <2>2, <2>3, <2>4 DEF Control!TypeOK
  <2> QED
    BY <2>2, <2>5 DEF ControlInv, TaskRead, RequestRead, ReadBelow, Counted, Distinct, Kept,
                      Control!Accepted, Control!Changes
<1> QED
  BY <1>2, <1>3, ControlRead, ControlWrite DEF Control!Next, Control!ReadRestore

(* For any number of requests, goals and constraints: versions count the   *)
(* updates of a task as long as no two of them had read the same one, and  *)
(* no update takes back a column that it did not change itself.            *)
THEOREM UpdatesAreSound == AgentSpec => []UpdatesSound
<1>1. AgentInit => ControlInv
  BY ControlInit DEF AgentInit
<1>2. ControlInv /\ [AgentNext]_agentVars => ControlInv'
  <2> SUFFICES ASSUME ControlInv, [AgentNext]_agentVars PROVE ControlInv'
    OBVIOUS
  <2>1. UNCHANGED controlVars => ControlInv'
    BY DEF controlVars, ControlInv, Control!TypeOK, TaskRead, RequestRead, ReadBelow,
           Counted, Distinct, Kept, Control!Accepted, Control!Changes
  <2> QED
    BY <2>1, ControlNext DEF AgentNext, agentVars
<1>3. ControlInv => UpdatesSound
  BY DEF ControlInv, Counted, Distinct, Kept, UpdatesSound, Control!UpdatesSound
<1> QED
  BY <1>1, <1>2, <1>3, PTL DEF AgentSpec

-----------------------------------------------------------------------------
(* Verdicts.  A verdict is the one of its stage.                           *)
VerdictInv ==
  verdict # None =>
    /\ case \in Stage!Cases
    /\ case.stage = "gate" => verdict = Stage!Verify(case)
    /\ case.stage = "scope" => verdict = Stage!Audit(case)
    /\ case.stage = "coverage" => verdict = Stage!Review(case)

(* A stage is judged once.                                                 *)
LEMMA VerdictNext ==
  ASSUME VerdictInv, case = None \/ case \in Stage!Cases, case = None => verdict = None,
         Stage!Next
  PROVE  /\ VerdictInv'
         /\ (case = None \/ case \in Stage!Cases)'
         /\ (case = None => verdict = None)'
<1>1. CASE Stage!Stage
  BY <1>1 DEF Stage!Stage, VerdictInv
<1>2. CASE Stage!Judge
  <2>1. case \in Stage!Cases /\ case' = case
    BY <1>2 DEF Stage!Judge
  <2>2. /\ case.stage = "gate" => verdict' = Stage!Verify(case)
        /\ case.stage = "scope" => verdict' = Stage!Audit(case)
        /\ case.stage = "coverage" => verdict' = Stage!Review(case)
    BY <1>2 DEF Stage!Judge
  <2>3. /\ Stage!Verify(case)' = Stage!Verify(case)
        /\ Stage!Audit(case)' = Stage!Audit(case)
        /\ Stage!Review(case)' = Stage!Review(case)
    BY <2>1 DEF Stage!Verify, Stage!Audit, Stage!Review, Stage!NeedsReview,
                Stage!Collected, Stage!Violations, Stage!Merged, Stage!Graded, Stage!Grade
  <2> QED
    BY <2>1, <2>2, <2>3, AgentAssumption DEF VerdictInv
<1>3. CASE Stage!Note
  BY <1>3 DEF Stage!Note, VerdictInv, Stage!Verify, Stage!Audit, Stage!Review, 
              Stage!NeedsReview, Stage!Collected, Stage!Violations, Stage!Merged,
              Stage!Graded, Stage!Grade
<1> QED
  BY <1>1, <1>2, <1>3 DEF Stage!Next

(* The gate passes on a code the plan declares, and a command without a    *)
(* code has none of them.                                                  *)
LEMMA GateIsSound ==
  ASSUME NEW c \in Stage!Cases, c.stage = "gate"
  PROVE  Stage!Verify(c).ok <=> c.code \in c.codes
<1>1. c \in Stage!GateCases
  BY DEF Stage!Cases, Stage!GateCases, Stage!ScopeCases, Stage!CoverageCases
<1>2. None \notin c.codes
  BY <1>1, AgentAssumption DEF Stage!GateCases
<1> QED
  BY <1>2 DEF Stage!Verify

(* The rules of an audit are violated by a tracked change out of bounds,   *)
(* and the model can only add to them.                                     *)
LEMMA AuditIsSound ==
  ASSUME NEW c \in Stage!Cases, c.stage = "scope", c.declared, c.git = "works"
  PROVE  /\ Stage!Audit(c).ok => Stage!InBounds(c)
         /\ ~Stage!Audit(c).ok =>
              ~Stage!InBounds(c) \/ (c.opinion # None /\ c.opinion.paths # {})
         /\ c.opinion = None => (Stage!Audit(c).ok <=> Stage!InBounds(c))
<1>1. Stage!Violations(c) = {} <=> Stage!InBounds(c)
  <2>1. Stage!Collected(c) = {w \in c.work : w.tracked}
    BY DEF Stage!Collected
  <2>2. Stage!Violations(c) = {} <=>
          \A w \in Stage!Collected(c) : ~(w.path \in c.forbidden \/ w.path \notin c.allowed)
    BY DEF Stage!Violations
  <2> QED
    BY <2>1, <2>2 DEF Stage!InBounds
<1>2. Stage!Merged(c) = {} <=> Stage!Violations(c) = {} /\ c.opinion.paths = {}
  BY DEF Stage!Merged
<1>3. CASE Stage!NeedsReview(c) /\ c.opinion # None
  <2>1. Stage!Audit(c).ok = (Stage!Merged(c) = {})
    BY <1>3 DEF Stage!Audit
  <2> QED
    BY <1>1, <1>2, <1>3, <2>1
<1>4. CASE ~(Stage!NeedsReview(c) /\ c.opinion # None)
  <2>1. Stage!Audit(c).ok = (Stage!Violations(c) = {})
    BY <1>4 DEF Stage!Audit
  <2> QED
    BY <1>1, <2>1
<1> QED
  BY <1>3, <1>4

(* A review that counts has found a gap it names and grades high.          *)
LEMMA ReviewIsSound ==
  ASSUME NEW c
  PROVE  Stage!Retries(c) <=> /\ c.enabled /\ c.configured /\ c.enforce /\ c.answer # None
                              /\ \E g \in c.answer.gaps : g.grade = "high" /\ g.named
<1>1. "high" \in Stage!Graded(c) <=> \E g \in c.answer.gaps : g.grade = "high" /\ g.named
  <2>1. "high" \in Stage!Graded(c) <=>
          \E g \in {h \in c.answer.gaps : h.named} : Stage!Grade(g) = "high"
    BY DEF Stage!Graded
  <2>2. \A g : Stage!Grade(g) = "high" <=> g.grade = "high"
    BY DEF Stage!Grade
  <2> QED
    BY <2>1, <2>2
<1>2. CASE c.enabled /\ c.configured /\ c.answer # None
  <2>1. Stage!Review(c).ok = ("high" \notin Stage!Graded(c))
    BY <1>2 DEF Stage!Review
  <2> QED
    BY <1>1, <1>2, <2>1 DEF Stage!Retries
<1>3. CASE ~(c.enabled /\ c.configured /\ c.answer # None)
  <2>1. Stage!Review(c).ok = TRUE
    BY <1>3 DEF Stage!Review
  <2> QED
    BY <1>3, <2>1 DEF Stage!Retries
<1> QED
  BY <1>2, <1>3

(* For any set of paths: no stage lets pass what its rules refuse, or      *)
(* refuses without a reason of its own.                                    *)
THEOREM VerdictsAreSound == AgentSpec => []VerdictsSound
<1> DEFINE Inv == /\ VerdictInv
                  /\ case = None \/ case \in Stage!Cases
                  /\ case = None => verdict = None
<1>1. AgentInit => Inv
  BY DEF AgentInit, Stage!Init, VerdictInv
<1>2. Inv /\ [AgentNext]_agentVars => Inv'
  <2> SUFFICES ASSUME Inv, [AgentNext]_agentVars PROVE Inv'
    OBVIOUS
  <2>1. ASSUME UNCHANGED verdictVars PROVE Inv'
    BY <2>1 DEF verdictVars, VerdictInv, Stage!Verify, Stage!Audit, Stage!Review,
                Stage!NeedsReview, Stage!Collected, Stage!Violations, Stage!Merged,
                Stage!Graded, Stage!Grade
  <2> QED
    BY <2>1, VerdictNext DEF AgentNext, agentVars
<1>3. Inv => VerdictsSound
  <2> SUFFICES ASSUME VerdictInv, verdict # None PROVE Stage!VerdictsSound
    BY DEF VerdictsSound, Stage!VerdictsSound
  <2> USE DEF VerdictInv
  <2>1. case.stage = "gate" => (verdict.ok <=> case.code \in case.codes)
    BY GateIsSound
  <2>2. case.stage = "scope" /\ case.declared /\ case.git = "works" =>
          /\ verdict.ok => Stage!InBounds(case)
          /\ ~verdict.ok => ~Stage!InBounds(case) \/ (case.opinion # None /\ case.opinion.paths # {})
          /\ case.opinion = None => (verdict.ok <=> Stage!InBounds(case))
    BY AuditIsSound
  <2>3. Stage!Retries(case) <=>
          /\ case.enabled /\ case.configured /\ case.enforce /\ case.answer # None
          /\ \E g \in case.answer.gaps : g.grade = "high" /\ g.named
    BY ReviewIsSound
  <2> QED
    BY <2>1, <2>2, <2>3 DEF Stage!VerdictsSound
<1> QED
  BY <1>1, <1>2, <1>3, PTL DEF AgentSpec

-----------------------------------------------------------------------------
(* Selection.  The rules always choose: the last of them asks for nothing. *)
LEMMA RulesInOrder ==
  ASSUME NEW words
  PROVE  /\ Pick!Rules(words)[1] = <<Pick!NeedsMultiAgent(words), "multi_agent_collaborate">>
         /\ Pick!Rules(words)[2] = <<Pick!NeedsA2a(words), "a2a_call">>
         /\ Pick!Rules(words)[3] = <<"mcp" \in words, "mcp_call">>
         /\ Pick!Rules(words)[4] = <<"file" \in words, "file_read">>
         /\ Pick!Rules(words)[5] = <<"search" \in words, "search_web">>
         /\ \E b \in BOOLEAN : Pick!Rules(words)[6] = <<Pick!NeedsScreenshot(words) /\ b, "browser_open">>
         /\ Pick!Rules(words)[7] = <<Pick!NeedsScreenshot(words), "browser_screenshot">>
         /\ Pick!Rules(words)[8] = <<Pick!NeedsBrowserOpen(words), "browser_open">>
         /\ Pick!Rules(words)[9] = <<"keywords" \in words, "extract_keywords">>
         /\ Pick!Rules(words)[10] = <<"plan" \in words, "draft_plan">>
         /\ Pick!Rules(words)[11] = <<TRUE, "summarize_text">>
BY DEF Pick!Rules

(* The tool for some words is that of a rule they match.                   *)
LEMMA RuleIsAsked ==
  ASSUME NEW words
  PROVE  \E r \in 1..11 : /\ Pick!Rules(words)[r][1]
                          /\ Pick!RuleToolFor(words) = Pick!Rules(words)[r][2]
<1> DEFINE set == {r \in 1..11 : Pick!Rules(words)[r][1]}
<1>0. Pick!Rules(words)[11] = <<TRUE, "summarize_text">>
  BY RulesInOrder
<1>1. 11 \in set
  <2>1. Pick!Rules(words)[11][1] = TRUE
    BY <1>0
  <2> QED
    BY <2>1
<1>2. PICK r \in set : \A q \in set : r <= q
  BY <1>1, LeastNumber
<1> DEFINE first == CHOOSE q \in set : \A other \in set : q <= other
<1>3. first \in set
  BY <1>2
<1>4. Pick!RuleToolFor(words) = Pick!Rules(words)[first][2]
  BY DEF Pick!RuleToolFor
<1> HIDE DEF first
<1> QED
  BY <1>3, <1>4

(* A task without a word for it gets a tool that stays in the process.     *)
Inside == {"extract_keywords", "draft_plan", "summarize_text"}
Outward == Pick!Words \ {"keywords", "plan"}

(* The rules for the other tools all look for a word.                      *)
LEMMA RulesStayInside ==
  ASSUME NEW words, words \cap Outward = {}
  PROVE  Pick!RuleToolFor(words) \in Inside
<1>1. /\ ~Pick!NeedsMultiAgent(words) /\ ~Pick!NeedsA2a(words)
      /\ ~Pick!NeedsScreenshot(words) /\ ~Pick!NeedsBrowserOpen(words)
      /\ "mcp" \notin words /\ "file" \notin words /\ "search" \notin words
  BY DEF Outward, Pick!Words, Pick!NeedsMultiAgent, Pick!NeedsA2a, Pick!NeedsScreenshot,
         Pick!NeedsBrowserOpen
<1>2. PICK r \in 1..11 : /\ Pick!Rules(words)[r][1]
                         /\ Pick!RuleToolFor(words) = Pick!Rules(words)[r][2]
  BY RuleIsAsked
<1> DEFINE rules == Pick!Rules(words)
<1>3. /\ rules[1] = <<Pick!NeedsMultiAgent(words), "multi_agent_collaborate">>
      /\ rules[2] = <<Pick!NeedsA2a(words), "a2a_call">>
      /\ rules[3] = <<"mcp" \in words, "mcp_call">>
      /\ rules[4] = <<"file" \in words, "file_read">>
      /\ rules[5] = <<"search" \in words, "search_web">>
  BY RulesInOrder
<1>4. /\ \E b \in BOOLEAN : rules[6] = <<Pick!NeedsScreenshot(words) /\ b, "browser_open">>
      /\ rules[7] = <<Pick!NeedsScreenshot(words), "browser_screenshot">>
      /\ rules[8] = <<Pick!NeedsBrowserOpen(words), "browser_open">>
  BY RulesInOrder
<1>5. /\ rules[9] = <<"keywords" \in words, "extract_keywords">>
      /\ rules[10] = <<"plan" \in words, "draft_plan">>
      /\ rules[11] = <<TRUE, "summarize_text">>
  BY RulesInOrder
<1> HIDE DEF rules
<1>6. r \in {9, 10, 11}
  <2>1. rules[1][1] = FALSE /\ rules[2][1] = FALSE
    BY <1>1, <1>3
  <2>2. rules[3][1] = FALSE /\ rules[4][1] = FALSE /\ rules[5][1] = FALSE
    <3>1. /\ rules[3][1] = ("mcp" \in words) /\ rules[4][1] = ("file" \in words)
          /\ rules[5][1] = ("search" \in words)
      BY <1>3
    <3>2. /\ ("mcp" \in words) = FALSE /\ ("file" \in words) = FALSE
          /\ ("search" \in words) = FALSE
      BY <1>1
    <3> QED
      BY <3>1, <3>2
  <2>3. rules[6][1] = FALSE
    <3>1. PICK b \in BOOLEAN : rules[6] = <<Pick!NeedsScreenshot(words) /\ b, "browser_open">>
      BY <1>4
    <3>2. rules[6][1] = (Pick!NeedsScreenshot(words) /\ b)
      BY <3>1
    <3> QED
      BY <1>1, <3>2
  <2>4. rules[7][1] = FALSE /\ rules[8][1] = FALSE
    BY <1>1, <1>4
  <2>5. rules[r][1]
    BY <1>2 DEF rules
  <2> QED
    BY <2>1, <2>2, <2>3, <2>4, <2>5
<1>7. rules[r][2] \in Inside
  BY <1>5, <1>6 DEF Inside
<1> QED
  BY <1>2, <1>7 DEF rules

(* A repaired call has parameters of its tool only, and what can be told   *)
(* from the task is there.                                                 *)
LEMMA RepairedCall ==
  ASSUME NEW tool, NEW arguments
  PROVE  LET repaired == Pick!Repair(tool, arguments)
         IN  /\ DOMAIN repaired \subseteq Pick!Names(tool)
             /\ \A p \in tool.required \cap Pick!Inferable(tool) : ~Pick!Lacks(repaired, p)
<1> DEFINE filled == {p \in tool.required \cap Pick!Inferable(tool) : Pick!Lacks(arguments, p)}
           repaired == Pick!Repair(tool, arguments)
<1>1. repaired = [p \in filled \cup (DOMAIN arguments \cap Pick!Names(tool)) |->
                    IF p \in filled THEN "given" ELSE arguments[p]]
  BY DEF Pick!Repair
<1>2. filled \subseteq Pick!Names(tool)
  BY DEF Pick!Names
<1> HIDE DEF repaired
<1>3. DOMAIN repaired \subseteq Pick!Names(tool)
  BY <1>1, <1>2
<1>4. ASSUME NEW p \in tool.required \cap Pick!Inferable(tool) PROVE ~Pick!Lacks(repaired, p)
  <2>1. CASE p \in filled
    BY <1>1, <2>1 DEF Pick!Lacks
  <2>2. CASE p \notin filled
    <3>1. p \in DOMAIN arguments \cap Pick!Names(tool) /\ arguments[p] \notin {"null", "blank"}
      BY <2>2 DEF Pick!Lacks, Pick!Names
    <3> QED
      BY <1>1, <2>2, <3>1 DEF Pick!Lacks
  <2> QED
    BY <2>1, <2>2
<1> QED
  BY <1>3, <1>4 DEF repaired

(* What only the model could have known, or has given a wrong type.        *)
OfTheModel ==
  {"max_chars", "full_page", "count", "top_k"} \cup
  {"content", "old_text", "new_text", "command", "session_id", "knowledge_base_id"}

(* Of each registered tool, that is all it can be refused for.             *)
LEMMA RegistryParameters ==
  ASSUME NEW tool \in Pick!Registry
  PROVE  tool.required \ Pick!Inferable(tool) \subseteq OfTheModel /\ tool.typed \subseteq OfTheModel
<1> USE DEF Pick!Tool, Pick!Inferable, OfTheModel
<1>1. CASE tool \in Pick!FileTools
  BY <1>1 DEF Pick!FileTools
<1>2. CASE tool \in Pick!TextTools \cup Pick!ShellTools
  BY <1>2 DEF Pick!TextTools, Pick!ShellTools
<1>3. CASE tool \in Pick!BrowserTools
  BY <1>3 DEF Pick!BrowserTools
<1>4. CASE tool \in Pick!SearchTools \cup Pick!RagTools \cup Pick!McpTools \cup Pick!A2aTools
                      \cup Pick!AgentTools
  BY <1>4 DEF Pick!SearchTools, Pick!RagTools, Pick!McpTools, Pick!A2aTools, Pick!AgentTools
<1> QED
  BY <1>1, <1>2, <1>3, <1>4 DEF Pick!Registry

(* A call of the model's.                                                  *)
LEMMA ModelCallSound ==
  ASSUME NEW tool \in Pick!Registry, NEW arguments
  PROVE  Pick!Refused(tool, Pick!Repair(tool, arguments)) \subseteq OfTheModel
<1> DEFINE repaired == Pick!Repair(tool, arguments)
<1>1. /\ DOMAIN repaired \subseteq Pick!Names(tool)
      /\ \A p \in tool.required \cap Pick!Inferable(tool) : ~Pick!Lacks(repaired, p)
  BY RepairedCall
<1> HIDE DEF repaired
<1>2. Pick!Refused(tool, repaired) \subseteq (tool.required \ Pick!Inferable(tool)) \cup tool.typed
  BY <1>1 DEF Pick!Refused
<1>3. Pick!Refused(tool, repaired) \subseteq OfTheModel
  BY <1>2, RegistryParameters
<1> QED
  BY <1>3 DEF repaired

(* A call of the rules' has every parameter.                               *)
LEMMA RuleCallSound ==
  ASSUME NEW tool
  PROVE  Pick!Refused(tool, Pick!Repair(tool, Pick!RuleArguments(tool))) = {}
<1> DEFINE arguments == Pick!RuleArguments(tool)
           repaired == Pick!Repair(tool, arguments)
<1>1. arguments = [p \in Pick!Names(tool) |-> "given"] /\ tool.required \subseteq Pick!Names(tool)
  BY DEF Pick!RuleArguments, Pick!Names
<1>2. repaired = arguments
  <2>1. {p \in tool.required \cap Pick!Inferable(tool) : Pick!Lacks(arguments, p)} = {}
    BY <1>1 DEF Pick!Lacks
  <2>2. repaired = [p \in {} \cup (Pick!Names(tool) \cap Pick!Names(tool)) |->
                      IF p \in {} THEN "given" ELSE arguments[p]]
    BY <1>1, <2>1 DEF Pick!Repair
  <2> QED
    BY <1>1, <2>2
<1> HIDE DEF arguments, repaired
<1>3. Pick!Refused(tool, arguments) = {}
  BY <1>1 DEF Pick!Refused, Pick!Lacks
<1> QED
  BY <1>2, <1>3 DEF repaired, arguments

ChoiceInv == Pick!SelectionSound /\ (index = 0 => choice.source = "none")

(* Beginning a step and choosing its tool.                                 *)
LEMMA ChoiceNext == ASSUME ChoiceInv, Pick!Next PROVE ChoiceInv'
<1>1. ASSUME NEW g \in Goals, NEW step \in StepTexts, NEW c \in Contexts, NEW i \in 1..MaxIndex,
             Pick!Begin(g, step, c, i)
      PROVE  ChoiceInv'
  <2>1. choice' = choice /\ choice.source = "none"
    BY <1>1 DEF Pick!Begin, ChoiceInv
  <2> QED
    BY <2>1 DEF ChoiceInv, Pick!SelectionSound
<1>2. ASSUME NEW tool \in Pick!Registry, Pick!Choose,
             Pick!ModelChooses(tool) \/ Pick!RulesChoose(tool)
      PROVE  ChoiceInv'
  <2>1. UNCHANGED <<goal, context, index, said>> /\ index > 0
    BY <1>2 DEF Pick!Choose
  <2>2. index # 0
    BY <2>1
  <2>3. CASE Pick!ModelChooses(tool)
    <3>1. PICK arguments : choice' = Pick!Call("model", tool, arguments)
      BY <2>3 DEF Pick!ModelChooses
    <3>2. choice'.source = "model" /\ choice'.refused \subseteq OfTheModel
      BY <3>1, ModelCallSound DEF Pick!Call
    <3> QED
      BY <2>1, <2>2, <3>2 DEF ChoiceInv, Pick!SelectionSound, OfTheModel
  <2>4. CASE Pick!RulesChoose(tool)
    <3>1. /\ choice' = Pick!Call("rules", tool, Pick!RuleArguments(tool))
          /\ tool.name = Pick!RuleToolFor(goal \cup said)
      BY <2>4 DEF Pick!RulesChoose, Pick!RuleTool
    <3>2. /\ choice'.source = "rules" /\ choice'.refused = {}
          /\ choice'.tool = Pick!RuleToolFor(goal \cup said)
      BY <3>1, RuleCallSound DEF Pick!Call
    <3>3. (goal \cup said) \cap Outward = {} => choice'.tool \in Inside
      BY <3>2, RulesStayInside
    <3> QED
      BY <2>1, <2>2, <3>2, <3>3 DEF ChoiceInv, Pick!SelectionSound, Outward, Inside
  <2> QED
    BY <1>2, <2>3, <2>4
<1> QED
  BY <1>1, <1>2 DEF Pick!Next, Pick!Choose

(* For any goals, steps and contexts: without a model every step gets a    *)
(* call its tool accepts, within the process unless its words ask for      *)
(* more; and a model's call is refused for nothing that could be told.     *)
THEOREM SelectionIsSound == AgentSpec => []SelectionSound
<1>1. AgentInit => ChoiceInv
  BY DEF AgentInit, Pick!Init, ChoiceInv, Pick!SelectionSound
<1>2. ChoiceInv /\ [AgentNext]_agentVars => ChoiceInv'
  <2> SUFFICES ASSUME ChoiceInv, [AgentNext]_agentVars PROVE ChoiceInv'
    OBVIOUS
  <2>1. UNCHANGED choiceVars => ChoiceInv'
    BY DEF choiceVars, ChoiceInv, Pick!SelectionSound
  <2> QED
    BY <2>1, ChoiceNext DEF AgentNext, agentVars
<1>3. ChoiceInv => SelectionSound
  BY DEF ChoiceInv, SelectionSound
<1> QED
  BY <1>1, <1>2, <1>3, PTL DEF AgentSpec

-----------------------------------------------------------------------------
(* Remote.  A request for several remotes only reads, and asks those that  *)
(* its manager has switched on; what was sent goes to those that have      *)
(* answered, and to the first that is left while its answer is awaited.    *)


RemoteTypes ==
  /\ ask \in [reads : BOOLEAN, for : Seq(Far!Remotes), left : Seq(Far!Remotes),
              answered : Seq(Far!Remotes),
              outcome : Far!Outcomes \cup {"none", "asking", "waiting"}]
  /\ sent \in [Far!Remotes -> {0, 1}]

Heard(r) == Transport[r] = "demo" \/ sent[r] = 1

UnderWay ==
  /\ ask.left # << >> /\ Len(ask.for) = Len(ask.answered) + Len(ask.left)
  /\ \A i \in 1..Len(ask.answered) : ask.answered[i] = ask.for[i] /\ Heard(ask.for[i])
  /\ \A i \in 1..Len(ask.left) : ask.left[i] = ask.for[Len(ask.answered) + i]
  /\ \A i \in 1..Len(ask.left) :
       sent[ask.left[i]] = 1 <=> i = 1 /\ ask.outcome = "waiting"

RemoteInv ==
  /\ RemoteTypes
  /\ manager = Far!NoManager => ask = Far!Idle /\ \A r \in Far!Remotes : sent[r] = 0
  /\ \A i, j \in 1..Len(ask.for) : ask.for[i] = ask.for[j] => i = j
  /\ \A r \in Far!Remotes : sent[r] = 1 =>
       manager[r] = "on" /\ \E i \in 1..Len(ask.for) : ask.for[i] = r
  /\ \/ ask.reads /\ \A i \in 1..Len(ask.for) : manager[ask.for[i]] = "on"
     \/ Len(ask.for) <= 1
  /\ ask.outcome \in {"asking", "waiting"} => UnderWay
  /\ ask.outcome = "ok" =>
       ask.answered = ask.for /\ \A i \in 1..Len(ask.for) : Heard(ask.for[i])
  /\ ask.outcome = "refused" => \A r \in Far!Remotes : sent[r] = 0

(* A request begins.                                                       *)
LEMMA RemoteRequest ==
  ASSUME RemoteInv, NEW reads \in BOOLEAN, NEW names \in Seq(Far!Remotes),
         Far!Request(reads, names),
         \A i, j \in 1..Len(names) : names[i] = names[j] => i = j,
         \/ reads /\ \A i \in 1..Len(names) : manager[names[i]] = "on"
         \/ Len(names) <= 1
  PROVE  RemoteInv'
<1>1. /\ ask' = [reads |-> reads, for |-> names, left |-> names, answered |-> << >>,
                 outcome |-> IF names = << >> THEN "ok" ELSE "asking"]
      /\ sent' = [r \in Far!Remotes |-> 0]
      /\ manager # Far!NoManager /\ manager' = manager
  BY DEF Far!Request
<1>2. /\ ask'.reads = reads /\ ask'.for = names /\ ask'.left = names
      /\ ask'.answered = << >>
      /\ ask'.outcome = IF names = << >> THEN "ok" ELSE "asking"
  BY <1>1
<1>3. RemoteTypes'
  <2>1. << >> \in Seq(Far!Remotes)
    OBVIOUS
  <2> QED
    BY <1>1, <2>1 DEF RemoteTypes, Far!Outcomes
<1>4. \A r \in Far!Remotes : sent'[r] = 0
  BY <1>1
<1>5. ask'.outcome \in {"asking", "waiting"} => UnderWay'
  <2>1. Len(names) \in Nat /\ Len(<< >>) = 0 /\ \A i \in 1..Len(names) : names[i] \in Far!Remotes
    OBVIOUS
  <2> QED
    BY <1>2, <1>4, <2>1 DEF UnderWay
<1>6. ask'.outcome = "ok" => names = << >>
  BY <1>2
<1>7. 1..Len(<< >>) = {}
  OBVIOUS
<1> QED
  BY <1>1, <1>2, <1>3, <1>4, <1>5, <1>6, <1>7 DEF RemoteInv

(* A request ends without success.                                         *)
LEMMA RemoteEnds ==
  ASSUME RemoteInv, UNCHANGED <<manager, sent>>, NEW how \in Far!Outcomes \ {"ok"},
         Far!End(how), ask.outcome \in {"asking", "waiting"},
         how = "refused" => \A r \in Far!Remotes : sent[r] = 0
  PROVE  RemoteInv'
<1>1. ask' = [ask EXCEPT !.outcome = how, !.left = << >>, !.answered = << >>]
  BY DEF Far!End
<1>2. PICK old \in [reads : BOOLEAN, for : Seq(Far!Remotes), left : Seq(Far!Remotes),
                    answered : Seq(Far!Remotes),
                    outcome : Far!Outcomes \cup {"none", "asking", "waiting"}] : old = ask
  BY DEF RemoteInv, RemoteTypes
<1>3. << >> \in Seq(Far!Remotes)
  OBVIOUS
<1>4. /\ ask' \in [reads : BOOLEAN, for : Seq(Far!Remotes), left : Seq(Far!Remotes),
                   answered : Seq(Far!Remotes),
                   outcome : Far!Outcomes \cup {"none", "asking", "waiting"}]
      /\ ask'.for = ask.for /\ ask'.reads = ask.reads /\ ask'.outcome = how
  BY <1>1, <1>2, <1>3
<1>5. manager # Far!NoManager
  BY DEF RemoteInv, Far!Idle
<1> QED
  BY <1>4, <1>5 DEF RemoteInv, RemoteTypes, Far!Outcomes

(* The first of the elements that are left moves to the end of the others. *)
Moves(s, t, longer, shorter) ==
  /\ longer = Append(s, Head(t)) /\ shorter = Tail(t)
  /\ Head(t) = t[1] /\ Len(s) \in Nat /\ Len(t) \in Nat /\ Len(t) # 0
  /\ Len(longer) = Len(s) + 1 /\ Len(t) = Len(shorter) + 1
  /\ Len(shorter) \in Nat /\ (shorter = << >> => Len(shorter) = 0)
  /\ \A i \in 1..Len(s) : longer[i] = s[i]
  /\ longer[Len(s) + 1] = t[1]
  /\ \A i \in 1..Len(shorter) : shorter[i] = t[i + 1] /\ i + 1 \in 1..Len(t) /\ i + 1 # 1

(* There is such a pair of sequences.                                      *)
LEMMA FirstMoves ==
  ASSUME NEW R, NEW s \in Seq(R), NEW t \in Seq(R), t # << >>
  PROVE  \E longer \in Seq(R), shorter \in Seq(R) : Moves(s, t, longer, shorter)
<1>1. Tail(t) \in Seq(R) /\ Head(t) = t[1] /\ t[1] \in R
  OBVIOUS
<1>2. Append(s, Head(t)) \in Seq(R)
  BY <1>1
<1>3. /\ Len(s) \in Nat /\ Len(t) \in Nat /\ Len(t) # 0
      /\ Len(Tail(t)) = Len(t) - 1 /\ Len(Tail(t)) \in Nat
  OBVIOUS
<1>4. ASSUME Tail(t) = << >> PROVE Len(Tail(t)) = 0
  <2>1. Len(<< >>) = 0
    OBVIOUS
  <2> QED
    BY <1>4, <2>1
<1>5. \A i \in 1..(Len(t) - 1) : Tail(t)[i] = t[i + 1]
  OBVIOUS
<1>6. /\ Len(Append(s, Head(t))) = Len(s) + 1
      /\ Append(s, Head(t))[Len(s) + 1] = t[1]
      /\ \A i \in 1..Len(s) : Append(s, Head(t))[i] = s[i]
  BY <1>1, <1>3
<1>7. \A i \in 1..(Len(t) - 1) : i + 1 \in 1..Len(t) /\ i + 1 # 1
  BY <1>3
<1>8. Len(t) = Len(Tail(t)) + 1
  BY <1>3
<1>9. Moves(s, t, Append(s, Head(t)), Tail(t))
  BY <1>1, <1>3, <1>4, <1>5, <1>6, <1>7, <1>8, Zenon DEF Moves
<1> QED
  BY <1>1, <1>2, <1>9

(* The first that is left answers.                                         *)
LEMMA RemoteAnswers ==
  ASSUME RemoteInv, UNCHANGED <<manager, sent>>, Far!Answered,
         ask.outcome \in {"asking", "waiting"}, Heard(Head(ask.left))
  PROVE  RemoteInv'
<1> DEFINE R == Far!Remotes
           Ask == [reads : BOOLEAN, for : Seq(R), left : Seq(R), answered : Seq(R),
                   outcome : Far!Outcomes \cup {"none", "asking", "waiting"}]
<1>1. /\ ask \in Ask /\ ask.left \in Seq(R) /\ ask.answered \in Seq(R) /\ ask.for \in Seq(R)
      /\ UnderWay
  BY DEF RemoteInv, RemoteTypes
<1>2. ask.left # << >> /\ Len(ask.for) = Len(ask.answered) + Len(ask.left)
  BY <1>1 DEF UnderWay
<1>3. PICK heard \in Seq(R), others \in Seq(R) : Moves(ask.answered, ask.left, heard, others)
  <2> HIDE DEF R
  <2> QED
    BY <1>1, <1>2, FirstMoves
<1>4. /\ heard = Append(ask.answered, Head(ask.left)) /\ others = Tail(ask.left)
      /\ Head(ask.left) = ask.left[1]
  BY <1>3 DEF Moves
<1>5. PICK a \in Nat, b \in Nat, c \in Nat :
        /\ a = Len(ask.answered) /\ b = Len(ask.left) /\ c = Len(others)
        /\ b = c + 1 /\ Len(heard) = a + 1 /\ Len(ask.for) = a + b
        /\ (others = << >> => c = 0)
  BY <1>2, <1>3 DEF Moves
<1>6. /\ \A i \in 1..a : heard[i] = ask.answered[i]
      /\ heard[a + 1] = ask.left[1]
      /\ \A i \in 1..c : others[i] = ask.left[i + 1] /\ i + 1 \in 1..b /\ i + 1 # 1
  BY <1>3, <1>5 DEF Moves
<1>8. /\ ask' \in Ask /\ ask'.for = ask.for /\ ask'.reads = ask.reads
      /\ ask'.left = others /\ ask'.answered = heard
      /\ ask'.outcome = IF others = << >> THEN "ok" ELSE "asking"
  <2>1. PICK old \in Ask : old = ask
    BY <1>1
  <2>2. PICK how \in {"ok", "asking"} : how = IF others = << >> THEN "ok" ELSE "asking"
    OBVIOUS
  <2>3. ask' = [ask EXCEPT !.left = Tail(ask.left),
                           !.answered = Append(ask.answered, Head(ask.left)),
                           !.outcome = IF Tail(ask.left) = << >> THEN "ok" ELSE "asking"]
    BY DEF Far!Answered
  <2>4. ask' = [old EXCEPT !.left = others, !.answered = heard, !.outcome = how]
    BY <1>4, <2>1, <2>2, <2>3
  <2>5. /\ ask' \in Ask /\ ask'.for = old.for /\ ask'.reads = old.reads
        /\ ask'.left = others /\ ask'.answered = heard /\ ask'.outcome = how
    BY <2>4 DEF Far!Outcomes
  <2> QED
    BY <2>1, <2>2, <2>5
<1>10. /\ \A i \in 1..a : ask.answered[i] = ask.for[i] /\ Heard(ask.for[i])
       /\ \A i \in 1..b : ask.left[i] = ask.for[a + i]
       /\ \A i \in 1..b : sent[ask.left[i]] = 1 <=> i = 1 /\ ask.outcome = "waiting"
  BY <1>1, <1>5 DEF UnderWay
<1>11. /\ \A i \in 1..(a + 1) : i \in 1..a \/ i = a + 1
       /\ 1 \in 1..b
  BY <1>5
<1>12. \A i \in 1..(a + 1) : heard[i] = ask.for[i] /\ Heard(ask.for[i])
  BY <1>4, <1>11, <1>6, <1>10, ZenonT(40)
<1>13. manager # Far!NoManager
  BY DEF RemoteInv, Far!Idle
<1>14. RemoteTypes' /\ sent' = sent /\ manager' = manager
  BY <1>8 DEF RemoteInv, RemoteTypes
<1>15. CASE others = << >>
  <2>1. Len(heard) = Len(ask.for) /\ Len(ask.for) = a + 1
    BY <1>5, <1>15
  <2>2. heard = ask.for
    BY <1>1, <1>12, <2>1
  <2>3. ask'.outcome = "ok" /\ ask'.answered = ask'.for
    BY <1>8, <1>15, <2>2
  <2>4. \A i \in 1..Len(ask'.for) :
          Transport[ask'.for[i]] = "demo" \/ sent'[ask'.for[i]] = 1
    BY <1>8, <1>12, <1>14, <2>1 DEF Heard
  <2> QED
    BY <1>8, <1>13, <1>14, <2>3, <2>4 DEF RemoteInv, Heard
<1>16. CASE others # << >>
  <2>1. ask'.outcome = "asking" /\ ask'.left # << >>
    BY <1>8, <1>16
  <2>2. /\ Len(ask'.answered) = a + 1 /\ Len(ask'.left) = c
        /\ Len(ask'.for) = (a + 1) + c
    <3>3. (a + 1) + c = a + (c + 1) /\ b = c + 1
      <4>1. (a + 1) + c = a + (c + 1)
        OBVIOUS
      <4> QED
        BY <1>5, <4>1, Zenon
    <3>1. (a + 1) + c = a + b
      BY <3>3
    <3>2. Len(ask'.answered) = a + 1 /\ Len(ask'.left) = c /\ Len(ask'.for) = a + b
      BY <1>8, <1>5, Zenon
    <3> QED
      BY <3>1, <3>2
  <2>3. \A i \in 1..(a + 1) :
          /\ ask'.answered[i] = ask'.for[i]
          /\ Transport[ask'.for[i]] = "demo" \/ sent'[ask'.for[i]] = 1
    BY <1>8, <1>12, <1>14 DEF Heard
  <2>4. ASSUME NEW i \in 1..c
        PROVE  /\ ask'.left[i] = ask'.for[(a + 1) + i]
               /\ sent'[ask'.left[i]] # 1
    <3>1. i + 1 \in 1..b /\ i + 1 # 1
      BY <1>6
    <3>3. (a + 1) + i = a + (i + 1)
      OBVIOUS
    <3>2. ask'.left[i] = ask.left[i + 1]
      BY <1>8, <1>6
    <3> QED
      BY <1>8, <1>14, <1>10, <3>1, <3>2, <3>3
  <2>5. UnderWay'
    BY <2>1, <2>2, <2>3, <2>4 DEF UnderWay, Heard
  <2>6. /\ \A i, j \in 1..Len(ask'.for) : ask'.for[i] = ask'.for[j] => i = j
        /\ \A q \in Far!Remotes : sent'[q] = 1 =>
             manager'[q] = "on" /\ \E i \in 1..Len(ask'.for) : ask'.for[i] = q
        /\ \/ ask'.reads /\ \A i \in 1..Len(ask'.for) : manager'[ask'.for[i]] = "on"
           \/ Len(ask'.for) <= 1
    BY <1>8, <1>14 DEF RemoteInv
  <2> QED
    BY <1>13, <1>14, <2>1, <2>5, <2>6 DEF RemoteInv
<1> QED
  BY <1>15, <1>16

(* The next remote cannot be asked.                                        *)
LEMMA RemoteRefuses == ASSUME RemoteInv, Far!CannotAsk PROVE RemoteInv'
<1>1. /\ ask.outcome = "asking" /\ UNCHANGED <<manager, sent>>
      /\ \/ manager[Head(ask.left)] # "on" /\ Far!End("refused")
         \/ Far!End("unsupported")
  BY DEF Far!CannotAsk, Far!Asking, Far!Refuse
<1>2. UnderWay /\ ask.left \in Seq(Far!Remotes)
  BY <1>1 DEF RemoteInv, RemoteTypes
<1>3. CASE manager[Head(ask.left)] # "on" /\ Far!End("refused")
  <2>1. PICK a \in Nat, b \in Nat : a = Len(ask.answered) /\ b = Len(ask.left)
    BY DEF RemoteInv, RemoteTypes
  <2>2. Head(ask.left) = ask.left[1] /\ b # 0
    BY <1>2, <2>1 DEF UnderWay
  <2>3. 1 \in 1..b /\ a + 1 \in 1..(a + b)
    BY <2>2
  <2>4. /\ Len(ask.for) = a + b /\ ask.left[1] = ask.for[a + 1]
        /\ \A i \in 1..b : ask.left[i] = ask.for[a + i]
        /\ \A i \in 1..b : sent[ask.left[i]] # 1
    BY <1>1, <1>2, <2>1, <2>3 DEF UnderWay
  <2>5. manager[ask.for[a + 1]] # "on" /\ a + 1 \in 1..Len(ask.for)
    BY <1>3, <2>2, <2>3, <2>4
  <2>6. Len(ask.for) <= 1
    BY <2>5 DEF RemoteInv
  <2>7. a = 0 /\ b = 1
    BY <2>2, <2>4, <2>6
  <2>8. ASSUME NEW r \in Far!Remotes, sent[r] = 1 PROVE FALSE
    <3>1. PICK i \in 1..Len(ask.for) : ask.for[i] = r
      BY <2>8 DEF RemoteInv
    <3>2. i = 1
      BY <2>4, <2>7
    <3> QED
      BY <2>3, <2>4, <2>7, <2>8, <3>1, <3>2
  <2>9. \A r \in Far!Remotes : sent[r] = 0
    BY <2>8 DEF RemoteInv, RemoteTypes
  <2> QED
    BY <1>1, <1>3, <2>9, RemoteEnds DEF Far!Outcomes
<1>4. CASE Far!End("unsupported")
  BY <1>1, <1>4, RemoteEnds DEF Far!Outcomes
<1> QED
  BY <1>1, <1>3, <1>4

(* A built-in demonstration answers, or refuses a call.                    *)
LEMMA RemoteDemo == ASSUME RemoteInv, NEW r \in Far!Remotes, Far!AskDemo(r) PROVE RemoteInv'
<1>1. /\ ask.outcome = "asking" /\ r = Head(ask.left) /\ UNCHANGED <<manager, sent>>
      /\ Transport[r] = "demo"
      /\ Far!Answered \/ (~ask.reads /\ Far!End("refused"))
  BY DEF Far!AskDemo, Far!Asking
<1>2. CASE Far!Answered
  BY <1>1, <1>2, RemoteAnswers DEF Heard
<1>3. CASE ~ask.reads /\ Far!End("refused")
  <2>1. UnderWay /\ Len(ask.for) <= 1
    BY <1>1, <1>3 DEF RemoteInv
  <2>2. PICK a \in Nat, b \in Nat : a = Len(ask.answered) /\ b = Len(ask.left)
    BY DEF RemoteInv, RemoteTypes
  <2>3. b # 0
    BY <2>1, <2>2 DEF UnderWay, RemoteInv, RemoteTypes
  <2>4. Len(ask.for) = a + b
    BY <2>1, <2>2 DEF UnderWay
  <2>5. a = 0 /\ b = 1
    BY <2>1, <2>3, <2>4
  <2>6. ask.left[1] = ask.for[1] /\ sent[ask.left[1]] # 1
    BY <1>1, <2>1, <2>2, <2>5 DEF UnderWay
  <2>7. ASSUME NEW q \in Far!Remotes, sent[q] = 1 PROVE FALSE
    <3>1. PICK i \in 1..Len(ask.for) : ask.for[i] = q
      BY <2>7 DEF RemoteInv
    <3>2. i = 1
      BY <2>4, <2>5
    <3> QED
      BY <2>6, <2>7, <3>1, <3>2
  <2>8. \A q \in Far!Remotes : sent[q] = 0
    BY <2>7 DEF RemoteInv, RemoteTypes
  <2> QED
    BY <1>1, <1>3, <2>8, RemoteEnds DEF Far!Outcomes
<1> QED
  BY <1>1, <1>2, <1>3

(* A request is sent to the next remote.                                   *)
LEMMA RemoteSends == ASSUME RemoteInv, NEW r \in Far!Remotes, Far!SendTo(r) PROVE RemoteInv'
<1>1. /\ ask.outcome = "asking" /\ r = Head(ask.left) /\ manager' = manager
      /\ manager[r] = "on" /\ sent' = [sent EXCEPT ![r] = sent[r] + 1]
      /\ ask' = [ask EXCEPT !.outcome = "waiting"]
  BY DEF Far!SendTo, Far!Asking, Far!Refuse
<1>2. /\ UnderWay /\ RemoteTypes /\ ask.left \in Seq(Far!Remotes)
      /\ ask.for \in Seq(Far!Remotes)
  BY <1>1 DEF RemoteInv, RemoteTypes
<1>3. PICK a \in Nat, b \in Nat :
        a = Len(ask.answered) /\ b = Len(ask.left) /\ b # 0 /\ r = ask.left[1]
  <2>1. Len(ask.answered) \in Nat /\ Len(ask.left) \in Nat
    BY <1>2 DEF RemoteTypes
  <2>2. ask.left # << >>
    BY <1>2 DEF UnderWay
  <2>3. Len(ask.left) # 0 /\ Head(ask.left) = ask.left[1]
    BY <1>2, <2>2
  <2> QED
    BY <1>1, <2>1, <2>3
<1>4. /\ Len(ask.for) = a + b
      /\ \A i \in 1..a : ask.answered[i] = ask.for[i] /\ Heard(ask.for[i])
      /\ \A i \in 1..b : ask.left[i] = ask.for[a + i]
      /\ \A i \in 1..b : sent[ask.left[i]] # 1
  BY <1>1, <1>2, <1>3 DEF UnderWay
<1>5. 1 \in 1..b /\ a + 1 \in 1..(a + b) /\ \A i \in 1..b : a + i \in 1..(a + b)
  <2>1. \A i \in 1..b : a + i \in 1..(a + b)
    OBVIOUS
  <2>2. 1 \in 1..b
    BY <1>3
  <2> QED
    BY <2>1, <2>2
<1>6. sent[r] = 0 /\ r = ask.for[a + 1]
  BY <1>2, <1>3, <1>4, <1>5 DEF RemoteTypes
<1>7. sent' = [sent EXCEPT ![r] = 1]
  BY <1>1, <1>6
<1>8. /\ ask' \in [reads : BOOLEAN, for : Seq(Far!Remotes), left : Seq(Far!Remotes),
                   answered : Seq(Far!Remotes),
                   outcome : Far!Outcomes \cup {"none", "asking", "waiting"}]
      /\ ask'.for = ask.for /\ ask'.reads = ask.reads /\ ask'.outcome = "waiting"
      /\ ask'.left = ask.left /\ ask'.answered = ask.answered
  <2>1. PICK old \in [reads : BOOLEAN, for : Seq(Far!Remotes), left : Seq(Far!Remotes),
                      answered : Seq(Far!Remotes),
                      outcome : Far!Outcomes \cup {"none", "asking", "waiting"}] : old = ask
    BY <1>2 DEF RemoteTypes
  <2> QED
    BY <1>1, <2>1
<1>9. /\ RemoteTypes' /\ sent'[r] = 1
      /\ \A q \in Far!Remotes \ {r} : sent'[q] = sent[q]
  BY <1>2, <1>7, <1>8 DEF RemoteTypes
<1>10. \A i, j \in 1..Len(ask.for) : ask.for[i] = ask.for[j] => i = j
  BY DEF RemoteInv
<1>11. ASSUME NEW i \in 1..b
       PROVE  sent'[ask.left[i]] = 1 <=> i = 1
  <2>1. CASE i = 1
    BY <1>3, <1>9, <2>1
  <2>2. CASE i # 1
    <3>1. a + i \in 1..Len(ask.for) /\ a + 1 \in 1..Len(ask.for) /\ a + i # a + 1
      BY <1>4, <1>5, <2>2
    <3>2. ask.left[i] # r
      BY <1>4, <1>6, <1>10, <3>1
    <3>3. ask.left[i] \in Far!Remotes
      BY <1>2, <1>3
    <3> QED
      BY <1>4, <1>9, <2>2, <3>2, <3>3
  <2> QED
    BY <2>1, <2>2
<1>12. ASSUME NEW i \in 1..a
       PROVE  Transport[ask.for[i]] = "demo" \/ sent'[ask.for[i]] = 1
  <2>1. ask.for[i] \in Far!Remotes
    BY <1>2, <1>4
  <2> QED
    BY <1>4, <1>9, <2>1 DEF Heard
<1>13. UnderWay'
  <2>1. /\ ask'.left # << >> /\ Len(ask'.for) = Len(ask'.answered) + Len(ask'.left)
        /\ a = Len(ask'.answered) /\ b = Len(ask'.left)
    BY <1>2, <1>3, <1>8 DEF UnderWay
  <2>2. /\ \A i \in 1..a : ask'.answered[i] = ask'.for[i]
        /\ \A i \in 1..a : Transport[ask'.for[i]] = "demo" \/ sent'[ask'.for[i]] = 1
        /\ \A i \in 1..b : ask'.left[i] = ask'.for[a + i]
        /\ \A i \in 1..b : sent'[ask'.left[i]] = 1 <=> i = 1 /\ ask'.outcome = "waiting"
    BY <1>4, <1>8, <1>11, <1>12, ZenonT(40)
  <2> QED
    BY <2>1, <2>2 DEF UnderWay, Heard
<1>14. manager # Far!NoManager
  BY <1>1 DEF RemoteInv, Far!Idle
<1>15. ASSUME NEW q \in Far!Remotes, sent'[q] = 1
       PROVE  manager[q] = "on" /\ \E i \in 1..Len(ask.for) : ask.for[i] = q
  <2>1. CASE q = r
    BY <1>1, <1>4, <1>5, <1>6, <2>1
  <2>2. CASE q # r
    BY <1>9, <1>15, <2>2 DEF RemoteInv
  <2> QED
    BY <2>1, <2>2
<1> QED
  BY <1>1, <1>8, <1>9, <1>13, <1>14, <1>15 DEF RemoteInv
(* What comes back; a result counts as heard only if it was asked for.     *)
LEMMA RemoteReceives == ASSUME RemoteInv, NEW word \in Far!Replies, Far!Receive(word)
                        PROVE RemoteInv'
<1> DEFINE how == IF Head(ask.left) \in Agents THEN Far!AgentOutcome(word)
                  ELSE Far!McpOutcome(word)
<1>1. /\ ask.outcome = "waiting" /\ UNCHANGED <<manager, sent>>
      /\ IF how = "ok" THEN Far!Answered ELSE Far!End(how)
  BY DEF Far!Receive
<1>2. how \in {"ok", "failed", "raised"}
  BY DEF Far!Replies, Far!AgentOutcome, Far!McpOutcome
<1> HIDE DEF how
<1>3. CASE how = "ok"
  <2>1. UnderWay /\ ask.left \in Seq(Far!Remotes)
    BY <1>1 DEF RemoteInv, RemoteTypes
  <2>2. ask.left # << >>
    BY <2>1 DEF UnderWay
  <2>3. Head(ask.left) = ask.left[1] /\ 1 \in 1..Len(ask.left)
    BY <2>1, <2>2
  <2>4. sent[ask.left[1]] = 1
    BY <1>1, <2>1, <2>3 DEF UnderWay
  <2> QED
    BY <1>1, <1>3, <2>3, <2>4, RemoteAnswers DEF Heard
<1>4. CASE how # "ok"
  <2>1. how \in Far!Outcomes \ {"ok"} /\ how # "refused"
    BY <1>2, <1>4 DEF Far!Outcomes
  <2> QED
    BY <1>1, <1>4, <2>1, RemoteEnds
<1> QED
  BY <1>3, <1>4

(* The list of the servers that are on.                                    *)
LEMMA RemoteLists == ASSUME RemoteInv, Far!ListTools PROVE RemoteInv'
<1> DEFINE S == {s \in Far!ServerSet : manager[s] = "on"}
           names == Filtered(Servers, S)
<1>1. Far!EnabledServers = names
  <2>1. Far!Filtered(Servers, S) = Filtered(Servers, S)
    BY DEF Far!Filtered, Filtered
  <2> QED
    BY <2>1 DEF Far!EnabledServers
<1>2. Servers \in Seq(Far!ServerSet)
  BY AgentAssumption
<1>3. \A i, j \in 1..Len(Servers) : Servers[i] = Servers[j] => i = j
  BY <1>2, AgentAssumption DEF Far!IsInjective
<1>4. /\ names \in Seq(Far!ServerSet)
      /\ \A j \in 1..Len(names) : names[j] \in S
      /\ \A i, j \in 1..Len(names) : names[i] = names[j] => i = j
  <2> HIDE DEF S
  <2> QED
    BY <1>2, <1>3, FilterKeeps
<1>5. names \in Seq(Far!Remotes) /\ \A j \in 1..Len(names) : manager[names[j]] = "on"
  <2> HIDE DEF names
  <2> QED
    BY <1>4 DEF Far!Remotes
<1>6. Far!Request(TRUE, names) /\ TRUE \in BOOLEAN
  BY <1>1 DEF Far!ListTools
<1> HIDE DEF names
<1> QED
  BY <1>4, <1>5, <1>6, RemoteRequest

(* A request for one remote.                                               *)
LEMMA RemoteAsks ==
  ASSUME RemoteInv, NEW reads \in BOOLEAN, NEW r \in Far!Remotes, Far!Request(reads, <<r>>)
  PROVE  RemoteInv'
<1>1. <<r>> \in Seq(Far!Remotes) /\ Len(<<r>>) = 1
  OBVIOUS
<1>2. PICK names \in Seq(Far!Remotes) : Far!Request(reads, names) /\ Len(names) = 1
  BY <1>1, Zenon
<1>3. Len(names) <= 1 /\ \A i, j \in 1..Len(names) : names[i] = names[j] => i = j
  BY <1>2
<1> QED
  BY <1>2, <1>3, RemoteRequest, Zenon

(* Whatever the remotes, the clients and the settings page do.             *)
LEMMA RemoteNext == ASSUME RemoteInv, Far!Next PROVE RemoteInv'
<1>1. ASSUME NEW given \in Loaded, Far!Build(given) PROVE RemoteInv'
  <2>1. ask = Far!Idle /\ (\A r \in Far!Remotes : sent[r] = 0) /\ UNCHANGED <<ask, sent>>
    BY <1>1 DEF RemoteInv, Far!Build
  <2>2. Len(ask.for) = 0 /\ ask.outcome = "none"
    BY <2>1 DEF Far!Idle
  <2> QED
    BY <2>1, <2>2 DEF RemoteInv, RemoteTypes
<1>2. ASSUME NEW r \in Far!Remotes, NEW to \in {"absent", "off", "on"}, Far!Switch(r, to)
      PROVE  RemoteInv'
  BY <1>2 DEF Far!Switch, RemoteInv, RemoteTypes, UnderWay, Heard
<1>3. ASSUME NEW reads \in BOOLEAN, NEW s \in Far!ServerSet, Far!AskServer(reads, s)
      PROVE  RemoteInv'
  BY <1>3, RemoteAsks DEF Far!AskServer, Far!Remotes
<1>4. ASSUME NEW reads \in BOOLEAN, NEW key \in Agents \cup {Default}, Far!AskAgent(reads, key)
      PROVE  RemoteInv'
  BY <1>4, RemoteAsks, AgentAssumption DEF Far!AskAgent, Far!Remotes
<1>5. ASSUME NEW r \in Far!Remotes, Far!AskDemoServer(r) \/ Far!AskDemoAgent(r) \/ Far!SendTo(r)
      PROVE  RemoteInv'
  BY <1>5, RemoteDemo, RemoteSends DEF Far!AskDemoServer, Far!AskDemoAgent
<1> QED
  BY <1>1, <1>2, <1>3, <1>4, <1>5, RemoteLists, RemoteRefuses, RemoteReceives DEF Far!Next

(* For any servers, agents and answers: a request reaches each remote at   *)
(* most once and only one that was switched on when its manager was built, *)
(* one that succeeds heard from everyone it asked, in order, and one that  *)
(* the client refuses was sent to nobody.                                  *)
THEOREM RemotesAreSound == AgentSpec => []RemoteSound
<1>1. AgentInit => RemoteInv
  <2> SUFFICES ASSUME AgentInit PROVE RemoteInv
    OBVIOUS
  <2>1. ask = Far!Idle /\ sent = [r \in Far!Remotes |-> 0]
    BY DEF AgentInit, Far!Init
  <2>2. << >> \in Seq(Far!Remotes) /\ Len(<< >>) = 0
    OBVIOUS
  <2>3. RemoteTypes
    BY <2>1, <2>2 DEF RemoteTypes, Far!Idle
  <2>4. /\ ask.for = << >> /\ ask.outcome = "none"
        /\ \A r \in Far!Remotes : sent[r] = 0
    BY <2>1 DEF Far!Idle
  <2> QED
    BY <2>1, <2>2, <2>3, <2>4 DEF RemoteInv
<1>2. RemoteInv /\ [AgentNext]_agentVars => RemoteInv'
  <2> SUFFICES ASSUME RemoteInv, [AgentNext]_agentVars PROVE RemoteInv'
    OBVIOUS
  <2>1. ASSUME UNCHANGED remoteVars PROVE RemoteInv'
    <3>1. /\ remotes' = remotes /\ manager' = manager /\ changes' = changes
          /\ ask' = ask /\ sent' = sent
      BY <2>1 DEF remoteVars
    <3>2. RemoteTypes'
      BY <3>1 DEF RemoteInv, RemoteTypes
    <3>3. UnderWay' <=> UnderWay
      BY ONLY <3>1 DEF UnderWay, Heard
    <3>4. \A r : Heard(r)' <=> Heard(r)
      BY ONLY <3>1 DEF Heard
    <3> QED
      BY <3>1, <3>2, <3>3, <3>4 DEF RemoteInv
  <2> QED
    BY <2>1, RemoteNext DEF AgentNext, agentVars
<1>3. RemoteInv => RemoteSound
  <2> SUFFICES ASSUME RemoteInv PROVE Far!RemoteSound
    BY DEF RemoteSound
  <2>1. sent \in [Far!Remotes -> {0, 1}] /\ ask.for \in Seq(Far!Remotes)
    BY DEF RemoteInv, RemoteTypes
  <2>2. ASSUME NEW r \in Far!Remotes
        PROVE  sent[r] <= 1 /\ (sent[r] = 1 => manager[r] = "on" /\ Far!Contains(ask.for, r))
    BY <2>1 DEF RemoteInv, Far!Contains
  <2>3. ASSUME ask.outcome = "ok", NEW r \in Far!ToSet(ask.for)
        PROVE  Transport[r] = "demo" \/ sent[r] = 1
    <3>1. PICK i \in 1..Len(ask.for) : r = ask.for[i]
      BY <2>1 DEF Far!ToSet
    <3> QED
      BY <2>3, <3>1 DEF RemoteInv, Heard
  <2> QED
    BY <2>2, <2>3 DEF RemoteInv, Far!RemoteSound
<1> QED
  BY <1>1, <1>2, <1>3, PTL DEF AgentSpec

(* What leaves the process does so because the task asks for it, once and  *)
(* to a remote that is on.                                                 *)
THEOREM OutsideIsSound == AgentSpec => []OutsideSound
<1>1. SelectionSound /\ RemoteSound => OutsideSound
  BY DEF OutsideSound
<1> QED
  BY <1>1, SelectionIsSound, RemotesAreSound, PTL

-----------------------------------------------------------------------------
(* StepLoop.  What the sum of a function is made of.                       *)
Sums(f, S, h) ==
  /\ \A s \in SUBSET S : h[s] \in Nat
  /\ h[{}] = 0
  /\ \A s \in SUBSET S : s # {} =>
       LET x == CHOOSE x \in s : TRUE IN h[s] = f[x] + h[s \ {x}]

(* The sum over a finite set is reached by adding one element after the    *)
(* other.                                                                  *)
LEMMA SumUnfolds ==
  ASSUME NEW S, IsFiniteSet(S), NEW f \in [S -> Nat]
  PROVE  \E h : Sums(f, S, h) /\ Step!SumFunction(f) = h[S]
<1> DEFINE First(s) == CHOOSE x \in s : TRUE
           m == [s \in SUBSET S |-> Cardinality(s)]
           n == [s \in SUBSET S |-> s \ {First(s)}]
           gain == [s \in (SUBSET S) \ {{}} |-> [r \in Nat |-> f[First(s)] + r]]
           N == Cardinality(S)
<1>1. N \in Nat /\ \A s \in SUBSET S : IsFiniteSet(s) /\ Cardinality(s) \in 0..N
  BY FS_Subset, FS_CardinalityType
<1>2. \A s \in (SUBSET S) \ {{}} : First(s) \in s
  OBVIOUS
<1>3. m \in [SUBSET S -> 0..N] /\ n \in [SUBSET S -> SUBSET S]
  BY <1>1
<1>4. gain \in [(SUBSET S) \ {{}} -> [Nat -> Nat]]
  BY <1>2
<1>5. \A s \in (SUBSET S) \ {{}} : m[n[s]] < m[s]
  <2> SUFFICES ASSUME NEW s \in (SUBSET S) \ {{}} PROVE m[n[s]] < m[s]
    OBVIOUS
  <2>1. n[s] = s \ {First(s)} /\ n[s] \in SUBSET S
    BY <1>3
  <2>2. m[s] = Cardinality(s) /\ m[n[s]] = Cardinality(n[s])
    BY <2>1
  <2> HIDE DEF First
  <2>3. Cardinality(s \ {First(s)}) = Cardinality(s) - 1
    BY <1>1, <1>2, FS_RemoveElement
  <2> QED
    BY <1>1, <2>1, <2>2, <2>3
<1>6. \E h \in [SUBSET S -> Nat] :
        h = [s \in SUBSET S |-> IF s \in {{}} THEN 0 ELSE gain[s][h[n[s]]]]
  <2> DEFINE X == SUBSET S
             stop == {{}}
  <2>1. stop \in SUBSET X /\ 0 \in Nat
    OBVIOUS
  <2> HIDE DEF m, n, gain, N
  <2>2. /\ m \in [X -> 0..N] /\ n \in [X -> X] /\ gain \in [X \ stop -> [Nat -> Nat]]
        /\ \A s \in X \ stop : m[n[s]] < m[s]
    BY <1>3, <1>4, <1>5
  <2> HIDE DEF X, stop
  <2>3. N \in Nat
    BY <1>1
  <2>4. \E h \in [X -> Nat] : Recurses(h, X, n, stop, 0, gain)
    BY ONLY <2>1, <2>2, <2>3, DescentDefines
  <2> QED
    BY <2>4 DEF X, stop, Recurses
<1>7. PICK h \in [SUBSET S -> Nat] :
        h = [s \in SUBSET S |-> IF s = {} THEN 0 ELSE f[First(s)] + h[s \ {First(s)}]]
  <2>1. PICK h \in [SUBSET S -> Nat] :
          h = [s \in SUBSET S |-> IF s \in {{}} THEN 0 ELSE gain[s][h[n[s]]]]
    BY <1>6
  <2>2. ASSUME NEW s \in SUBSET S, s # {}
        PROVE  gain[s][h[n[s]]] = f[First(s)] + h[s \ {First(s)}]
    <3>1. n[s] = s \ {First(s)} /\ h[s \ {First(s)}] \in Nat
      OBVIOUS
    <3> HIDE DEF First
    <3> QED
      BY <2>2, <3>1
  <2> HIDE DEF gain, n, First
  <2>3. h = [s \in SUBSET S |-> IF s = {} THEN 0 ELSE f[First(s)] + h[s \ {First(s)}]]
    BY <2>1, <2>2
  <2> QED
    BY <2>3
<1> DEFINE sum == CHOOSE iter :
        iter = [s \in SUBSET S |-> IF s = {} THEN 0 ELSE f[First(s)] + iter[s \ {First(s)}]]
<1>8. sum = [s \in SUBSET S |-> IF s = {} THEN 0 ELSE f[First(s)] + sum[s \ {First(s)}]]
  <2> HIDE DEF First
  <2> QED
    BY <1>7
<1>9. Step!SumFunction(f) = sum[S]
  <2>1. DOMAIN f = S
    OBVIOUS
  <2> QED
    BY <2>1 DEF Step!SumFunction, Step!SumFunctionOnSet, Step!FoldFunctionOnSet, Step!MapThenFoldSet
<1>10. Sums(f, S, sum)
  <2> DEFINE G == {k \in Nat : \A s \in SUBSET S : Cardinality(s) = k => sum[s] \in Nat}
  <2>1. \A s \in SUBSET S : s # {} => sum[s] = f[First(s)] + sum[s \ {First(s)}]
    <3> HIDE DEF sum, First
    <3> QED
      BY <1>8
  <2>2. sum[{}] = 0
    BY <1>8
  <2> HIDE DEF sum
  <2>3. 0 \in G
    <3>1. ASSUME NEW s \in SUBSET S, Cardinality(s) = 0 PROVE sum[s] \in Nat
      <4>1. s = {}
        BY <1>1, <3>1, FS_EmptySet
      <4> QED
        BY <2>2, <4>1
    <3> QED
      BY <3>1
  <2>4. ASSUME NEW k \in Nat, k \in G PROVE k + 1 \in G
    <3>1. ASSUME NEW s \in SUBSET S, Cardinality(s) = k + 1 PROVE sum[s] \in Nat
      <4>1. s # {}
        <5>1. Cardinality({}) = 0 /\ k + 1 # 0
          BY FS_EmptySet
        <5> QED
          BY <3>1, <5>1
      <4>2. First(s) \in s /\ s \ {First(s)} \in SUBSET S
        BY <4>1
      <4> HIDE DEF First
      <4>3. Cardinality(s \ {First(s)}) = k
        <5>1. Cardinality(s \ {First(s)}) = Cardinality(s) - 1
          BY <1>1, <4>2, FS_RemoveElement
        <5>2. (k + 1) - 1 = k
          OBVIOUS
        <5> QED
          BY <3>1, <5>1, <5>2
      <4>4. sum[s \ {First(s)}] \in Nat
        BY <2>4, <4>2, <4>3
      <4>5. f[First(s)] \in Nat
        BY <4>2
      <4>6. sum[s] = f[First(s)] + sum[s \ {First(s)}]
        BY <2>1, <4>1
      <4> QED
        BY <4>4, <4>5, <4>6
    <3> QED
      BY <3>1
  <2>5. \A s \in SUBSET S : sum[s] \in Nat
    <3> HIDE DEF G
    <3>1. \A k \in 0..N : k \in G
      BY <1>1, <2>3, <2>4, CountUp
    <3> USE DEF G
    <3> HIDE DEF N
    <3> QED
      BY <1>1, <3>1
  <2> QED
    BY <2>1, <2>2, <2>5 DEF Sums
<1> HIDE DEF sum
<1> QED
  BY <1>9, <1>10

(* One more at one place is one more in all; and a sum of noughts is none. *)
LEMMA SumCounts ==
  ASSUME NEW S, IsFiniteSet(S), NEW f \in [S -> Nat]
  PROVE  /\ Step!SumFunction(f) \in Nat
         /\ (\A x \in S : f[x] = 0) => Step!SumFunction(f) = 0
         /\ \A t \in S : Step!SumFunction([f EXCEPT ![t] = f[t] + 1]) = Step!SumFunction(f) + 1
<1> DEFINE First(s) == CHOOSE x \in s : TRUE
           N == Cardinality(S)
<1>1. N \in Nat /\ \A s \in SUBSET S : IsFiniteSet(s) /\ Cardinality(s) \in 0..N
  BY FS_Subset, FS_CardinalityType
<1>2. PICK h : Sums(f, S, h) /\ Step!SumFunction(f) = h[S]
  BY SumUnfolds
<1>3. ASSUME NEW H, \A s \in SUBSET S : s = {} => s \in H,
             \A s \in SUBSET S : s # {} /\ s \ {First(s)} \in H => s \in H
      PROVE  S \in H
  <2> DEFINE G == {k \in Nat : \A s \in SUBSET S : Cardinality(s) = k => s \in H}
  <2>1. 0 \in G
    <3>1. \A s \in SUBSET S : Cardinality(s) = 0 => s = {}
      BY <1>1, FS_EmptySet
    <3> HIDE DEF First
    <3> QED
      BY <1>3, <3>1
  <2>2. ASSUME NEW k \in Nat, k \in G PROVE k + 1 \in G
    <3>1. ASSUME NEW s \in SUBSET S, Cardinality(s) = k + 1 PROVE s \in H
      <4>1. s # {}
        <5>1. Cardinality({}) = 0 /\ k + 1 # 0
          BY FS_EmptySet
        <5> QED
          BY <3>1, <5>1
      <4>2. First(s) \in s /\ s \ {First(s)} \in SUBSET S
        BY <4>1
      <4> HIDE DEF First
      <4>3. Cardinality(s \ {First(s)}) = k
        <5>1. Cardinality(s \ {First(s)}) = Cardinality(s) - 1
          BY <1>1, <4>2, FS_RemoveElement
        <5>2. (k + 1) - 1 = k
          OBVIOUS
        <5> QED
          BY <3>1, <5>1, <5>2
      <4> QED
        BY <1>3, <2>2, <4>1, <4>2, <4>3
    <3> QED
      BY <3>1
  <2>3. N \in G
    <3> HIDE DEF G
    <3>1. \A k \in 0..N : k \in G
      BY <1>1, <2>1, <2>2, CountUp
    <3> QED
      BY <1>1, <3>1
  <2> QED
    BY <2>3
<1>4. ASSUME \A x \in S : f[x] = 0 PROVE h[S] = 0
  <2> DEFINE H == {s \in SUBSET S : h[s] = 0}
  <2>1. \A s \in SUBSET S : s = {} => s \in H
    BY <1>2 DEF Sums
  <2>2. ASSUME NEW s \in SUBSET S, s # {}, s \ {First(s)} \in H PROVE s \in H
    <3>1. First(s) \in s /\ h[s] = f[First(s)] + h[s \ {First(s)}]
      BY <1>2, <2>2 DEF Sums
    <3> HIDE DEF First
    <3> QED
      BY <1>4, <2>2, <3>1
  <2>3. S \in H
    <3> HIDE DEF H, First
    <3> QED
      BY <1>3, <2>1, <2>2
  <2> QED
    BY <2>3
<1>5. ASSUME NEW t \in S PROVE Step!SumFunction([f EXCEPT ![t] = f[t] + 1]) = h[S] + 1
  <2> DEFINE f2 == [f EXCEPT ![t] = f[t] + 1]
  <2>1. f2 \in [S -> Nat] /\ f2[t] = f[t] + 1 /\ \A x \in S \ {t} : f2[x] = f[x]
    OBVIOUS
  <2> HIDE DEF f2
  <2>2. PICK g : Sums(f2, S, g) /\ Step!SumFunction(f2) = g[S]
    BY <2>1, SumUnfolds
  <2> DEFINE H == {s \in SUBSET S : g[s] = IF t \in s THEN h[s] + 1 ELSE h[s]}
  <2>3. \A s \in SUBSET S : s = {} => s \in H
    BY <1>2, <2>2 DEF Sums
  <2>4. ASSUME NEW s \in SUBSET S, s # {}, s \ {First(s)} \in H PROVE s \in H
    <3>1. /\ First(s) \in s /\ h[s] = f[First(s)] + h[s \ {First(s)}]
          /\ g[s] = f2[First(s)] + g[s \ {First(s)}]
          /\ h[s \ {First(s)}] \in Nat /\ g[s \ {First(s)}] \in Nat
      BY <1>2, <2>2, <2>4 DEF Sums
    <3> HIDE DEF First
    <3>2. f[First(s)] \in Nat
      BY <3>1
    <3>3. CASE First(s) = t
      BY <2>1, <2>4, <3>1, <3>2, <3>3
    <3>4. CASE First(s) # t
      BY <2>1, <2>4, <3>1, <3>2, <3>4
    <3> QED
      BY <3>3, <3>4
  <2>5. S \in H
    <3> HIDE DEF H, First
    <3> QED
      BY <1>3, <2>3, <2>4
  <2> USE DEF f2
  <2> QED
    BY <2>2, <2>5
<1>6. h[S] \in Nat
  BY <1>2 DEF Sums
<1> QED
  BY <1>2, <1>4, <1>5, <1>6

(* The cardinality of the step loop is that of everybody else.             *)
LEMMA SameSize == ASSUME NEW S PROVE Step!Cardinality(S) = Cardinality(S)
BY DEF Step!Cardinality, Cardinality

(* Batches that leave out what is done: no request is in two of them, and  *)
(* none comes before what it depends on.                                   *)
Ordered(reqs, q) ==
  \A k \in 1..Len(q), l \in 1..Len(q) : k <= l =>
    \A i \in q[k] : \A j \in Step!DependsOn(reqs, i) : j \notin q[l]

Apart(q) == \A k \in 1..Len(q), l \in 1..Len(q) : k < l => q[k] \cap q[l] = {}

Leaves(reqs, done, q) ==
  /\ q \in Seq(SUBSET DOMAIN reqs)
  /\ \A k \in 1..Len(q) : q[k] \cap done = {}
  /\ Apart(q) /\ Ordered(reqs, q)

(* A batch of what is ready, put before the batches after it.              *)
LEMMA LeavesGrows ==
  ASSUME NEW reqs, NEW done \in SUBSET DOMAIN reqs,
         NEW first \in SUBSET DOMAIN reqs, first \cap done = {},
         \A i \in first : Step!DependsOn(reqs, i) \subseteq done,
         NEW q, Leaves(reqs, done \cup first, q)
  PROVE  Leaves(reqs, done, <<first>> \o q)
<1>1. /\ q \in Seq(SUBSET DOMAIN reqs) /\ Apart(q) /\ Ordered(reqs, q)
      /\ \A k \in 1..Len(q) : q[k] \cap (done \cup first) = {}
  BY DEF Leaves
<1>2. PICK p : p = <<first>> \o q
  OBVIOUS
<1>3. p \in Seq(SUBSET DOMAIN reqs) /\ Len(p) = Len(q) + 1 /\ p[1] = first
  BY <1>1, <1>2
<1>4. \A k \in 2..Len(p) : k - 1 \in 1..Len(q) /\ p[k] = q[k - 1]
  BY <1>1, <1>2, <1>3
<1>5. \A k \in 1..Len(p) : k = 1 \/ k \in 2..Len(p)
  BY <1>1, <1>3
<1>6. \A k \in 1..Len(p) : p[k] \cap done = {}
  BY <1>1, <1>3, <1>4, <1>5
<1>7. ASSUME NEW k \in 1..Len(p), NEW l \in 1..Len(p), k < l PROVE p[k] \cap p[l] = {}
  <2>1. l \in 2..Len(p)
    BY <1>7
  <2>2. CASE k = 1
    BY <1>1, <1>3, <1>4, <2>1, <2>2
  <2>3. CASE k \in 2..Len(p)
    <3>1. k - 1 < l - 1
      BY <1>7
    <3> QED
      BY <1>1, <1>4, <2>1, <2>3, <3>1 DEF Apart
  <2> QED
    BY <1>5, <2>2, <2>3
<1>8. ASSUME NEW k \in 1..Len(p), NEW l \in 1..Len(p), k <= l,
             NEW i \in p[k], NEW j \in Step!DependsOn(reqs, i)
      PROVE  j \notin p[l]
  <2>1. CASE k = 1
    BY <1>3, <1>6, <2>1
  <2>2. CASE k \in 2..Len(p)
    <3>1. k - 1 <= l - 1 /\ l \in 2..Len(p)
      BY <1>8, <2>2
    <3> QED
      BY <1>1, <1>4, <1>8, <2>2, <3>1 DEF Ordered
  <2> QED
    BY <1>5, <2>1, <2>2
<1>9. Apart(p)
  BY <1>7 DEF Apart
<1>10. Ordered(reqs, p)
  BY <1>8 DEF Ordered
<1>11. Leaves(reqs, done, p)
  BY <1>3, <1>6, <1>9, <1>10 DEF Leaves
<1> QED
  BY <1>2, <1>11

(* What is ready when `done' is done.                                      *)
ReadyNow(reqs, done) ==
  {i \in DOMAIN reqs \ done : Step!DependsOn(reqs, i) \subseteq done}

(* The parallel batches leave out nothing but a cycle.                     *)
LEMMA ParallelLeaves ==
  ASSUME NEW reqs \in Seq(StepTools)
  PROVE  Leaves(reqs, {}, Step!ParallelBatches(reqs))
<1> DEFINE D == DOMAIN reqs
           X == SUBSET D
           N == Cardinality(D)
           m == [d \in X |-> Cardinality(D \ d)]
           n == [d \in X |-> d \cup ReadyNow(reqs, d)]
           stop == {d \in X : ReadyNow(reqs, d) = {}}
           gain == [d \in X \ stop |-> [q \in Seq(X) |-> <<ReadyNow(reqs, d)>> \o q]]
<1>1. /\ IsFiniteSet(D) /\ N \in Nat
      /\ \A d \in X : IsFiniteSet(D \ d) /\ Cardinality(D \ d) \in 0..N
  <2>1. IsFiniteSet(D)
    BY FS_Interval
  <2> HIDE DEF D
  <2> QED
    BY <2>1, FS_Subset, FS_CardinalityType
<1>2. \A d \in X : ReadyNow(reqs, d) \in X /\ ReadyNow(reqs, d) \cap d = {}
  BY DEF ReadyNow
<1>3. m \in [X -> 0..N] /\ n \in [X -> X] /\ stop \in SUBSET X
  <2> HIDE DEF D
  <2> QED
    BY <1>1, <1>2
<1>4. gain \in [X \ stop -> [Seq(X) -> Seq(X)]]
  <2> HIDE DEF D
  <2>1. ASSUME NEW d \in X, NEW q \in Seq(X) PROVE <<ReadyNow(reqs, d)>> \o q \in Seq(X)
    BY <1>2
  <2> QED
    BY <2>1
<1>5. \A d \in X \ stop : m[n[d]] < m[d]
  <2> SUFFICES ASSUME NEW d \in X \ stop PROVE m[n[d]] < m[d]
    OBVIOUS
  <2>1. n[d] = d \cup ReadyNow(reqs, d) /\ n[d] \in X
    BY <1>3
  <2>2. m[d] = Cardinality(D \ d) /\ m[n[d]] = Cardinality(D \ n[d])
    BY <2>1
  <2>3. D \ n[d] \subseteq D \ d /\ D \ n[d] # D \ d
    BY <1>2, <2>1
  <2>4. Cardinality(D \ n[d]) < Cardinality(D \ d)
    <3> HIDE DEF D, n
    <3>1. IsFiniteSet(D \ d)
      BY <1>1
    <3>2. Cardinality(D \ n[d]) <= Cardinality(D \ d) /\ Cardinality(D \ n[d]) # Cardinality(D \ d)
      BY <2>3, <3>1, FS_Subset
    <3>3. Cardinality(D \ n[d]) \in 0..N /\ Cardinality(D \ d) \in 0..N
      BY <1>1, <2>1
    <3> HIDE DEF N
    <3> QED
      BY <1>1, <3>2, <3>3
  <2> QED
    BY <2>2, <2>4
<1>6. \E h \in [X -> Seq(X)] : Recurses(h, X, n, stop, << >>, gain)
  <2>1. << >> \in Seq(X)
    OBVIOUS
  <2> HIDE DEF X, N, m, n, stop, gain
  <2>2. N \in Nat
    BY <1>1
  <2> QED
    BY ONLY <1>3, <1>4, <1>5, <2>1, <2>2, DescentDefines
<1> DEFINE From(q) == [d \in X |-> IF ReadyNow(reqs, d) = {} THEN << >>
                                   ELSE <<ReadyNow(reqs, d)>> \o q[d \cup ReadyNow(reqs, d)]]
           from == CHOOSE q : q = From(q)
<1>7. \E h : h = From(h)
  <2>1. PICK h \in [X -> Seq(X)] : Recurses(h, X, n, stop, << >>, gain)
    BY <1>6
  <2>2. ASSUME NEW d \in X, d \notin stop
        PROVE  gain[d][h[n[d]]] = <<ReadyNow(reqs, d)>> \o h[d \cup ReadyNow(reqs, d)]
    <3>1. n[d] = d \cup ReadyNow(reqs, d) /\ n[d] \in X
      <4>1. d \cup ReadyNow(reqs, d) \in X
        BY <1>2
      <4> HIDE DEF X
      <4> QED
        BY <4>1
    <3>2. gain[d] = [q \in Seq(X) |-> <<ReadyNow(reqs, d)>> \o q]
      <4>1. d \in X \ stop
        BY <2>2
      <4> HIDE DEF X, stop
      <4> QED
        BY <4>1
    <3> HIDE DEF n, X, gain
    <3>3. PICK q \in Seq(X) : q = h[n[d]]
      <4>1. PICK x \in X : x = n[d]
        BY ONLY <3>1
      <4>2. h[x] \in Seq(X)
        BY ONLY h \in [X -> Seq(X)], x \in X
      <4> QED
        BY ONLY <4>1, <4>2, SMTT(40)
    <3>4. gain[d][q] = <<ReadyNow(reqs, d)>> \o q
      BY ONLY <3>2, q \in Seq(X)
    <3> QED
      BY ONLY <3>1, <3>3, <3>4
  <2> HIDE DEF gain, n
  <2>3. h = From(h)
    BY <2>1, <2>2, ZenonT(40) DEF Recurses
  <2> QED
    BY <2>3
<1>8. from = From(from)
  <2> HIDE DEF From
  <2> QED
    BY <1>7
<1>9. Step!ParallelBatches(reqs) = from[{}]
  BY DEF Step!ParallelBatches, ReadyNow
<1> HIDE DEF from, m, n, gain
<1> DEFINE H == {d \in X : Leaves(reqs, d, from[d])}
           G == {k \in Nat : \A d \in X : Cardinality(D \ d) = k => d \in H}
           L == {k \in Nat : \A j \in 0..k : j \in G}
<1>10. ASSUME NEW d \in X, \A e \in X : Cardinality(D \ e) < Cardinality(D \ d) => e \in H
       PROVE  d \in H
  <2>1. CASE ReadyNow(reqs, d) = {}
    <3>1. from[d] = << >>
      BY <1>8, <2>1
    <3>2. 1..Len(<< >>) = {} /\ << >> \in Seq(SUBSET DOMAIN reqs)
      OBVIOUS
    <3>3. Leaves(reqs, d, << >>)
      BY <3>2 DEF Leaves, Apart, Ordered
    <3> QED
      BY <3>1, <3>3
  <2>2. CASE ReadyNow(reqs, d) # {}
    <3> DEFINE r == ReadyNow(reqs, d)
    <3>1. from[d] = <<r>> \o from[d \cup r]
      BY <1>8, <2>2
    <3>2. d \cup r \in X /\ Cardinality(D \ (d \cup r)) < Cardinality(D \ d)
      <4>1. m[n[d]] < m[d] /\ n[d] \in X
        BY <1>3, <1>5, <2>2
      <4> QED
        BY <4>1 DEF m, n
    <3>3. Leaves(reqs, d \cup r, from[d \cup r])
      BY <1>10, <3>2
    <3>4. /\ r \in SUBSET DOMAIN reqs /\ r \cap d = {}
          /\ \A i \in r : Step!DependsOn(reqs, i) \subseteq d
      BY DEF ReadyNow
    <3> HIDE DEF r
    <3>5. PICK q : q = from[d \cup r]
      OBVIOUS
    <3>6. Leaves(reqs, d, <<r>> \o q)
      <4>1. Leaves(reqs, d \cup r, q)
        BY <3>3, <3>5
      <4> QED
        BY <3>4, <4>1, LeavesGrows
    <3> QED
      BY <3>1, <3>5, <3>6
  <2> QED
    BY <2>1, <2>2
<1>11. N \in L
  <2> HIDE DEF D, H
  <2>1. ASSUME NEW k \in Nat, \A j \in 0..k : j < k => j \in G PROVE k \in G
    <3>1. ASSUME NEW d \in X, Cardinality(D \ d) = k PROVE d \in H
      <4>1. ASSUME NEW e \in X, Cardinality(D \ e) < Cardinality(D \ d) PROVE e \in H
        <5>1. Cardinality(D \ e) \in 0..k /\ Cardinality(D \ e) < k
          <6>1. Cardinality(D \ e) \in 0..N
            BY <1>1
          <6> HIDE DEF N
          <6> QED
            BY <1>1, <3>1, <4>1, <6>1
        <5> QED
          BY <2>1, <5>1
      <4> QED
        BY <1>10, <4>1
    <3> QED
      BY <3>1
  <2> HIDE DEF G
  <2>2. 0 \in L
    <3>1. 0 \in G
      BY <2>1
    <3> QED
      BY <3>1
  <2>3. ASSUME NEW k \in Nat, k + 1 <= N, k \in L PROVE k + 1 \in L
    <3>1. k + 1 \in G
      BY <2>1, <2>3
    <3> QED
      BY <2>3, <3>1
  <2> HIDE DEF L
  <2>4. \A k \in 0..N : k \in L
    BY <1>1, <2>2, <2>3, CountUp
  <2> QED
    BY <1>1, <2>4
<1>12. {} \in H
  <2>1. {} \in X /\ Cardinality(D \ {}) = N
    OBVIOUS
  <2>2. N \in G
    BY <1>1, <1>11
  <2> HIDE DEF H, D, N, X
  <2> QED
    BY <2>1, <2>2
<1> QED
  BY <1>9, <1>12

(* The batches of a turn: every request is in one of them.                 *)
Planned(reqs, q) ==
  /\ q \in Seq(SUBSET DOMAIN reqs) /\ q # << >>
  /\ \A i \in DOMAIN reqs : \E k \in 1..Len(q) : i \in q[k]
  /\ Apart(q)
  /\ ~Step!Cyclic(reqs) => Ordered(reqs, q)

(* Whatever the model asks for is planned.                                 *)
LEMMA PlanIsPlanned ==
  ASSUME NEW reqs \in Seq(StepTools), reqs # << >>
  PROVE  Planned(reqs, Step!PlanBatches(reqs))
<1> DEFINE D == DOMAIN reqs
           q == Step!PlanBatches(reqs)
<1>1. Len(reqs) \in Nat /\ D = 1..Len(reqs) /\ Len(reqs) # 0
  OBVIOUS
<1>2. CASE Step!Cyclic(reqs)
  <2>1. q = [i \in D |-> {i}]
    BY <1>2 DEF Step!PlanBatches
  <2>2. q \in Seq(SUBSET D) /\ Len(q) = Len(reqs) /\ q # << >>
    <3>1. q \in [1..Len(reqs) -> SUBSET D]
      BY <1>1, <2>1
    <3>2. q \in Seq(SUBSET D) /\ Len(q) = Len(reqs)
      <4> HIDE DEF q, D
      <4> QED
        BY <1>1, <3>1
    <3> QED
      BY <1>1, <3>2
  <2>3. \A i \in D : q[i] = {i} /\ i \in 1..Len(q)
    BY <1>1, <2>1, <2>2
  <2>4. Apart(q)
    <3> SUFFICES ASSUME NEW k \in 1..Len(q), NEW l \in 1..Len(q), k < l PROVE q[k] \cap q[l] = {}
      BY DEF Apart
    <3>1. k \in D /\ l \in D
      BY <1>1, <2>2
    <3> HIDE DEF q, D
    <3> QED
      BY <2>3, <3>1
  <2> HIDE DEF q, D
  <2>5. \A i \in D : \E k \in 1..Len(q) : i \in q[k]
    BY <2>3
  <2> QED
    BY <1>2, <2>2, <2>4, <2>5 DEF Planned, D, q
<1>3. CASE ~Step!Cyclic(reqs)
  <2>1. q = Step!ParallelBatches(reqs)
    BY <1>3 DEF Step!PlanBatches
  <2>2. Leaves(reqs, {}, q)
    BY <2>1, ParallelLeaves
  <2>3. UNION Step!Range(q) = D
    BY <1>3, <2>1 DEF Step!Cyclic
  <2> HIDE DEF q
  <2>4. q \in Seq(SUBSET D)
    BY <2>2 DEF Leaves
  <2>5. \A i \in D : \E k \in 1..Len(q) : i \in q[k]
    <3>1. DOMAIN q = 1..Len(q)
      BY <2>4
    <3> QED
      BY <2>3, <3>1 DEF Step!Range
  <2>6. q # << >>
    <3>1. 1 \in D
      BY <1>1
    <3>2. PICK k \in 1..Len(q) : 1 \in q[k]
      BY <2>5, <3>1
    <3> QED
      BY <2>4, <3>2
  <2> QED
    BY <2>2, <2>4, <2>5, <2>6 DEF Planned, Leaves, q
<1> QED
  BY <1>2, <1>3

(* A call that is counted is one more.                                     *)
LEMMA CountsCall ==
  ASSUME used \in [StepTools -> Nat], NEW t \in StepTools, used' = [used EXCEPT ![t] = used[t] + 1]
  PROVE  Step!SumFunction(used') = Step!SumFunction(used) + 1 /\ used' \in [StepTools -> Nat]
<1>1. PICK f \in [StepTools -> Nat] : f = used
  OBVIOUS
<1>2. PICK g : g = [f EXCEPT ![t] = f[t] + 1]
  OBVIOUS
<1>3. Step!SumFunction([f EXCEPT ![t] = f[t] + 1]) = Step!SumFunction(f) + 1
  BY SumCounts, BudgetAssumption
<1>4. g \in [StepTools -> Nat] /\ used' = g
  BY <1>1, <1>2
<1> QED
  BY <1>1, <1>2, <1>3, <1>4

(* Which requests are under way: none that is in a later batch, and one at *)
(* most if the calls are not made in parallel.                             *)
Outcomes == {"waiting", "running"} \cup Step!Settled

Placed(reqs, res, q) ==
  /\ \A i \in 1..Len(reqs) : res[i] \notin Step!Settled => \E k \in 1..Len(q) : i \in q[k]
  /\ \A k \in 1..Len(q) : \A i \in q[k] : k > 1 => res[i] = "waiting"

OneByOne(res, q) ==
  q # << >> => \A i, j \in q[1] : j < i /\ res[i] # "waiting" => res[j] \in Step!Settled

TurnInv ==
  /\ requests \in Seq(StepTools) /\ Len(requests) <= MaxRequests
  /\ result \in [1..Len(requests) -> Outcomes]
  /\ batches \in Seq(SUBSET DOMAIN requests)
  /\ Apart(batches)
  /\ ~Step!Cyclic(requests) => Ordered(requests, batches)
  /\ Placed(requests, result, batches)
  /\ ~mode.parallel => OneByOne(result, batches)

(* Where the loop stands: what is running is a batch of a turn begun,      *)
(* and a call chosen by rules is the first of its step.                    *)
PlaceInv ==
  /\ mode = [strategies |-> mode.strategies, parallel |-> mode.parallel]
  /\ turn \in Nat /\ (place = "ready" => turn = 0)
  /\ place = "running" => batches # << >> /\ turn # 0
  /\ place \in {"ready", "fallback", "asking", "settled"} => batches = << >>
  /\ place \in {"ready", "fallback"} \/ (place = "asking" /\ turn = 0) =>
       requests = << >> /\ \A t \in StepTools : used[t] = 0

(* The budget, with what is under way.                                     *)
Flying(reqs, res, S) == {i \in 1..Len(reqs) : res[i] = "running" /\ reqs[i] \in S}

Over == IF mode.parallel THEN MaxRequests - 1 ELSE 0

BudgetInv ==
  /\ used \in [StepTools -> Nat]
  /\ Step!SumFunction(used) + Cardinality(Flying(requests, result, StepTools)) <= StepLimit + Over
  /\ \A t \in StepTools :
       used[t] + Cardinality(Flying(requests, result, {t})) <= ToolLimit + Over

LoopInv == TurnInv /\ PlaceInv /\ BudgetInv

(* How many may be under way.                                              *)
LEMMA FlightIsBounded ==
  ASSUME NEW reqs \in Seq(StepTools), NEW res, NEW S
  PROVE  LET F == Flying(reqs, res, S)
         IN  /\ IsFiniteSet(F) /\ Cardinality(F) \in Nat /\ Cardinality(F) <= Len(reqs)
             /\ (\A i, j \in F : i = j) => Cardinality(F) <= 1
             /\ F = {} => Cardinality(F) = 0
<1> DEFINE F == Flying(reqs, res, S)
<1>1. Len(reqs) \in Nat /\ F \in SUBSET (1..Len(reqs))
  BY DEF Flying
<1>2. IsFiniteSet(1..Len(reqs))
  BY <1>1, FS_Interval
<1>3. IsFiniteSet(F) /\ Cardinality(F) \in Nat /\ Cardinality(F) <= Len(reqs)
  <2> HIDE DEF F
  <2>1. IsFiniteSet(F)
    BY <1>1, <1>2, FS_Subset
  <2>2. Cardinality(F) <= Len(reqs)
    BY <1>1, SelectionGrows
  <2> QED
    BY <2>1, <2>2, FS_CardinalityType
<1> HIDE DEF F
<1>4. F = {} => Cardinality(F) = 0
  BY FS_EmptySet
<1>5. ASSUME \A i, j \in F : i = j, F # {} PROVE Cardinality(F) <= 1
  <2>1. PICK i \in F : F = {i}
    BY <1>5
  <2>2. Cardinality({i}) = 1
    BY FS_Singleton
  <2> QED
    BY <2>1, <2>2
<1> USE DEF F
<1> QED
  BY <1>3, <1>4, <1>5

(* No two calls are under way unless they are made in parallel.            *)
LEMMA OneAtATime ==
  ASSUME NEW reqs, NEW res, NEW q, Len(reqs) \in Nat, Len(q) \in Nat, q = << >> => Len(q) = 0,
         Placed(reqs, res, q), OneByOne(res, q)
  PROVE  \A S : \A i, j \in Flying(reqs, res, S) : i = j
<1> SUFFICES ASSUME NEW S, NEW i \in Flying(reqs, res, S), NEW j \in Flying(reqs, res, S), j < i
             PROVE  FALSE
  <2>1. \A S : \A i \in Flying(reqs, res, S) : i \in Int
    BY DEF Flying
  <2> QED
    BY <2>1
<1>1. i \in 1..Len(reqs) /\ j \in 1..Len(reqs) /\ res[i] = "running" /\ res[j] = "running"
  BY DEF Flying
<1>2. "running" \notin Step!Settled
  BY DEF Step!Settled
<1>3. PICK k \in 1..Len(q), l \in 1..Len(q) : i \in q[k] /\ j \in q[l]
  BY <1>1, <1>2 DEF Placed
<1>4. ~(k > 1) /\ ~(l > 1)
  BY <1>1, <1>3 DEF Placed
<1>5. k = 1 /\ l = 1 /\ q # << >>
  BY <1>3, <1>4
<1> QED
  BY <1>1, <1>2, <1>3, <1>5 DEF OneByOne

(* Facts about the turn and the budget that every step begins with.        *)
LEMMA LoopTypes ==
  ASSUME LoopInv
  PROVE  /\ requests \in Seq(StepTools) /\ Len(requests) \in Nat /\ Len(requests) <= MaxRequests
         /\ DOMAIN requests = 1..Len(requests) /\ DOMAIN result = 1..Len(requests)
         /\ result \in [1..Len(requests) -> Outcomes]
         /\ used \in [StepTools -> Nat] /\ Step!SumFunction(used) \in Nat /\ Over \in Nat
         /\ StepLimit \in Nat \ {0} /\ ToolLimit \in Nat \ {0} /\ MaxRequests \in Nat \ {0}
<1>1. requests \in Seq(StepTools) /\ used \in [StepTools -> Nat]
  BY DEF LoopInv, TurnInv, Placed, OneByOne, BudgetInv
<1>2. Step!SumFunction(used) \in Nat
  BY <1>1, SumCounts, BudgetAssumption
<1>3. StepLimit \in Nat \ {0} /\ ToolLimit \in Nat \ {0} /\ MaxRequests \in Nat \ {0}
  BY BudgetAssumption
<1>4. Over \in Nat
  BY <1>3 DEF Over
<1> QED
  BY <1>1, <1>2, <1>3, <1>4 DEF LoopInv, TurnInv, Placed, OneByOne

(* When nothing is left of a turn, nothing of it is under way.             *)
LEMMA NothingFlies ==
  ASSUME LoopInv, batches = << >>
  PROVE  /\ \A i \in DOMAIN result : result[i] \in Step!Settled
         /\ \A S : Flying(requests, result, S) = {}
<1>1. \A i \in DOMAIN result : result[i] \in Step!Settled
  <2>1. 1..Len(batches) = {}
    OBVIOUS
  <2> QED
    BY <2>1, LoopTypes DEF LoopInv, TurnInv, Placed, OneByOne
<1>2. "running" \notin Step!Settled
  BY DEF Step!Settled
<1> QED
  BY <1>1, <1>2, LoopTypes DEF Flying

(* A step that leaves the turn and the budget alone.                       *)
LEMMA LoopMoves ==
  ASSUME LoopInv, UNCHANGED <<requests, batches, result, used, tokens>>, mode'.parallel = mode.parallel
  PROVE  TurnInv' /\ BudgetInv'
BY DEF LoopInv, TurnInv, Placed, OneByOne, BudgetInv, Over

(* A step is started, while nothing is counted yet.                        *)
LEMMA LoopStarts ==
  ASSUME LoopInv, NEW m \in Step!Modes, NEW b \in BOOLEAN, Step!Start(m, b)
  PROVE  LoopInv'
<1>1. /\ place = "ready" /\ mode' = [strategies |-> m, parallel |-> b]
      /\ place' \in {"fallback", "asking"}
      /\ UNCHANGED <<turn, requests, batches, result, used, tokens>>
  BY DEF Step!Start, Step!turnVars, Step!budget
<1>2. batches = << >> /\ requests = << >> /\ turn = 0 /\ \A t \in StepTools : used[t] = 0
  BY <1>1 DEF LoopInv, PlaceInv
<1>3. TurnInv'
  BY <1>1, <1>2 DEF LoopInv, TurnInv, Placed, OneByOne
<1>4. PlaceInv'
  BY <1>1, <1>2 DEF LoopInv, PlaceInv
<1>5. BudgetInv'
  <2>1. Step!SumFunction(used) = 0
    BY <1>2, LoopTypes, SumCounts, BudgetAssumption
  <2>2. \A S : Cardinality(Flying(requests, result, S)) = 0
    BY <1>2, NothingFlies, FS_EmptySet
  <2>3. Over' \in Nat
    BY BudgetAssumption DEF Over
  <2> QED
    BY <1>1, <1>2, <2>1, <2>2, <2>3, LoopTypes DEF BudgetInv
<1> QED
  BY <1>3, <1>4, <1>5 DEF LoopInv

(* The model asks: the turn before has ended.                              *)
LEMMA LoopAsks ==
  ASSUME LoopInv, NEW n \in 1..MaxRequests, NEW reqs \in [1..n -> StepTools], Step!Ask(reqs)
  PROVE  LoopInv'
<1>1. /\ place = "asking" /\ turn' = turn + 1 /\ UNCHANGED <<mode, used, tokens>>
  BY DEF Step!Ask, Step!CanAsk, Step!budget
<1>2. batches = << >>
  BY <1>1 DEF LoopInv, PlaceInv
<1>3. CASE Step!TooMany(reqs)
  <2>1. place' = "settled" /\ UNCHANGED <<requests, batches, result>>
    BY <1>3 DEF Step!Ask, Step!turnVars
  <2>2. TurnInv' /\ BudgetInv'
    BY <1>1, <2>1, LoopMoves
  <2>3. PlaceInv'
    BY <1>1, <1>2, <2>1 DEF LoopInv, PlaceInv
  <2> QED
    BY <2>2, <2>3 DEF LoopInv
<1>4. CASE ~Step!TooMany(reqs)
  <2>1. /\ place' = "running" /\ requests' = reqs /\ batches' = Step!PlanBatches(reqs)
        /\ result' = [i \in DOMAIN reqs |-> "waiting"]
    BY <1>4 DEF Step!Ask
  <2>2. reqs \in Seq(StepTools) /\ Len(reqs) = n /\ reqs # << >> /\ n \in Nat /\ n <= MaxRequests
    BY BudgetAssumption
  <2>3. Planned(reqs, batches')
    BY <2>1, <2>2, PlanIsPlanned
  <2>4. /\ result' \in [1..Len(requests') -> Outcomes]
        /\ \A i \in 1..Len(requests') : result'[i] = "waiting"
    BY <2>1, <2>2 DEF Outcomes
  <2>5. TurnInv'
    <3>1. /\ requests' \in Seq(StepTools) /\ Len(requests') <= MaxRequests
          /\ batches' \in Seq(SUBSET DOMAIN requests') /\ Apart(batches')
          /\ ~Step!Cyclic(requests') => Ordered(requests', batches')
          /\ \A i \in 1..Len(requests') : \E k \in 1..Len(batches') : i \in batches'[k]
          /\ batches' # << >>
      BY <2>1, <2>2, <2>3 DEF Planned
    <3>2. \A k \in 1..Len(batches') : \A i \in batches'[k] : i \in 1..Len(requests')
      BY <2>1, <2>2, <3>1
    <3>3. ~mode'.parallel /\ batches' # << >> =>
            \A i, j \in batches'[1] : j < i /\ result'[i] # "waiting" => result'[j] \in Step!Settled
      <4>1. 1 \in 1..Len(batches')
        BY <3>1
      <4> QED
        BY <2>4, <3>2, <4>1
    <3>4. \A k \in 1..Len(batches') : \A i \in batches'[k] : k > 1 => result'[i] = "waiting"
      BY <2>4, <3>2
    <3> QED
      BY <2>4, <3>1, <3>3, <3>4 DEF TurnInv, Placed, OneByOne
  <2>6. PlaceInv'
    BY <1>1, <2>1, <2>3 DEF LoopInv, PlaceInv, Planned
  <2>7. BudgetInv'
    <3>1. \A S : Flying(requests', result', S) = {}
      BY <2>4 DEF Flying
    <3>2. \A S : Flying(requests, result, S) = {}
      BY <1>2, NothingFlies
    <3> QED
      BY <1>1, <3>1, <3>2 DEF LoopInv, BudgetInv, Over
  <2> QED
    BY <2>5, <2>6, <2>7 DEF LoopInv
<1> QED
  BY <1>3, <1>4

(* What does not concern a turn under way.                                 *)
LEMMA LoopElsewhere ==
  ASSUME LoopInv, Step!Conclude \/ Step!ModelFails \/ Step!RuleFallbackRaises
  PROVE  LoopInv'
<1>1. UNCHANGED <<requests, batches, result, used, tokens, turn>>
  BY DEF Step!Conclude, Step!ModelFails, Step!RuleFallbackRaises, Step!turnVars, Step!budget
<1>2. /\ mode'.parallel = mode.parallel
      /\ mode' = [strategies |-> mode'.strategies, parallel |-> mode'.parallel]
  <2>1. PICK s, b : mode = [strategies |-> s, parallel |-> b]
    BY DEF LoopInv, PlaceInv
  <2>2. CASE UNCHANGED mode
    BY <2>1, <2>2
  <2>3. CASE mode' = [mode EXCEPT !.strategies = Tail(mode.strategies)]
    BY <2>1, <2>3
  <2> QED
    BY <2>2, <2>3 DEF Step!Conclude, Step!ModelFails, Step!RuleFallbackRaises
<1>3. TurnInv' /\ BudgetInv'
  BY <1>1, <1>2, LoopMoves
<1>4. PlaceInv'
  <2>1. CASE Step!Conclude
    BY <1>1, <1>2, <2>1 DEF Step!Conclude, LoopInv, PlaceInv
  <2>2. CASE Step!ModelFails
    BY <1>1, <1>2, <2>2 DEF Step!ModelFails, Step!CanAsk, LoopInv, PlaceInv
  <2>3. CASE Step!RuleFallbackRaises
    BY <1>1, <1>2, <2>3 DEF Step!RuleFallbackRaises, LoopInv, PlaceInv
  <2> QED
    BY <2>1, <2>2, <2>3
<1> QED
  BY <1>3, <1>4 DEF LoopInv

(* One request begins or ends: what is under way before and after.         *)
LEMMA FlightChanges ==
  ASSUME NEW reqs \in Seq(StepTools), NEW res, NEW new, NEW i \in 1..Len(reqs), NEW S,
         \A j \in 1..Len(reqs) : j # i => new[j] = res[j]
  PROVE  /\ (reqs[i] \notin S \/ (new[i] # "running" /\ res[i] # "running")) =>
              Flying(reqs, new, S) = Flying(reqs, res, S)
         /\ reqs[i] \in S /\ new[i] # "running" /\ res[i] = "running" =>
              Cardinality(Flying(reqs, new, S)) = Cardinality(Flying(reqs, res, S)) - 1
<1> DEFINE F == Flying(reqs, res, S)
           G == Flying(reqs, new, S)
<1>1. (reqs[i] \notin S \/ (new[i] # "running" /\ res[i] # "running")) => G = F
  BY DEF Flying
<1>2. ASSUME reqs[i] \in S, new[i] # "running", res[i] = "running"
      PROVE  Cardinality(G) = Cardinality(F) - 1
  <2>1. G = F \ {i} /\ i \in F
    BY <1>2 DEF Flying
  <2>2. IsFiniteSet(F)
    BY FlightIsBounded
  <2> HIDE DEF F, G
  <2> QED
    BY <2>1, <2>2, FS_RemoveElement
<1> QED
  BY <1>1, <1>2

(* A call is checked when its turn has come.                               *)
LEMMA LoopChecks ==
  ASSUME LoopInv, NEW i \in 1..MaxRequests, Step!Check(i)
  PROVE  LoopInv'
<1> DEFINE x == IF Step!CheckCall(requests[i]) THEN "running" ELSE "failed"
           n == Len(requests)
<1>1. /\ batches # << >> /\ i \in batches[1] /\ result[i] = "waiting"
      /\ ~mode.parallel => \A j \in batches[1] : j < i => result[j] \in Step!Settled
      /\ result' = [result EXCEPT ![i] = x]
      /\ UNCHANGED <<place, mode, turn, requests, batches, used, tokens>>
  BY DEF Step!Check, Step!Scheduled, Step!budget
<1>2. /\ "waiting" \notin Step!Settled /\ "running" \notin Step!Settled /\ "failed" \in Step!Settled
      /\ x \in Outcomes /\ x # "waiting"
  BY DEF Step!Settled, Outcomes
<1>3. PICK r : r = x /\ r \in Outcomes /\ r # "waiting"
  BY <1>2
<1> HIDE DEF x
<1>4. 1 \in 1..Len(batches) /\ i \in 1..n /\ batches[1] \subseteq 1..n /\ n \in Nat
  BY <1>1, LoopTypes, SMTT(40) DEF LoopInv, TurnInv, Placed, OneByOne
<1>5. /\ result' \in [1..n -> Outcomes] /\ result'[i] = r
      /\ \A j \in 1..n : j # i => result'[j] = result[j]
  BY <1>1, <1>3, <1>4, LoopTypes
<1>6. TurnInv'
  <2>1. \A j \in 1..n : result'[j] \notin Step!Settled => \E k \in 1..Len(batches) : j \in batches[k]
    BY <1>1, <1>4, <1>5 DEF LoopInv, TurnInv, Placed, OneByOne
  <2>2. ASSUME NEW k \in 1..Len(batches), NEW j \in batches[k], k > 1 PROVE result'[j] = "waiting"
    <3>1. result[j] = "waiting" /\ j \in 1..n
      BY <2>2, LoopTypes, SMTT(40) DEF LoopInv, TurnInv, Placed, OneByOne
    <3>2. batches[1] \cap batches[k] = {}
      BY <1>4, <2>2 DEF LoopInv, TurnInv, Placed, OneByOne, Apart
    <3> QED
      BY <1>1, <1>5, <3>1, <3>2
  <2>3. ASSUME ~mode.parallel, NEW a \in batches[1], NEW b \in batches[1], b < a, result'[a] # "waiting"
        PROVE  result'[b] \in Step!Settled
    <3>1. a \in 1..n /\ b \in 1..n
      BY <1>4
    <3>2. CASE a = i
      BY <1>1, <1>5, <2>3, <3>1, <3>2
    <3>3. CASE a # i
      <4>1. result[b] \in Step!Settled
        BY <1>1, <1>5, <2>3, <3>1, <3>3 DEF LoopInv, TurnInv, Placed, OneByOne
      <4> QED
        BY <1>1, <1>2, <1>5, <3>1, <4>1
    <3> QED
      BY <3>2, <3>3
  <2> QED
    BY <1>1, <1>5, <2>1, <2>2, <2>3 DEF LoopInv, TurnInv, Placed, OneByOne
<1>7. PlaceInv'
  BY <1>1 DEF LoopInv, PlaceInv
<1>8. \A S : requests[i] \notin S \/ r # "running" =>
               Flying(requests, result', S) = Flying(requests, result, S)
  <2>1. requests \in Seq(StepTools) /\ result[i] # "running"
    BY <1>1, LoopTypes
  <2>2. PICK res, new : res = result /\ new = result'
    OBVIOUS
  <2>3. /\ new[i] = r /\ res[i] # "running"
        /\ \A j \in 1..Len(requests) : j # i => new[j] = res[j]
    BY <1>5, <2>1, <2>2
  <2>4. i \in 1..Len(requests)
    BY <1>4
  <2>5. ASSUME NEW S, requests[i] \notin S \/ r # "running"
        PROVE  Flying(requests, new, S) = Flying(requests, res, S)
    <3>1. requests[i] \notin S \/ (new[i] # "running" /\ res[i] # "running")
      BY <2>3, <2>5
    <3> QED
      BY ONLY <2>1, <2>3, <2>4, <3>1, FlightChanges
  <2> QED
    BY <2>2, <2>5
<1>9. BudgetInv'
  <2>1. Over' = Over
    BY <1>1 DEF Over
  <2>2. CASE r # "running"
    <3>1. \A S : Flying(requests, result', S) = Flying(requests, result, S)
      BY <1>8, <2>2
    <3> QED
      BY <1>1, <2>1, <3>1 DEF LoopInv, BudgetInv
  <2>3. CASE r = "running"
    <3>1. /\ Step!SumFunction(used) < StepLimit /\ used[requests[i]] < ToolLimit
          /\ requests[i] \in StepTools
      BY <1>1, <1>3, <1>4, <2>3, LoopTypes DEF Step!CheckCall, x
    <3>2. ASSUME NEW S, S \subseteq StepTools
          PROVE  /\ Cardinality(Flying(requests, result', S)) \in Nat
                 /\ Cardinality(Flying(requests, result', S)) <= Over + 1
      <4>1. /\ Cardinality(Flying(requests, result', S)) \in Nat
            /\ Cardinality(Flying(requests, result', S)) <= MaxRequests
        BY FlightIsBounded, LoopTypes
      <4>2. CASE mode.parallel
        BY <4>1, <4>2, LoopTypes DEF Over
      <4>3. CASE ~mode.parallel
        <5>1. Placed(requests, result', batches) /\ OneByOne(result', batches)
          BY <1>1, <1>6, <4>3 DEF TurnInv
        <5>2. Len(batches) \in Nat /\ (batches = << >> => Len(batches) = 0)
          BY DEF LoopInv, TurnInv
        <5>3. \A a, b \in Flying(requests, result', S) : a = b
          BY <5>1, <5>2, LoopTypes, OneAtATime
        <5>4. Cardinality(Flying(requests, result', S)) <= 1
          BY <5>3, FlightIsBounded, LoopTypes
        <5> QED
          BY <4>1, <4>3, <5>4 DEF Over
      <4> QED
        BY <4>2, <4>3
    <3>3. Step!SumFunction(used) + Cardinality(Flying(requests, result', StepTools)) <= StepLimit + Over
      BY <3>1, <3>2, LoopTypes
    <3>4. \A t \in StepTools : {t} \subseteq StepTools /\ used[t] \in Nat
      BY LoopTypes
    <3>5. ASSUME NEW t \in StepTools
          PROVE  used[t] + Cardinality(Flying(requests, result', {t})) <= ToolLimit + Over
      <4>1. CASE t = requests[i]
        <5>1. /\ Cardinality(Flying(requests, result', {t})) \in Nat
              /\ Cardinality(Flying(requests, result', {t})) <= Over + 1
          BY <3>2, <3>4
        <5>2. used[t] < ToolLimit /\ used[t] \in Nat
          BY <3>1, <3>4, <4>1
        <5> QED
          BY <5>1, <5>2, LoopTypes
      <4>2. CASE t # requests[i]
        <5>1. Flying(requests, result', {t}) = Flying(requests, result, {t})
          <6>1. requests[i] \notin {t}
            BY <4>2
          <6> QED
            BY <1>8, <6>1
        <5> QED
          BY <5>1 DEF LoopInv, BudgetInv
      <4> QED
        BY <4>1, <4>2
    <3> QED
      BY <1>1, <2>1, <3>3, <3>5, LoopTypes DEF BudgetInv
  <2> QED
    BY <2>2, <2>3
<1> QED
  BY <1>6, <1>7, <1>9 DEF LoopInv

(* A call that was under way ends; it is counted unless it raised.         *)
LEMMA CallEnds ==
  ASSUME LoopInv, NEW i \in 1..Len(requests), NEW s \in Step!Settled, result[i] = "running",
         result' = [result EXCEPT ![i] = s], UNCHANGED <<mode, requests, batches>>
  PROVE  /\ TurnInv' /\ Over' = Over
         /\ \A S : /\ Cardinality(Flying(requests, result', S)) \in Nat
                   /\ Cardinality(Flying(requests, result, S)) \in Nat
                   /\ requests[i] \in S => Cardinality(Flying(requests, result', S))
                                           = Cardinality(Flying(requests, result, S)) - 1
                   /\ requests[i] \notin S => Cardinality(Flying(requests, result', S))
                                              = Cardinality(Flying(requests, result, S))
<1> DEFINE n == Len(requests)
<1>1. "waiting" \notin Step!Settled /\ "running" \notin Step!Settled /\ s \in Outcomes
  BY DEF Step!Settled, Outcomes
<1>2. /\ result' \in [1..n -> Outcomes] /\ result'[i] = s
      /\ \A j \in 1..n : j # i => result'[j] = result[j]
  BY <1>1, LoopTypes
<1>3. \A k \in 1..Len(batches) : batches[k] \subseteq 1..n
  BY LoopTypes, SMTT(40) DEF LoopInv, TurnInv
<1>4. Placed(requests, result', batches)
  <2>1. Placed(requests, result, batches)
    BY DEF LoopInv, TurnInv
  <2>2. ASSUME NEW k \in 1..Len(batches), NEW j \in batches[k], k > 1 PROVE result'[j] = "waiting"
    <3>1. result[j] = "waiting" /\ j \in 1..n
      BY <1>3, <2>1, <2>2 DEF Placed
    <3> QED
      BY <1>2, <3>1
  <2>3. ASSUME NEW j \in 1..n, result'[j] \notin Step!Settled
        PROVE  \E k \in 1..Len(batches) : j \in batches[k]
    <3>1. result[j] \notin Step!Settled
      BY <1>1, <1>2, <2>3
    <3> QED
      BY <2>1, <3>1 DEF Placed
  <2> QED
    BY <2>2, <2>3 DEF Placed
<1>5. ASSUME ~mode.parallel PROVE OneByOne(result', batches)
  <2> SUFFICES ASSUME batches # << >>, NEW a \in batches[1], NEW b \in batches[1], b < a,
                      result'[a] # "waiting"
               PROVE  result'[b] \in Step!Settled
    BY DEF OneByOne
  <2>1. a \in 1..n /\ b \in 1..n
    <3>1. 1 \in 1..Len(batches)
      BY DEF LoopInv, TurnInv
    <3> QED
      BY <1>3, <3>1
  <2>2. result[a] # "waiting"
    BY <1>2, <2>1
  <2>3. result[b] \in Step!Settled
    BY <1>5, <2>2 DEF LoopInv, TurnInv, OneByOne
  <2> QED
    BY <1>2, <2>1, <2>3
<1>6. TurnInv'
  BY <1>2, <1>4, <1>5 DEF LoopInv, TurnInv
<1>7. PICK old, new : old = result /\ new = result'
  OBVIOUS
<1>8. requests \in Seq(StepTools)
  BY LoopTypes
<1>9. ASSUME NEW S
      PROVE  /\ Cardinality(Flying(requests, new, S)) \in Nat
             /\ Cardinality(Flying(requests, old, S)) \in Nat
             /\ requests[i] \in S => Cardinality(Flying(requests, new, S))
                                     = Cardinality(Flying(requests, old, S)) - 1
             /\ requests[i] \notin S => Flying(requests, new, S) = Flying(requests, old, S)
  <2>1. new[i] # "running" /\ old[i] = "running" /\ \A j \in 1..Len(requests) : j # i => new[j] = old[j]
    BY <1>1, <1>2, <1>7
  <2>2. i \in 1..Len(requests)
    OBVIOUS
  <2>3. Cardinality(Flying(requests, new, S)) \in Nat /\ Cardinality(Flying(requests, old, S)) \in Nat
    BY ONLY <1>8, FlightIsBounded
  <2>4. /\ requests[i] \in S => Cardinality(Flying(requests, new, S))
                                 = Cardinality(Flying(requests, old, S)) - 1
        /\ requests[i] \notin S => Flying(requests, new, S) = Flying(requests, old, S)
    BY ONLY <1>8, <2>1, <2>2, FlightChanges
  <2> QED
    BY <2>3, <2>4
<1> QED
  BY <1>6, <1>7, <1>9 DEF Over

(* The call comes back and is counted.                                     *)
LEMMA LoopFinishes ==
  ASSUME LoopInv, NEW i \in 1..MaxRequests, NEW s \in Step!Settled, NEW cost \in 0..1,
         Step!Finish(i, s, cost)
  PROVE  LoopInv'
<1>1. /\ i \in 1..Len(requests) /\ result[i] = "running"
      /\ result' = [result EXCEPT ![i] = s] /\ UNCHANGED <<place, mode, turn, requests, batches>>
      /\ used' = [used EXCEPT ![requests[i]] = used[requests[i]] + 1]
  BY LoopTypes DEF Step!Finish, Step!RecordCall
<1>2. requests[i] \in StepTools
  BY <1>1, LoopTypes
<1>3. PICK t \in StepTools : t = requests[i]
  BY <1>2
<1>4. TurnInv' /\ Over' = Over
  BY <1>1, CallEnds
<1>5. PICK old, new : old = result /\ new = result'
  OBVIOUS
<1>6. \A S : /\ Cardinality(Flying(requests, new, S)) \in Nat
             /\ Cardinality(Flying(requests, old, S)) \in Nat
             /\ t \in S => Cardinality(Flying(requests, new, S))
                           = Cardinality(Flying(requests, old, S)) - 1
             /\ t \notin S => Cardinality(Flying(requests, new, S))
                              = Cardinality(Flying(requests, old, S))
  BY <1>1, <1>3, <1>5, CallEnds
<1>7. PlaceInv'
  <2>1. ~(place \in {"ready", "fallback"} \/ (place = "asking" /\ turn = 0))
    BY <1>1 DEF LoopInv, PlaceInv
  <2> QED
    BY <1>1, <2>1 DEF LoopInv, PlaceInv
<1>8. Step!SumFunction(used') = Step!SumFunction(used) + 1 /\ used' \in [StepTools -> Nat]
  <2>1. used' = [used EXCEPT ![t] = used[t] + 1]
    BY <1>1, <1>3
  <2> QED
    BY <2>1, LoopTypes, CountsCall
<1>9. BudgetInv'
  <2>1. /\ Step!SumFunction(used) + Cardinality(Flying(requests, old, StepTools)) <= StepLimit + Over
        /\ \A u \in StepTools :
             used[u] + Cardinality(Flying(requests, old, {u})) <= ToolLimit + Over
    BY <1>5 DEF LoopInv, BudgetInv
  <2>2. Step!SumFunction(used') + Cardinality(Flying(requests, new, StepTools)) <= StepLimit + Over
    BY <1>3, <1>6, <1>8, <2>1, LoopTypes, SMTT(40)
  <2>3. ASSUME NEW u \in StepTools
        PROVE  used'[u] + Cardinality(Flying(requests, new, {u})) <= ToolLimit + Over
    <3>1. used[u] \in Nat /\ used[u] + Cardinality(Flying(requests, old, {u})) <= ToolLimit + Over
      BY <2>1, LoopTypes
    <3>2. CASE u = t
      <4>1. used'[u] = used[u] + 1
        BY <1>1, <1>3, <3>2, LoopTypes
      <4>2. /\ Cardinality(Flying(requests, old, {u})) \in Nat
            /\ Cardinality(Flying(requests, new, {u})) = Cardinality(Flying(requests, old, {u})) - 1
        BY <1>6, <3>2
      <4> QED
        BY <3>1, <4>1, <4>2, LoopTypes
    <3>3. CASE u # t
      <4>1. used'[u] = used[u]
        BY <1>1, <1>3, <3>3, LoopTypes
      <4>2. Cardinality(Flying(requests, new, {u})) = Cardinality(Flying(requests, old, {u}))
        BY <1>6, <3>3
      <4> QED
        BY <3>1, <4>1, <4>2
    <3> QED
      BY <3>2, <3>3
  <2> QED
    BY <1>1, <1>4, <1>5, <1>8, <2>2, <2>3 DEF BudgetInv
<1> QED
  BY <1>4, <1>7, <1>9 DEF LoopInv

(* An error leaves the step; the other calls of the batch go on.           *)
LEMMA LoopRaises ==
  ASSUME LoopInv, NEW i \in 1..MaxRequests, Step!Raise(i)
  PROVE  LoopInv'
<1>1. /\ i \in 1..Len(requests) /\ result[i] = "running" /\ "failed" \in Step!Settled
      /\ result' = [result EXCEPT ![i] = "failed"] /\ place' = "raised"
      /\ UNCHANGED <<mode, turn, requests, batches, used>>
  BY LoopTypes DEF Step!Raise, Step!budget, Step!Settled
<1>2. TurnInv' /\ Over' = Over
  BY <1>1, CallEnds
<1>3. PlaceInv'
  BY <1>1 DEF LoopInv, PlaceInv
<1>4. PICK old, new : old = result /\ new = result'
  OBVIOUS
<1>5. ASSUME NEW S
      PROVE  /\ Cardinality(Flying(requests, new, S)) \in Nat
             /\ Cardinality(Flying(requests, old, S)) \in Nat
             /\ Cardinality(Flying(requests, new, S)) <= Cardinality(Flying(requests, old, S))
  <2>1. /\ Cardinality(Flying(requests, new, S)) \in Nat
        /\ Cardinality(Flying(requests, old, S)) \in Nat
        /\ \/ Cardinality(Flying(requests, new, S)) = Cardinality(Flying(requests, old, S)) - 1
           \/ Cardinality(Flying(requests, new, S)) = Cardinality(Flying(requests, old, S))
    BY <1>1, <1>4, CallEnds
  <2> QED
    BY <2>1
<1>6. BudgetInv'
  <2>1. Step!SumFunction(used) + Cardinality(Flying(requests, new, StepTools)) <= StepLimit + Over
    BY <1>4, <1>5, LoopTypes DEF LoopInv, BudgetInv
  <2>2. ASSUME NEW u \in StepTools
        PROVE  used[u] + Cardinality(Flying(requests, new, {u})) <= ToolLimit + Over
    <3>1. used[u] \in Nat /\ used[u] + Cardinality(Flying(requests, old, {u})) <= ToolLimit + Over
      BY <1>4, LoopTypes DEF LoopInv, BudgetInv
    <3> QED
      BY <1>5, <3>1, LoopTypes
  <2> QED
    BY <1>1, <1>2, <1>4, <2>1, <2>2, LoopTypes DEF BudgetInv
<1> QED
  BY <1>2, <1>3, <1>6 DEF LoopInv

(* A batch has ended, and with the last one the turn.                      *)
LEMMA LoopEndsBatch ==
  ASSUME LoopInv, Step!EndBatch
  PROVE  LoopInv'
<1>1. /\ place = "running" /\ batches' = Tail(batches) /\ place' \in {"running", "asking"}
      /\ \A i \in Head(batches) : result[i] \in Step!Settled
      /\ Tail(batches) # << >> => place' = "running"
      /\ Tail(batches) = << >> => place' = "asking"
      /\ UNCHANGED <<mode, turn, requests, result, used, tokens>>
  BY DEF Step!EndBatch, Step!EndBatchWhen, Step!budget
<1>2. batches # << >> /\ batches \in Seq(SUBSET DOMAIN requests)
  BY <1>1 DEF LoopInv, PlaceInv, TurnInv
<1>3. PICK q : q = Tail(batches)
  OBVIOUS
<1>4. /\ q \in Seq(SUBSET DOMAIN requests) /\ Len(batches) = Len(q) + 1
      /\ Head(batches) = batches[1] /\ Len(q) \in Nat
      /\ \A k \in 1..Len(q) : k + 1 \in 1..Len(batches) /\ q[k] = batches[k + 1]
      /\ \A k \in 1..Len(batches) : k = 1 \/ (k - 1 \in 1..Len(q) /\ q[k - 1] = batches[k])
  BY <1>2, <1>3
<1>5. \A k \in 1..Len(q) : \A i \in q[k] : result[i] = "waiting"
  <2>1. \A k \in 1..Len(batches) : \A i \in batches[k] : k > 1 => result[i] = "waiting"
    BY DEF LoopInv, TurnInv, Placed
  <2>2. ASSUME NEW k \in 1..Len(q) PROVE k + 1 \in 1..Len(batches) /\ k + 1 > 1
    BY ONLY <1>4, k \in 1..Len(q)
  <2> QED
    BY <1>4, <2>1, <2>2
<1>6. Apart(q)
  <2> SUFFICES ASSUME NEW k \in 1..Len(q), NEW l \in 1..Len(q), k < l PROVE q[k] \cap q[l] = {}
    BY DEF Apart
  <2>1. k + 1 < l + 1 /\ k + 1 \in 1..Len(batches) /\ l + 1 \in 1..Len(batches)
    BY <1>4
  <2>2. batches[k + 1] \cap batches[l + 1] = {}
    BY <2>1 DEF LoopInv, TurnInv, Apart
  <2> QED
    BY <1>4, <2>2
<1>7. ~Step!Cyclic(requests) => Ordered(requests, q)
  <2> SUFFICES ASSUME ~Step!Cyclic(requests), NEW k \in 1..Len(q), NEW l \in 1..Len(q), k <= l,
                      NEW i \in q[k], NEW j \in Step!DependsOn(requests, i)
               PROVE  j \notin q[l]
    BY DEF Ordered
  <2>1. k + 1 <= l + 1
    OBVIOUS
  <2> QED
    BY <1>4, <2>1 DEF LoopInv, TurnInv, Ordered
<1>8. Placed(requests, result, q)
  <2>1. ASSUME NEW i \in 1..Len(requests), result[i] \notin Step!Settled
        PROVE  \E k \in 1..Len(q) : i \in q[k]
    <3>1. PICK k \in 1..Len(batches) : i \in batches[k]
      BY <2>1 DEF LoopInv, TurnInv, Placed
    <3>2. k # 1
      BY <1>1, <1>4, <2>1, <3>1
    <3> QED
      BY <1>4, <3>1, <3>2
  <2> QED
    BY <1>5, <2>1 DEF Placed
<1>9. OneByOne(result, q)
  <2>1. q # << >> => 1 \in 1..Len(q)
    BY <1>4
  <2> QED
    BY <1>5, <2>1 DEF OneByOne
<1>10. TurnInv'
  BY <1>1, <1>3, <1>4, <1>6, <1>7, <1>8, <1>9 DEF LoopInv, TurnInv
<1>11. PlaceInv'
  <2>1. turn # 0 /\ turn \in Nat
    BY <1>1 DEF LoopInv, PlaceInv
  <2> QED
    BY <1>1, <2>1 DEF LoopInv, PlaceInv
<1>12. BudgetInv'
  BY <1>1 DEF LoopInv, BudgetInv, Over
<1> QED
  BY <1>10, <1>11, <1>12 DEF LoopInv

(* A call by rules is the only one of its step.                            *)
LEMMA LoopFallsBack ==
  ASSUME LoopInv, NEW t \in StepTools, NEW s \in Step!Settled, NEW cost \in 0..1,
         Step!RuleFallback(t, s, cost)
  PROVE  LoopInv'
<1>1. /\ place = "fallback" /\ place' = "settled" /\ used' = [used EXCEPT ![t] = used[t] + 1]
      /\ UNCHANGED <<mode, turn, requests, batches, result>>
  BY DEF Step!RuleFallback, Step!RecordCall, Step!turnVars
<1>2. batches = << >> /\ \A u \in StepTools : used[u] = 0
  BY <1>1 DEF LoopInv, PlaceInv
<1>3. TurnInv'
  BY <1>1 DEF LoopInv, TurnInv
<1>4. PlaceInv'
  BY <1>1, <1>2 DEF LoopInv, PlaceInv
<1>5. BudgetInv'
  <2>1. Step!SumFunction(used) = 0
    BY <1>2, LoopTypes, SumCounts, BudgetAssumption
  <2>2. Step!SumFunction(used') = 1 /\ used' \in [StepTools -> Nat]
    <3>1. Step!SumFunction(used') = Step!SumFunction(used) + 1 /\ used' \in [StepTools -> Nat]
      BY <1>1, LoopTypes, CountsCall
    <3> QED
      BY <2>1, <3>1
  <2>3. \A u \in StepTools : used'[u] \in {0, 1}
    BY <1>1, <1>2, LoopTypes
  <2>4. \A S : Cardinality(Flying(requests, result, S)) = 0
    BY <1>2, NothingFlies, FS_EmptySet
  <2>5. Over' = Over
    BY <1>1 DEF Over
  <2>6. StepLimit + Over >= 1 /\ ToolLimit + Over >= 1
    BY LoopTypes
  <2>7. \A u \in StepTools : used'[u] + 0 <= ToolLimit + Over
    <3>1. PICK n \in Nat : n = ToolLimit + Over /\ n >= 1
      BY <2>6, LoopTypes
    <3>2. \A v \in {0, 1} : v + 0 <= n
      BY <3>1
    <3> QED
      BY <2>3, <3>1, <3>2
  <2> QED
    BY <1>1, <2>2, <2>4, <2>5, <2>6, <2>7 DEF BudgetInv
<1> QED
  BY <1>3, <1>4, <1>5 DEF LoopInv

(* Before the step, and when nothing happens to it.                        *)
LEMMA LoopInit == Step!Init => LoopInv
<1> SUFFICES ASSUME Step!Init PROVE LoopInv
  OBVIOUS
<1>1. /\ place = "ready" /\ turn = 0 /\ requests = << >> /\ batches = << >> /\ result = << >>
      /\ mode = [strategies |-> << >>, parallel |-> TRUE]
      /\ used = [t \in StepTools |-> 0]
  BY DEF Step!Init
<1>2. used \in [StepTools -> Nat] /\ \A t \in StepTools : used[t] = 0
  BY <1>1
<1>3. TurnInv
  <2>1. /\ requests \in Seq(StepTools) /\ Len(requests) = 0 /\ 1..0 = {}
        /\ batches \in Seq(SUBSET DOMAIN requests) /\ Len(batches) = 0
    BY <1>1
  <2>2. result \in [1..0 -> Outcomes]
    BY <1>1
  <2> QED
    BY <1>1, <2>1, <2>2, BudgetAssumption DEF TurnInv, Apart, Ordered, Placed, OneByOne
<1>4. PlaceInv
  BY <1>1, <1>2 DEF PlaceInv
<1>5. BudgetInv
  <2>1. Step!SumFunction(used) = 0
    BY <1>2, SumCounts, BudgetAssumption
  <2>2. \A S : Cardinality(Flying(requests, result, S)) = 0
    <3>1. \A S : Flying(requests, result, S) = {}
      BY <1>1 DEF Flying
    <3> QED
      BY <3>1, FS_EmptySet
  <2>3. Over \in Nat
    BY BudgetAssumption DEF Over
  <2> QED
    BY <1>2, <2>1, <2>2, <2>3, BudgetAssumption DEF BudgetInv
<1> QED
  BY <1>3, <1>4, <1>5 DEF LoopInv

(* Every step of the loop keeps the invariant.                             *)
LEMMA LoopNext == ASSUME LoopInv, Step!Next PROVE LoopInv'
BY LoopStarts, LoopAsks, LoopElsewhere, LoopChecks, LoopFinishes, LoopRaises, LoopEndsBatch,
   LoopFallsBack DEF Step!Next

(* Nor does the loop change when another component moves.                  *)
LEMMA LoopStutters == ASSUME LoopInv, UNCHANGED stepVars PROVE LoopInv'
BY DEF stepVars, LoopInv, TurnInv, PlaceInv, BudgetInv, Over

(* For any tools, requirements and limits: the calls of a turn respect     *)
(* what their tools require, the budget is exceeded by less than a batch   *)
(* and by nothing without parallel calls, and the model is asked again     *)
(* only when every call has ended.                                         *)
THEOREM LoopIsSound == AgentSpec => []StepSound
<1>1. AgentInit => LoopInv
  BY LoopInit DEF AgentInit
<1>2. LoopInv /\ [AgentNext]_agentVars => LoopInv'
  BY LoopNext, LoopStutters DEF AgentNext, agentVars
<1>3. LoopInv => StepSound
  <2> SUFFICES ASSUME LoopInv PROVE Step!StepSound
    BY DEF StepSound
  <2>1. Step!ProvidersFirst
    <3> SUFFICES ASSUME NEW i \in DOMAIN result, result[i] = "running", ~Step!Cyclic(requests),
                        NEW j \in Step!DependsOn(requests, i), result[j] \notin Step!Settled
                 PROVE  FALSE
      BY DEF Step!ProvidersFirst
    <3>1. i \in 1..Len(requests) /\ j \in 1..Len(requests) /\ "running" \notin Step!Settled
      BY LoopTypes DEF Step!DependsOn, Step!Settled
    <3>2. PICK k \in 1..Len(batches), l \in 1..Len(batches) : i \in batches[k] /\ j \in batches[l]
      BY <3>1 DEF LoopInv, TurnInv, Placed
    <3>3. ~(k > 1)
      BY <3>2 DEF LoopInv, TurnInv, Placed
    <3>4. k <= l
      BY <3>3
    <3> QED
      BY <3>2, <3>4 DEF LoopInv, TurnInv, Ordered
  <2>2. Step!BudgetHolds
    <3>1. \A S : {i \in DOMAIN result : result[i] = "running" /\ requests[i] \in S}
                  = Flying(requests, result, S)
      BY LoopTypes DEF Flying
    <3>2. \A S : Step!Cardinality(Flying(requests, result, S)) = Cardinality(Flying(requests, result, S))
      BY SameSize
    <3> QED
      BY <3>1, <3>2 DEF Step!BudgetHolds, LoopInv, BudgetInv, Over
  <2>3. Step!AnswerIsComplete
    BY NothingFlies DEF Step!AnswerIsComplete, LoopInv, PlaceInv
  <2> QED
    BY <2>1, <2>2, <2>3 DEF Step!StepSound
<1> QED
  BY <1>1, <1>2, <1>3, PTL DEF AgentSpec

-----------------------------------------------------------------------------
(* Turn.  What the client has seen: pieces of one attempt only, a notice   *)
(* alone, and the answer is what was shown of it.                          *)
Spoken == {p \in Talk!Piece : p.kind # "thought"}
Early == {"new", "answering", "planning"}
Pieces == {"thought", "text", "blank"}

Spoke(p, c, a, s) ==
  /\ s \in Seq(Talk!Piece) /\ c \in 1..2
  /\ a = Filtered(s, Spoken)
  /\ \A i \in 1..Len(s) : s[i].attempt = c /\ (s[i].kind = "notice" => Len(s) = 1)
  /\ p \in Early => \A i \in 1..Len(s) : s[i].kind # "notice"

(* What is stored: an answer, and then there is no plan; or a plan that    *)
(* keeps the bounds of its complexity.                                     *)
Bounded(made, t) ==
  /\ made \in Talk!Plan /\ 1 <= made.steps
  /\ made.steps <= IF made.source = "llm" THEN Talk!MaxSteps[Talk!Complexity(t)] ELSE 4
  /\ made.source = "llm" /\ ~made.warned => made.steps >= Talk!MinSteps[Talk!Complexity(t)]

Stored ==
  /\ stage \in Talk!Stages
  /\ stage \in {"new", "answering", "storing", "planning", "executing"} => message = None
  /\ stage = "closing" => message # None
  /\ stage \in Early \cup {"storing", "closing"} => stored = None
  /\ stage = "executing" => stored # None
  /\ stage = "planning" => told \in Talk!Signals
  /\ message # None => message = Talk!Strip(answers) /\ stored = None
  /\ stored # None => Bounded(stored, told)

(* What the log says of the turn: one outcome, once the work is over.      *)
Finals == {"task_done", "task_error"}
Entries == Finals \cup {"plan_created"}
Working == {"new", "answering", "storing", "closing", "planning", "executing"}

Logged(p, l) ==
  /\ l \in Seq(Entries)
  /\ Len(Filtered(l, Finals)) <= 1
  /\ p \in Working => Filtered(l, Finals) = << >>
  /\ p \in {"titling", "over"} => Len(Filtered(l, Finals)) = 1

Answered ==
  (\E i \in 1..Len(log) : log[i] = "task_done") /\ stored = None => message # None

TalkInv ==
  /\ Spoke(stage, attempt, answers, seen) /\ Stored
  /\ Logged(stage, log) /\ Answered

(* What a step does to what the client sees.                               *)
LEMMA TalkSpeaks ==
  ASSUME Talk!Next
  PROVE  \/ UNCHANGED <<attempt, seen, answers>> /\ (stage' \in Early => stage \in Early)
         \/ Talk!AskAgain
         \/ /\ stage \in {"answering", "planning"} /\ UNCHANGED <<stage, attempt>>
            /\ \E k \in Pieces : Talk!Show(k)
<1> DEFINE Goal == \/ UNCHANGED <<attempt, seen, answers>> /\ (stage' \in Early => stage \in Early)
                   \/ Talk!AskAgain
                   \/ /\ stage \in {"answering", "planning"} /\ UNCHANGED <<stage, attempt>>
                      /\ \E k \in Pieces : Talk!Show(k)
<1>1. CASE Talk!Begin
  BY <1>1 DEF Talk!Begin, Talk!Fail, Early
<1>2. ASSUME NEW k \in Pieces, Talk!Receive(k) PROVE Goal
  BY <1>2 DEF Talk!Receive
<1>3. CASE Talk!Complete \/ Talk!Store \/ Talk!Close \/ Talk!Title \/ Talk!Leave
  BY <1>3 DEF Talk!Complete, Talk!Store, Talk!Close, Talk!Title, Talk!Leave, Early
<1>4. CASE Talk!Refuse \/ Talk!Raise
  BY <1>4 DEF Talk!Refuse, Talk!Raise, Talk!Fail, Early
<1>5. CASE Talk!Think
  BY <1>5 DEF Talk!Think, Pieces
<1>6. ASSUME NEW made, Talk!StorePlan(made) PROVE Goal
  BY <1>6 DEF Talk!StorePlan, Early
<1>7. ASSUME NEW outcome, Talk!Execute(outcome) PROVE Goal
  BY <1>7 DEF Talk!Execute, Early
<1> QED
  BY <1>1, <1>2, <1>3, <1>4, <1>5, <1>6, <1>7 DEF Talk!Next, Pieces

(* One more piece is of the attempt under way, and part of the answer      *)
(* unless it is a thought.                                                 *)
LEMMA PieceIsSpoke ==
  ASSUME NEW p \in Early, NEW c, NEW a, NEW s, NEW k \in Pieces, Spoke(p, c, a, s),
         NEW piece, piece = [kind |-> k, attempt |-> c],
         NEW more, more = IF k = "thought" THEN a ELSE Append(a, piece)
  PROVE  Spoke(p, c, more, Append(s, piece))
<1>1. piece \in Talk!Piece /\ piece.kind = k /\ piece.attempt = c /\ k # "notice"
  BY DEF Talk!Piece, Talk!Kinds, Pieces, Spoke
<1>2. s \in Seq(Talk!Piece) /\ c \in 1..2 /\ a = Filtered(s, Spoken)
      /\ \A i \in 1..Len(s) : s[i].attempt = c /\ s[i].kind # "notice"
  BY DEF Spoke
<1>3. piece \in Spoken <=> k # "thought"
  BY <1>1 DEF Spoken
<1>4. Filtered(Append(s, piece), Spoken) = more
  <2>1. Filtered(Append(s, piece), Spoken)
          = IF piece \in Spoken THEN Append(Filtered(s, Spoken), piece) ELSE Filtered(s, Spoken)
    <3>1. s \in Seq(Talk!Piece) /\ piece \in Talk!Piece
      BY <1>1, <1>2
    <3> QED
      BY ONLY <3>1, FilterAppends
  <2> QED
    BY <1>2, <1>3, <2>1
<1> DEFINE t == Append(s, piece)
<1>5. /\ t \in Seq(Talk!Piece)
      /\ \A i \in 1..Len(t) : t[i] = piece \/ \E j \in 1..Len(s) : t[i] = s[j]
  BY <1>1, <1>2
<1> HIDE DEF t
<1>6. \A i \in 1..Len(t) : t[i].attempt = c /\ t[i].kind # "notice"
  BY <1>1, <1>2, <1>5
<1> QED
  BY <1>2, <1>4, <1>5, <1>6 DEF t, Spoke

(* The client never sees pieces of two attempts.                           *)
LEMMA TalkStaysSpoke ==
  ASSUME Spoke(stage, attempt, answers, seen), Talk!Next
  PROVE  Spoke(stage, attempt, answers, seen)'
<1>1. CASE UNCHANGED <<attempt, seen, answers>> /\ (stage' \in Early => stage \in Early)
  BY <1>1 DEF Spoke
<1>2. CASE /\ stage \in {"answering", "planning"} /\ UNCHANGED <<stage, attempt>>
           /\ \E k \in Pieces : Talk!Show(k)
  <2>1. PICK k \in Pieces : Talk!Show(k)
    BY <1>2
  <2> DEFINE piece == [kind |-> k, attempt |-> attempt]
  <2>2. /\ seen' = Append(seen, piece)
        /\ answers' = IF k = "thought" THEN answers ELSE Append(answers, piece)
    BY <2>1 DEF Talk!Show
  <2>3. stage \in Early /\ stage' = stage /\ attempt' = attempt
    BY <1>2 DEF Early
  <2>4. Spoke(stage, attempt, IF k = "thought" THEN answers ELSE Append(answers, piece),
              Append(seen, piece))
    BY <2>3, PieceIsSpoke
  <2> HIDE DEF piece
  <2> QED
    BY <2>2, <2>3, <2>4 DEF Spoke
<1>3. CASE Talk!AskAgain
  <2>1. stage = "answering" /\ answers = << >> /\ seen = << >>
    BY <1>3 DEF Talk!AskAgain, Talk!MayAskAgain
  <2>2. CASE thinking /\ attempt = 1
    <3>1. attempt' = 2 /\ stage' = stage /\ seen' = seen /\ answers' = answers
      BY <1>3, <2>2 DEF Talk!AskAgain
    <3>2. << >> \in Seq(Talk!Piece) /\ Len(<< >>) = 0 /\ 1..0 = {} /\ 2 \in 1..2
      OBVIOUS
    <3>3. Filtered(<< >>, Spoken) = << >>
      BY FilterOfNothing
    <3>4. Spoke("answering", 2, << >>, << >>)
      BY ONLY <3>2, <3>3 DEF Spoke
    <3>5. stage' = "answering" /\ attempt' = 2 /\ seen' = << >> /\ answers' = << >>
      BY <2>1, <3>1
    <3> QED
      BY ONLY <3>4, <3>5 DEF Spoke
  <2>3. CASE ~(thinking /\ attempt = 1)
    <3> DEFINE notice == [kind |-> "notice", attempt |-> attempt]
    <3>1. /\ seen' = Append(seen, notice) /\ answers' = <<notice>>
          /\ stage' = "storing" /\ attempt' = attempt
      BY <1>3, <2>3 DEF Talk!AskAgain
    <3>2. attempt \in 1..2
      BY DEF Spoke
    <3>3. notice \in Talk!Piece /\ notice \in Spoken /\ notice.attempt = attempt
      BY <3>2 DEF Talk!Piece, Talk!Kinds, Spoken
    <3> HIDE DEF notice
    <3>4. << >> \in Seq(Talk!Piece) /\ Append(<< >>, notice) = <<notice>>
      OBVIOUS
    <3>5. Filtered(<<notice>>, Spoken) = <<notice>>
      <4>1. Filtered(Append(<< >>, notice), Spoken) = Append(Filtered(<< >>, Spoken), notice)
        BY <3>3, <3>4, FilterAppends
      <4> QED
        BY <3>4, <4>1, FilterOfNothing
    <3>6. seen' = <<notice>> /\ Len(<<notice>>) = 1 /\ <<notice>> \in Seq(Talk!Piece)
          /\ \A i \in 1..1 : <<notice>>[i] = notice
      BY <2>1, <3>1, <3>3, <3>4
    <3>7. Spoke("storing", attempt, <<notice>>, <<notice>>)
      BY <3>2, <3>3, <3>5, <3>6 DEF Spoke, Early
    <3> QED
      BY <3>1, <3>6, <3>7 DEF Spoke
  <2> QED
    BY <2>2, <2>3
<1> QED
  BY <1>1, <1>2, <1>3, TalkSpeaks

(* A plan of the model keeps the bounds of the task's complexity.          *)
LEMMA ParseIsBounded ==
  ASSUME Asked \subseteq Nat, told \in Talk!Signals, NEW n \in Asked
  PROVE  Bounded(Talk!Parse(n), told) /\ Bounded(Talk!FallbackPlan, told)
<1>1. Bounded(Talk!FallbackPlan, told)
  BY DEF Bounded, Talk!FallbackPlan, Talk!Plan
<1>2. PICK c \in {"light", "standard", "heavy"} : c = Talk!Complexity(told)
  BY DEF Talk!Complexity
<1>3. PICK low \in Nat, high \in Nat : low = Talk!MinSteps[c] /\ high = Talk!MaxSteps[c] /\ 1 <= high
  BY DEF Talk!MinSteps, Talk!MaxSteps
<1>4. ASSUME n # 0 PROVE Bounded(Talk!Clamp(n, c), told)
  <2>1. n \in Nat /\ 1 <= n
    BY <1>4
  <2>2. Talk!Clamp(n, c) = [source |-> "llm", steps |-> IF n > high THEN high ELSE n,
                            warned |-> n \notin low..high]
    BY <1>3 DEF Talk!Clamp
  <2>3. PICK m \in Nat : m = IF n > high THEN high ELSE n
    BY <2>1
  <2>4. PICK w \in BOOLEAN : w = (n \notin low..high)
    OBVIOUS
  <2>5. Talk!Clamp(n, c) = [source |-> "llm", steps |-> m, warned |-> w]
    BY <2>2, <2>3, <2>4
  <2>6. 1 <= m /\ m <= high
    BY <1>3, <2>1, <2>3
  <2>7. ASSUME ~w PROVE m >= low
    <3>1. n \in low..high
      BY <2>4, <2>7
    <3> QED
      BY <2>3, <3>1
  <2> QED
    BY <1>2, <1>3, <2>5, <2>6, <2>7 DEF Bounded, Talk!Plan
<1> QED
  BY <1>1, <1>2, <1>4 DEF Talk!Parse

(* The text of an answer is what is left of it without blank pieces at its *)
(* ends.                                                                   *)
LEMMA StripIsText ==
  ASSUME NEW q \in Seq(Talk!Piece)
  PROVE  Talk!Strip(q) \in Seq(Talk!Piece)
<1> DEFINE words == {k \in DOMAIN q : q[k].kind # "blank"}
           first == CHOOSE k \in words : \A j \in words : k <= j
           last == CHOOSE k \in words : \A j \in words : j <= k
<1>1. words \subseteq 1..Len(q) /\ Len(q) \in Nat
  OBVIOUS
<1>2. CASE words = {}
  <2>1. Talk!Strip(q) = << >>
    BY <1>2 DEF Talk!Strip
  <2> QED
    BY <2>1
<1>3. CASE words # {}
  <2>1. Talk!Strip(q) = SubSeq(q, first, last)
    BY <1>3 DEF Talk!Strip
  <2> HIDE DEF words
  <2>2. words \in SUBSET Nat
    BY <1>1
  <2>3. \E k \in words : \A j \in words : k <= j
    BY <1>3, <2>2, LeastNumber
  <2>4. \E k \in words : \A j \in words : j <= k
    BY <1>1, <1>3, LastPosition
  <2>5. first \in words /\ last \in words
    BY <2>3, <2>4
  <2> HIDE DEF first, last
  <2>6. first \in 1..Len(q) /\ last \in 1..Len(q)
    BY <1>1, <2>5
  <2>7. \A i \in first..last : i \in 1..Len(q) /\ q[i] \in Talk!Piece
    BY <1>1, <2>6
  <2>8. SubSeq(q, first, last) \in Seq(Talk!Piece)
    BY <1>1, <2>6, <2>7
  <2> QED
    BY <2>1, <2>8
<1> QED
  BY <1>2, <1>3

(* An answer and a plan are never both stored, and each is as it was made. *)
LEMMA TalkStaysStored ==
  ASSUME TurnAssumption, Spoke(stage, attempt, answers, seen), Stored, Talk!Next
  PROVE  Stored'
<1>1. Asked \subseteq Nat /\ None \notin Talk!Plan /\ None \notin Seq(Talk!Piece)
  BY TurnAssumption
<1>2. answers \in Seq(Talk!Piece)
  BY FilterKeeps DEF Spoke
<1>3. CASE Talk!Begin
  <2>1. stage = "new" /\ UNCHANGED <<message, stored>>
    BY <1>3 DEF Talk!Begin
  <2>2. message = None /\ stored = None
    BY <2>1 DEF Stored, Early
  <2>3. \/ stage' \in {"answering", "titling", "broken"}
        \/ stage' = "planning" /\ told' \in Talk!Signals
    BY <1>3 DEF Talk!Begin, Talk!Fail
  <2> QED
    BY <2>1, <2>2, <2>3 DEF Stored, Talk!Stages, Early
<1>4. ASSUME NEW k \in Pieces, Talk!Receive(k) PROVE Stored'
  BY <1>4 DEF Talk!Receive, Stored, Early
<1>5. CASE Talk!Think
  BY <1>5 DEF Talk!Think, Stored, Early
<1>6. CASE Talk!AskAgain
  <2>1. stage = "answering" /\ stage' \in {"answering", "storing"} /\ UNCHANGED <<told, message, stored>>
    BY <1>6 DEF Talk!AskAgain
  <2> QED
    BY <2>1 DEF Stored, Early, Talk!Stages
<1>7. CASE Talk!Complete
  BY <1>7 DEF Talk!Complete, Stored, Early, Talk!Stages
<1>8. ASSUME stage' \in {"titling", "over", "broken", "left"}, UNCHANGED <<told, answers, message, stored>>
      PROVE  Stored'
  BY <1>8 DEF Stored, Early, Talk!Stages
<1>9. CASE Talk!Refuse \/ Talk!Raise
  BY <1>8, <1>9 DEF Talk!Refuse, Talk!Raise, Talk!Fail
<1>10. CASE Talk!Close \/ Talk!Title \/ Talk!Leave
  BY <1>8, <1>10 DEF Talk!Close, Talk!Title, Talk!Leave
<1>11. ASSUME NEW outcome, Talk!Execute(outcome) PROVE Stored'
  BY <1>8, <1>11 DEF Talk!Execute
<1>12. CASE Talk!Store
  <2>1. /\ stage = "storing" /\ message' = Talk!Strip(answers) /\ stage' \in {"closing", "broken"}
        /\ UNCHANGED <<told, answers, stored>>
    BY <1>12 DEF Talk!Store
  <2>2. Talk!Strip(answers) # None
    BY <1>1, <1>2, StripIsText
  <2>3. stored = None
    BY <2>1 DEF Stored
  <2>4. message' # None /\ stored' = None /\ message' = Talk!Strip(answers')
    BY <2>1, <2>2, <2>3
  <2> QED
    BY <2>1, <2>4 DEF Stored, Early, Talk!Stages
<1>13. ASSUME NEW made, Bounded(made, told), Talk!StorePlan(made) PROVE Stored'
  <2>1. /\ stage = "planning" /\ stored' = made /\ stage' \in {"executing", "broken"}
        /\ UNCHANGED <<told, message>>
    BY <1>13 DEF Talk!StorePlan
  <2>2. message' = None /\ stored' # None
    BY <1>1, <1>13, <2>1 DEF Stored, Bounded
  <2>3. Bounded(stored', told')
    BY <1>13, <2>1
  <2> QED
    BY <2>1, <2>2, <2>3 DEF Stored, Early, Talk!Stages
<1>14. ASSUME NEW n \in Asked, Talk!StorePlan(Talk!Parse(n)) PROVE Stored'
  <2>1. told \in Talk!Signals
    BY <1>14 DEF Talk!StorePlan, Stored
  <2> QED
    BY <1>1, <1>13, <1>14, <2>1, ParseIsBounded
<1>15. CASE Talk!StorePlan(Talk!FallbackPlan)
  <2>1. Bounded(Talk!FallbackPlan, told)
    BY DEF Bounded, Talk!FallbackPlan, Talk!Plan
  <2> QED
    BY <1>13, <1>15, <2>1
<1> QED
  BY <1>3, <1>4, <1>5, <1>6, <1>7, <1>9, <1>10, <1>11, <1>12, <1>14, <1>15
  DEF Talk!Next, Pieces

(* What a step writes to the log.                                          *)
LEMMA TalkWrites ==
  ASSUME Talk!Next
  PROVE  \/ log' = log /\ (stage' \in Working => stage \in Working)
                       /\ (stage' \in {"titling", "over"} => stage = "titling")
         \/ stage \in Working /\ log' = Append(log, "task_error") /\ stage' \notin Working
         \/ stage \in Working /\ log' = Append(log, "plan_created") /\ stage' \in {"executing", "broken"}
         \/ /\ stage \in {"closing", "executing"} /\ log' = Append(log, "task_done")
            /\ stage' \notin Working
<1> DEFINE Goal ==
      \/ log' = log /\ (stage' \in Working => stage \in Working)
                    /\ (stage' \in {"titling", "over"} => stage = "titling")
      \/ stage \in Working /\ log' = Append(log, "task_error") /\ stage' \notin Working
      \/ stage \in Working /\ log' = Append(log, "plan_created") /\ stage' \in {"executing", "broken"}
      \/ /\ stage \in {"closing", "executing"} /\ log' = Append(log, "task_done")
         /\ stage' \notin Working
<1>1. CASE Talk!Begin
  BY <1>1 DEF Talk!Begin, Talk!Fail, Working
<1>2. ASSUME NEW k \in Pieces, Talk!Receive(k) PROVE Goal
  BY <1>2 DEF Talk!Receive, Working
<1>3. CASE Talk!Complete \/ Talk!Store \/ Talk!Close \/ Talk!Title \/ Talk!Leave
  BY <1>3 DEF Talk!Complete, Talk!Store, Talk!Close, Talk!Title, Talk!Leave, Working
<1>4. CASE Talk!Refuse \/ Talk!Raise
  BY <1>4 DEF Talk!Refuse, Talk!Raise, Talk!Fail, Working
<1>5. CASE Talk!Think
  BY <1>5 DEF Talk!Think, Working
<1>6. ASSUME NEW made, Talk!StorePlan(made) PROVE Goal
  BY <1>6 DEF Talk!StorePlan, Working
<1>7. ASSUME NEW outcome \in Finals, Talk!Execute(outcome) PROVE Goal
  BY <1>7 DEF Talk!Execute, Working, Finals
<1>8. CASE Talk!AskAgain
  BY <1>8 DEF Talk!AskAgain, Working
<1> QED
  BY <1>1, <1>2, <1>3, <1>4, <1>5, <1>6, <1>7, <1>8 DEF Talk!Next, Pieces, Finals

(* The log tells one outcome of a turn, and only when the work is over.    *)
LEMMA TalkStaysLogged ==
  ASSUME Logged(stage, log), Talk!Next
  PROVE  Logged(stage, log)'
<1>1. /\ log \in Seq(Entries) /\ Len(Filtered(log, Finals)) <= 1
      /\ stage \in Working => Filtered(log, Finals) = << >>
      /\ stage \in {"titling", "over"} => Len(Filtered(log, Finals)) = 1
  BY DEF Logged
<1>2. CASE log' = log /\ (stage' \in Working => stage \in Working)
                      /\ (stage' \in {"titling", "over"} => stage = "titling")
  BY <1>1, <1>2 DEF Logged
<1>3. ASSUME NEW e \in Finals, stage \in Working, log' = Append(log, e), stage' \notin Working
      PROVE  Logged(stage, log)'
  <2>1. e \in Entries
    BY DEF Entries
  <2>2. Append(log, e) \in Seq(Entries) /\ Filtered(Append(log, e), Finals) = <<e>>
    <3>1. Filtered(Append(log, e), Finals) = Append(Filtered(log, Finals), e)
      BY ONLY <1>1, <2>1, e \in Finals, FilterAppends
    <3>2. Append(<< >>, e) = <<e>>
      OBVIOUS
    <3> QED
      BY <1>1, <1>3, <2>1, <3>1, <3>2
  <2>3. Len(<<e>>) = 1
    OBVIOUS
  <2>4. Logged(stage', Append(log, e))
    BY ONLY <1>3, <2>2, <2>3 DEF Logged
  <2> QED
    BY <1>3, <2>4 DEF Logged
<1>4. CASE stage \in Working /\ log' = Append(log, "plan_created") /\ stage' \in {"executing", "broken"}
  <2>1. "plan_created" \in Entries /\ "plan_created" \notin Finals
    BY DEF Entries, Finals
  <2>2. Filtered(Append(log, "plan_created"), Finals) = Filtered(log, Finals)
    BY ONLY <1>1, <2>1, FilterAppends
  <2>3. Append(log, "plan_created") \in Seq(Entries)
    BY <1>1, <2>1
  <2>4. Len(<< >>) = 0
    OBVIOUS
  <2>5. Logged(stage', Append(log, "plan_created"))
    BY ONLY <1>1, <1>4, <2>2, <2>3, <2>4 DEF Logged
  <2> QED
    BY <1>4, <2>5 DEF Logged
<1>5. "task_error" \in Finals /\ "task_done" \in Finals
  BY DEF Finals
<1>6. stage \in {"closing", "executing"} => stage \in Working
  BY DEF Working
<1> QED
  BY <1>2, <1>3, <1>4, <1>5, <1>6, TalkWrites

(* No turn without a plan is done before its answer is stored.             *)
LEMMA TalkStaysAnswered ==
  ASSUME TurnAssumption, Spoke(stage, attempt, answers, seen), Logged(stage, log),
         Stored, Answered, Talk!Next
  PROVE  Answered'
<1>1. Stored'
  BY TalkStaysStored
<1>2. log \in Seq(Entries)
  BY DEF Logged
<1>3. (message # None => message' # None) /\ (stored # None => stored' # None)
  <2>1. \/ UNCHANGED <<message, stored>>
        \/ Talk!Store
        \/ stage = "planning" /\ message' = message
    <3>1. CASE Talk!Begin \/ Talk!Complete \/ Talk!AskAgain
      BY <3>1 DEF Talk!Begin, Talk!Complete, Talk!AskAgain
    <3>2. CASE Talk!Refuse \/ Talk!Raise \/ Talk!Close \/ Talk!Think \/ Talk!Title \/ Talk!Leave
      BY <3>2 DEF Talk!Refuse, Talk!Raise, Talk!Close, Talk!Think, Talk!Title, Talk!Leave
    <3>3. ASSUME NEW k, Talk!Receive(k) PROVE UNCHANGED <<message, stored>>
      BY <3>3 DEF Talk!Receive
    <3>4. ASSUME NEW made, Talk!StorePlan(made) PROVE stage = "planning" /\ message' = message
      BY <3>4 DEF Talk!StorePlan
    <3>5. ASSUME NEW outcome, Talk!Execute(outcome) PROVE UNCHANGED <<message, stored>>
      BY <3>5 DEF Talk!Execute
    <3> QED
      BY <3>1, <3>2, <3>3, <3>4, <3>5 DEF Talk!Next
  <2>2. CASE UNCHANGED <<message, stored>>
    BY <2>2
  <2>3. CASE Talk!Store
    <3>1. stage = "storing" /\ stored' = stored
      BY <2>3 DEF Talk!Store
    <3> QED
      BY <3>1 DEF Stored
  <2>4. CASE stage = "planning" /\ message' = message
    BY <2>4 DEF Stored, Early
  <2> QED
    BY <2>1, <2>2, <2>3, <2>4
<1>4. ASSUME NEW e, e # "task_done", log' = Append(log, e) \/ log' = log,
             NEW i \in 1..Len(log'), log'[i] = "task_done"
      PROVE  \E j \in 1..Len(log) : log[j] = "task_done"
  <2>1. CASE log' = log
    BY <1>4, <2>1
  <2>2. CASE log' = Append(log, e)
    <3>1. PICK more : more = log'
      OBVIOUS
    <3>2. more = Append(log, e) /\ i \in 1..Len(more) /\ more[i] = "task_done"
      BY <1>4, <2>2, <3>1
    <3>3. (i \in 1..Len(log) /\ more[i] = log[i]) \/ more[i] = e
      BY ONLY <1>2, <3>2
    <3> QED
      BY <1>4, <3>2, <3>3
  <2> QED
    BY <1>4, <2>1, <2>2
<1>5. ASSUME NEW e, e # "task_done", log' = Append(log, e) \/ log' = log
      PROVE  Answered'
  BY <1>3, <1>4, <1>5 DEF Answered
<1>6. CASE stage \in {"closing", "executing"}
  BY <1>3, <1>6 DEF Answered, Stored
<1> QED
  BY <1>5, <1>6, TalkWrites

(* Where other parts of the system take the steps, the turn is as it was.  *)
LEMMA TalkStutters ==
  ASSUME TalkInv, UNCHANGED turnVars
  PROVE  TalkInv'
<1> USE DEF turnVars
<1>1. Spoke(stage, attempt, answers, seen)'
  BY DEF TalkInv, Spoke
<1>2. Stored' /\ Answered'
  BY DEF TalkInv, Stored, Answered
<1>3. Logged(stage, log)'
  BY DEF TalkInv, Logged
<1> QED
  BY <1>1, <1>2, <1>3 DEF TalkInv

(* A turn begins with nothing shown and nothing stored.                    *)
LEMMA TalkInit ==
  ASSUME Talk!Init
  PROVE  TalkInv
<1>1. << >> \in Seq(Talk!Piece) /\ << >> \in Seq(Entries) /\ Len(<< >>) = 0 /\ 1..0 = {} /\ 1 \in 1..2
  OBVIOUS
<1>2. Filtered(<< >>, Spoken) = << >> /\ Filtered(<< >>, Finals) = << >>
  BY FilterOfNothing
<1>3. /\ stage = "new" /\ told = None /\ stored = None /\ message = None
      /\ attempt = 1 /\ seen = << >> /\ answers = << >> /\ log = << >>
  BY DEF Talk!Init
<1>4. Spoke(stage, attempt, answers, seen)
  BY <1>1, <1>2, <1>3 DEF Spoke
<1>5. Stored
  BY <1>3 DEF Stored, Talk!Stages, Early
<1>6. Logged(stage, log)
  BY <1>1, <1>2, <1>3 DEF Logged
<1>7. Answered
  BY <1>1, <1>3 DEF Answered
<1> QED
  BY <1>4, <1>5, <1>6, <1>7 DEF TalkInv

(* Whatever the model streams, refuses or breaks off: what is stored as    *)
(* the answer is what the client was shown as the answer, of one attempt,  *)
(* and is stored before the log calls the turn done; a stored plan keeps   *)
(* the bounds of its complexity; a turn that is over has one outcome.      *)
THEOREM TurnsAreSound == AgentSpec => []TurnSound
<1>1. AgentInit => TalkInv
  BY TalkInit DEF AgentInit
<1>2. TalkInv /\ [AgentNext]_agentVars => TalkInv'
  <2> SUFFICES ASSUME TalkInv, [AgentNext]_agentVars PROVE TalkInv'
    OBVIOUS
  <2>1. CASE Talk!Next
    <3>1. Spoke(stage, attempt, answers, seen)' /\ Stored' /\ Logged(stage, log)' /\ Answered'
      BY <2>1, TurnAssumption, TalkStaysSpoke, TalkStaysStored, TalkStaysLogged, TalkStaysAnswered
      DEF TalkInv
    <3> QED
      BY <3>1 DEF TalkInv
  <2>2. CASE UNCHANGED turnVars
    BY <2>2, TalkStutters
  <2> QED
    BY <2>1, <2>2 DEF AgentNext, agentVars
<1>3. TalkInv => TurnSound
  <2> SUFFICES ASSUME TalkInv PROVE Talk!TurnSound
    BY DEF TurnSound
  <2>1. /\ Spoke(stage, attempt, answers, seen) /\ Stored /\ Logged(stage, log) /\ Answered
    BY DEF TalkInv
  <2>2. \A i, j \in DOMAIN seen :
          /\ seen[i].attempt = seen[j].attempt
          /\ seen[i].kind = "notice" => Len(seen) = 1
    BY <2>1 DEF Spoke
  <2>3. message # None =>
          message = Talk!Strip(Talk!Filtered(seen, {p \in Talk!Piece : p.kind # "thought"}))
    <3>1. Talk!Filtered(seen, {p \in Talk!Piece : p.kind # "thought"}) = Filtered(seen, Spoken)
      BY DEF Talk!Filtered, Filtered, Spoken
    <3> QED
      BY <2>1, <3>1 DEF Spoke, Stored
  <2>4. stored = None /\ Talk!Contains(log, "task_done") => message # None
    BY <2>1 DEF Talk!Contains, Answered
  <2>5. stored # None =>
          /\ 1 <= stored.steps /\ message = None
          /\ stored.steps <= IF stored.source = "llm" THEN Talk!MaxSteps[Talk!Complexity(told)] ELSE 4
          /\ stored.source = "llm" /\ ~stored.warned => stored.steps >= Talk!MinSteps[Talk!Complexity(told)]
    BY <2>1 DEF Stored, Bounded
  <2>6. Talk!Outcomes = Filtered(log, Finals)
    BY DEF Talk!Outcomes, Talk!Filtered, Filtered, Finals
  <2>7. Len(Talk!Outcomes) <= 1 /\ (stage = "over" => Len(Talk!Outcomes) = 1)
    BY <2>1, <2>6 DEF Logged
  <2> QED
    BY <2>2, <2>3, <2>4, <2>5, <2>7 DEF Talk!TurnSound
<1> QED
  BY <1>1, <1>2, <1>3, PTL DEF AgentSpec
=============================================================================
