---------------------------- MODULE ControlPlane ----------------------------
(***************************************************************************)
(* The task state of the control plane (ControlPlaneService): updates      *)
(* under an expected version, and checkpoints that form a graph and can be *)
(* restored.                                                               *)
(*                                                                         *)
(* Every request has a database session of its own.  An update compares    *)
(* the version it has read with the expected one in Python and writes the  *)
(* columns of its patch without a condition, so that a request which has   *)
(* read the same version in the meantime writes as well.  state_hash is    *)
(* left out: the hash of the task is never compared, and the hash of a     *)
(* checkpoint, which is never written again, is always right; requirements *)
(* and decisions, which are rows of a table of their own and are replaced  *)
(* all at once; and the status a restore chooses.                          *)
(***************************************************************************)
EXTENDS Naturals, Sequences

CONSTANTS
  Clients,        \* requests, each used once
  Goals,          \* values of the goal, standing for the plain columns
  Constraints,    \* what must_preserve may hold
  MaxCheckpoints, \* bound: checkpoints of the task
  None            \* no request; a column the patch leaves alone

VARIABLES
  task,        \* the row of the task
  request,     \* what each request has read and is about to write
  accepted,    \* updates that were answered with success
  checkpoints  \* the checkpoints of the task, in order of creation

vars == <<task, request, accepted, checkpoints>>

States == [goal : Goals, preserve : SUBSET Constraints]
Patches == [goal : Goals \cup {None},
            preserve : (SUBSET Constraints) \cup {None}]
Updates == [step : {"write", "over", "refused"}, read : States, version : Nat, patch : Patches]

TypeOK ==
  /\ task \in [state : States, version : Nat]
  /\ request \in [Clients -> Updates \cup {None}]
  /\ accepted \in Nat
  /\ checkpoints \in Seq([state : States, parent : Nat])
  /\ \A k \in DOMAIN checkpoints : checkpoints[k].parent < k

(* create_task.                                                            *)
Init ==
  /\ task = [state |-> [goal |-> CHOOSE g \in Goals : TRUE, preserve |-> Constraints],
             version |-> 1]
  /\ request = [c \in Clients |-> None]
  /\ accepted = 0
  /\ checkpoints = <<>>

-----------------------------------------------------------------------------
(* Of a patch the columns are written that differ from what was read.      *)
PatchedWholeRow(now, read, patch) ==
  [column \in DOMAIN now |-> IF patch[column] = None THEN read[column] ELSE patch[column]]

Patched(now, read, patch) ==
  [column \in DOMAIN now |-> IF patch[column] \in {None, read[column]}
                            THEN now[column] ELSE patch[column]]

(* update_task, as far as the row is read.  The request is refused with    *)
(* code 409 unless it expects the version that is read.                    *)
Read(c, patch, expected) ==
  /\ request[c] = None
  /\ request' = [request EXCEPT ![c] =
       [step |-> IF expected THEN "write" ELSE "refused",
        read |-> task.state, version |-> task.version, patch |-> patch]]
  /\ UNCHANGED <<task, accepted, checkpoints>>

(* restore_checkpoint: every column of the snapshot is an update like any  *)
(* other.                                                                  *)
ReadRestore(c, k, expected) == Read(c, checkpoints[k].state, expected)

(* The update statement and its commit: the version after the one that was *)
(* read.                                                                   *)
Write(c) ==
  /\ request[c] # None /\ request[c].step = "write"
  /\ task' = [state   |-> Patched(task.state, request[c].read, request[c].patch),
              version |-> request[c].version + 1]
  /\ accepted' = accepted + 1
  /\ request' = [request EXCEPT ![c].step = "over"]
  /\ UNCHANGED checkpoints

(* create_checkpoint and CheckpointValidator: the constraints of the       *)
(* parent, a checkpoint of the same task, must still be there.             *)
Validates(state, parent) ==
  parent # 0 => checkpoints[parent].state.preserve \subseteq state.preserve

CreateCheckpoint(parent) ==
  /\ Len(checkpoints) < MaxCheckpoints
  /\ Validates(task.state, parent)
  /\ checkpoints' = Append(checkpoints, [state |-> task.state, parent |-> parent])
  /\ UNCHANGED <<task, request, accepted>>

Next ==
  \/ \E c \in Clients, b \in BOOLEAN :
       \/ \E p \in Patches : Read(c, p, b)
       \/ \E k \in DOMAIN checkpoints : ReadRestore(c, k, b)
  \/ \E c \in Clients : Write(c)
  \/ \E parent \in {0} \cup DOMAIN checkpoints : CreateCheckpoint(parent)

Spec == Init /\ [][Next]_vars

-----------------------------------------------------------------------------
(* What is left of the promise of expected_version, that no update         *)
(* overwrites one its client has not seen (MEMORY_TOOL_CONTROL_PLANE.md):  *)
(* two requests that have read the same version are both accepted. As long *)
(* as no two accepted updates had read the same version, though, the       *)
(* version counts the updates; and however updates and restores overlap, a *)
(* column that one of them alone has changed keeps what it was changed to. *)
Accepted == {c \in Clients : request[c] # None /\ request[c].step = "over"}

Changes(c, column) ==
  request[c].patch[column] \notin {None, request[c].read[column]}

UpdatesSound ==
  /\ (\A c, d \in Accepted : request[c].version = request[d].version => c = d)
       => task.version = 1 + accepted
  /\ \A c \in Accepted, column \in {"goal", "preserve"} :
       (\A d \in Accepted : Changes(d, column) <=> d = c)
         => task.state[column] = request[c].patch[column]
=============================================================================
