---------------------------- MODULE SkillVersion ----------------------------
(***************************************************************************)
(* One version of a skill (SkillService): a draft is edited and published, *)
(* a published version is enabled, disabled and deprecated, and a version  *)
(* that is published and enabled is injected into the context of the       *)
(* agent.                                                                  *)
(*                                                                         *)
(* A request checks the version it has read, and after an await its        *)
(* statement writes the columns it names, whatever they are by then.       *)
(***************************************************************************)
CONSTANTS
  Clients,  \* requests that may be under way at the same time
  None      \* no request

VARIABLES
  skill,       \* the row of the version
  request,     \* of each client: the operation whose check has passed
  deprecated,  \* the version has been deprecated
  republished  \* a publication was written after that

vars == <<skill, request, deprecated, republished>>

Status == {"draft", "published", "deprecated"}
Operations == {"update", "publish", "enable", "disable", "deprecate", "delete"}

TypeOK ==
  /\ skill \in [status : Status, enabled : BOOLEAN, deleted : BOOLEAN]
  /\ request \in [Clients -> Operations \cup {None}]
  /\ deprecated \in BOOLEAN /\ republished \in BOOLEAN

(* create_skill and create_new_version: a draft, not enabled, under a key  *)
(* and version of its own.                                                 *)
Init ==
  /\ skill = [status |-> "draft", enabled |-> FALSE, deleted |-> FALSE]
  /\ request = [c \in Clients |-> None]
  /\ deprecated = FALSE /\ republished = FALSE

-----------------------------------------------------------------------------
(* What each operation requires of the version it reads.                   *)
Permits(op) ==
  CASE op = "update"    -> skill.status = "draft"
    [] op = "publish"   -> skill.status = "draft"
    [] op = "enable"    -> skill.status = "published"
    [] op = "disable"   -> TRUE
    [] op = "deprecate" -> skill.status = "published"
    [] op = "delete"    -> ~(skill.status = "published" /\ skill.enabled)

Read(c, op) ==
  /\ request[c] = None
  /\ ~skill.deleted
  /\ Permits(op)
  /\ request' = [request EXCEPT ![c] = op]
  /\ UNCHANGED <<skill, deprecated, republished>>

(* What each operation writes: deprecate both the switch and the status,   *)
(* delete the switch and the mark, update the texts, which are left out.   *)
WrittenKeepingStatus(op) ==
  CASE op = "publish"   -> [skill EXCEPT !.status = "published"]
    [] op = "enable"    -> [skill EXCEPT !.enabled = TRUE]
    [] op = "disable"   -> [skill EXCEPT !.enabled = FALSE]
    [] op = "deprecate" -> [skill EXCEPT !.enabled = FALSE]
    [] op = "delete"    -> [skill EXCEPT !.enabled = FALSE, !.deleted = TRUE]
    [] OTHER            -> skill

Written(op) ==
  CASE op = "publish"   -> [skill EXCEPT !.status = "published"]
    [] op = "enable"    -> [skill EXCEPT !.enabled = TRUE]
    [] op = "disable"   -> [skill EXCEPT !.enabled = FALSE]
    [] op = "deprecate" -> [skill EXCEPT !.enabled = FALSE, !.status = "deprecated"]
    [] op = "delete"    -> [skill EXCEPT !.enabled = FALSE, !.deleted = TRUE]
    [] OTHER            -> skill

(* A version that was deleted in the meantime is left alone.               *)
Write(c) ==
  /\ request[c] # None
  /\ LET op == request[c] IN
     IF skill.deleted THEN UNCHANGED <<skill, deprecated, republished>>
     ELSE /\ skill' = Written(op)
          /\ deprecated' = (deprecated \/ op = "deprecate")
          /\ republished' = \/ op = "publish" /\ deprecated
                            \/ op # "deprecate" /\ republished
  /\ request' = [request EXCEPT ![c] = None]

Next ==
  \E c \in Clients :
    \/ \E op \in Operations : Read(c, op)
    \/ Write(c)

Spec == Init /\ [][Next]_vars

-----------------------------------------------------------------------------
(* list_injectable.                                                        *)
Injectable == ~skill.deleted /\ skill.enabled /\ skill.status = "published"

(* A deprecated version is not injected again, however many requests had   *)
(* read it before, unless one of them was a publication: of those, the     *)
(* last to write decides.                                                  *)
DeprecatedStaysOut == deprecated /\ ~republished => ~Injectable
=============================================================================
