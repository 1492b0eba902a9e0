---------------------------- MODULE MemoryStore ----------------------------
(***************************************************************************)
(* The long-term memories about one fact, that is one subject and          *)
(* predicate.  The write gate decides with what status a memory is stored  *)
(* (MemoryWriteGate, MemoryService), a conflict of values retires one of   *)
(* two memories (MemoryConflictService), and a retrieval injects the       *)
(* memories that are retrievable (MemoryRetrievalService).  The lifecycle  *)
(* pass changes confidence and authority, on which none of this depends.   *)
(*                                                                         *)
(* Each request has a transaction of its own: what it has read may have    *)
(* changed when it writes, and it writes only the columns it changes.      *)
(***************************************************************************)
EXTENDS FiniteSets

CONSTANTS
  Memories,     \* memories that may be created
  None          \* no row, no request

VARIABLES
  row,       \* agent_memories
  creating,  \* of each memory: create_memory between its scan and its commit
  verifying, \* of each memory: what verify_memory has read, while it runs
  dated,     \* memories that were given a deadline
  retired    \* memories that another one has replaced

vars == <<row, creating, verifying, dated, retired>>

Status == {"candidate", "verified", "superseded", "deleted"}

(* valid_to: null, later than now, or not.                                 *)
Until == {"open", "future", "past"}

(* `proven': the provenance and the verification that are stored meet the  *)
(* rules of the gate for the kind of the memory.                           *)
Row == [status : Status, enabled : BOOLEAN, deleted : BOOLEAN, until : Until,
        proven : BOOLEAN]
Creation == [row : Row, losers : SUBSET Memories]
Verification == [until : Until, seen : [status : Status, until : Until] \cup {None}]

TypeOK ==
  /\ row \in [Memories -> Row \cup {None}]
  /\ creating \in [Memories -> Creation \cup {None}]
  /\ verifying \in [Memories -> Verification \cup {None}]
  /\ dated \subseteq Memories /\ retired \subseteq Memories

Init ==
  /\ row = [m \in Memories |-> None]
  /\ creating = [m \in Memories |-> None]
  /\ verifying = [m \in Memories |-> None]
  /\ dated = {} /\ retired = {}

Stored == {m \in Memories : row[m] # None}
Live == {m \in Stored : ~row[m].deleted}

-----------------------------------------------------------------------------
(* MemoryWriteGate.evaluate, for a proposal that is neither empty nor      *)
(* secret nor out of scope, which would be refused.                        *)
Passes(inferred, proven) == proven /\ ~inferred

GateStatusTrusting(requested, inferred, proven) == requested

GateStatus(requested, inferred, proven) ==
  IF requested = "verified" /\ Passes(inferred, proven) THEN "verified" ELSE "candidate"

(* detect_conflicts over list_for_lifecycle: the memories that may be in   *)
(* conflict, if their values differ.                                       *)
Conflicts == {m \in Live : row[m].status # "superseded"}

(* resolve and pick_winner: of each pair one is retired, by rank or by the *)
(* time of its last update as the strategy says.  With manual_review, and  *)
(* when the resolution fails, which is swallowed, none is.                 *)
Losers(m) == SUBSET (Conflicts \cup IF Conflicts = {} THEN {} ELSE {m})

(* mark_superseded, which looks at neither status nor deleted_at.          *)
RetireOpenEnded(r) == [r EXCEPT !.status = "superseded", !.enabled = FALSE]

Retire(r) == [r EXCEPT !.status = "superseded", !.enabled = FALSE, !.until = "past"]

-----------------------------------------------------------------------------
(* create_memory up to its commit: the gate, the row, the memories that    *)
(* lose against it, and the one it names in supersedes.                    *)
Propose(m, requested, inferred, proven, until) ==
  /\ row[m] = None /\ creating[m] = None
  /\ \E losers \in Losers(m), named \in {{}} \cup {{o} : o \in Stored} :
       creating' = [creating EXCEPT ![m] =
         [row |-> [status |-> GateStatus(requested, inferred, proven),
                   enabled |-> TRUE, deleted |-> FALSE, until |-> until,
                   proven |-> proven],
          losers |-> losers \cup named]]
  /\ dated' = IF until = "open" THEN dated ELSE dated \cup {m}
  /\ UNCHANGED <<row, verifying, retired>>

Commit(m) ==
  /\ creating[m] # None
  /\ LET losers == creating[m].losers
         new == [row EXCEPT ![m] = creating[m].row] IN
     /\ row' = [o \in Memories |-> IF o \in losers THEN Retire(new[o]) ELSE new[o]]
     /\ retired' = retired \cup losers
  /\ creating' = [creating EXCEPT ![m] = None]
  /\ UNCHANGED <<verifying, dated>>

(* verify_memory: the memory is read, whatever its status, and judged with *)
(* a new authority, provenance and verification; what fails is refused     *)
(* with code 422.                                                          *)
StartVerify(m, inferred, proven) ==
  /\ m \in Live /\ verifying[m] = None
  /\ Passes(inferred, proven)
  /\ verifying' = [verifying EXCEPT ![m] = [until |-> row[m].until, seen |-> None]]
  /\ UNCHANGED <<row, creating, dated, retired>>

(* The repository's update loads the row again,                            *)
LoadVerify(m) ==
  /\ verifying[m] # None /\ verifying[m].seen = None
  /\ verifying' = [verifying EXCEPT ![m] =
       IF m \in Live
       THEN [@ EXCEPT !.seen = [status |-> row[m].status, until |-> row[m].until]]
       ELSE None]
  /\ UNCHANGED <<row, creating, dated, retired>>

(* and writes the columns that differ from what it has loaded: the         *)
(* deadline is the one of the first read, unless that was null.            *)
EndVerify(m) ==
  /\ verifying[m] # None /\ verifying[m].seen # None
  /\ LET v == verifying[m] IN
     row' = [row EXCEPT
       ![m].proven = TRUE,
       ![m].status = IF v.seen.status = "verified" THEN @ ELSE "verified",
       ![m].until = IF v.until \in {"open", v.seen.until} THEN @ ELSE v.until]
  /\ verifying' = [verifying EXCEPT ![m] = None]
  /\ UNCHANGED <<creating, dated, retired>>

(* update_memory, as far as it enables and disables, and delete_memory.    *)
Enable(m, enabled) ==
  /\ m \in Live
  /\ row' = [row EXCEPT ![m].enabled = enabled]
  /\ UNCHANGED <<creating, verifying, dated, retired>>

Delete(m) ==
  /\ m \in Live
  /\ row' = [row EXCEPT ![m].status = "deleted", ![m].deleted = TRUE]
  /\ UNCHANGED <<creating, verifying, dated, retired>>

(* The deadline of a memory passes, for whoever has read it as well.       *)
Passed(until) == IF until = "future" THEN "past" ELSE until

Expire(m) ==
  /\ m \in Stored /\ m \in dated
  /\ \/ row[m].until = "future"
     \/ verifying[m] # None /\ verifying[m].until = "future"
  /\ row' = [row EXCEPT ![m].until = Passed(@)]
  /\ verifying' = [verifying EXCEPT ![m] =
       IF @ = None THEN None
       ELSE [until |-> Passed(@.until),
             seen  |-> IF @.seen = None THEN None
                       ELSE [status |-> @.seen.status, until |-> Passed(@.seen.until)]]]
  /\ UNCHANGED <<creating, dated, retired>>

(* is_retrievable and list_retrievable: what a retrieval may inject.       *)
Retrievable(m) ==
  /\ m \in Live
  /\ row[m].enabled /\ row[m].status = "verified" /\ row[m].until # "past"

Next ==
  \E m \in Memories :
    \/ \E q \in {"candidate", "verified"}, i, p \in BOOLEAN, u \in {"open", "future"} :
         Propose(m, q, i, p, u)
    \/ Commit(m)
    \/ \E i, p \in BOOLEAN : StartVerify(m, i, p)
    \/ LoadVerify(m) \/ EndVerify(m)
    \/ \E b \in BOOLEAN : Enable(m, b)
    \/ Delete(m)
    \/ Expire(m)

Spec == Init /\ [][Next]_vars

-----------------------------------------------------------------------------
(* What is injected has evidence the gate accepts: no sequence of updates, *)
(* conflicts and verifications makes a proposal retrievable.  And a memory *)
(* that another one has replaced is never injected again: not when it is   *)
(* verified or enabled again, nor when such a request had read it before   *)
(* it was replaced.  (A memory with a deadline may be: a verification that *)
(* overlaps the replacement writes back the deadline that the replacement  *)
(* has brought forward.)                                                   *)
InjectedIsCurrent ==
  \A m \in Memories : Retrievable(m) => row[m].proven /\ m \notin retired \ dated
=============================================================================
