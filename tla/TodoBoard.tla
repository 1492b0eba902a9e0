----------------------------- MODULE TodoBoard -----------------------------
(***************************************************************************)
(* The todo list of a session (TodoService): a board derived from the      *)
(* latest plan_created event by replaying the todo_updated events after    *)
(* it, and the marks that write such events.                               *)
(*                                                                         *)
(* A mark reads the board, and writes its event after an await; two of     *)
(* them, or a mark and a new plan, may overlap.  The board is kept here    *)
(* instead of the log: replaying one more event is what Replay does to it. *)
(***************************************************************************)
EXTENDS FiniteSets

CONSTANTS
  Todos,    \* the steps a plan may have
  Clients,  \* requests that may be under way at the same time
  None      \* no plan, no mark

VARIABLES
  plan,   \* depends_on of each todo in the latest plan
  board,  \* the board its events rebuild
  mark    \* of each client: the event it is about to write

vars == <<plan, board, mark>>

TodoStatus == {"pending", "in_progress", "done", "failed", "skipped"}

TypeOK ==
  /\ plan \in [Todos -> SUBSET Todos] \cup {None}
  /\ board \in [Todos -> TodoStatus]
  /\ mark \in [Clients -> [todo : Todos, status : TodoStatus] \cup {None}]

AllPending == [t \in Todos |-> "pending"]

Init ==
  /\ plan = None
  /\ board = AllPending
  /\ mark = [c \in Clients |-> None]

-----------------------------------------------------------------------------
(* _ALLOWED_TRANSITIONS.                                                   *)
Allowed ==
  [pending     |-> {"in_progress", "done", "skipped", "failed"},
   in_progress |-> {"done", "failed"},
   done        |-> {},
   failed      |-> {"in_progress", "skipped"},
   skipped     |-> {"pending"}]

(* _check_topology finds no cycle: every set of todos has one that depends *)
(* on none of them.                                                        *)
Acyclic(deps) ==
  \A S \in (SUBSET Todos) \ {{}} : \E t \in S : deps[t] \cap S = {}

(* get_board: a plan whose dependencies form a cycle has no board, and the *)
(* request fails.                                                          *)
HasBoard == plan # None /\ Acyclic(plan)

(* _apply_todo_event: an event that the board does not allow is skipped.   *)
ReplayUnchecked(b, todo, status) == [b EXCEPT ![todo] = status]

Replay(b, todo, status) ==
  IF status \in Allowed[b[todo]] THEN [b EXCEPT ![todo] = status] ELSE b

(* next_runnable: the pending todos whose dependencies are done or         *)
(* skipped, of which the first is returned.                                *)
Runnable == {t \in Todos : /\ board[t] = "pending"
                           /\ \A d \in plan[t] : board[d] \in {"done", "skipped"}}

-----------------------------------------------------------------------------
(* A plan_created event: the progress of the plan before it is void.       *)
NewPlan(deps) ==
  /\ plan' = deps
  /\ board' = AllPending
  /\ UNCHANGED mark

(* update_status and sync_from_step_event up to the write: the transition  *)
(* is checked on the board as it is now.                                   *)
Read(c, todo, status) ==
  /\ mark[c] = None
  /\ HasBoard
  /\ status \in Allowed[board[todo]]
  /\ mark' = [mark EXCEPT ![c] = [todo |-> todo, status |-> status]]
  /\ UNCHANGED <<plan, board>>

(* The event is appended to the log as it then is, and replayed by the     *)
(* next one who reads the board.                                           *)
Write(c) ==
  /\ mark[c] # None
  /\ board' = IF HasBoard THEN Replay(board, mark[c].todo, mark[c].status) ELSE board
  /\ mark' = [mark EXCEPT ![c] = None]
  /\ UNCHANGED plan

Next ==
  \/ \E deps \in [Todos -> SUBSET Todos] : NewPlan(deps)
  \/ \E c \in Clients :
       \/ \E t \in Todos, s \in TodoStatus : Read(c, t, s)
       \/ Write(c)

Spec == Init /\ [][Next]_vars

-----------------------------------------------------------------------------
(* Marks that overlap cannot take a todo of a plan back from done: the     *)
(* later event of the log no longer applies to the board.  And the board   *)
(* never blocks itself: while a todo is pending, one can be run, or is     *)
(* running, or has failed and can be tried again or skipped.               *)
BoardSound ==
  /\ [][\A t \in Todos : board[t] = "done" => \/ board'[t] = "done"
                                              \/ board' = AllPending]_vars
  /\ [](HasBoard /\ (\E t \in Todos : board[t] = "pending") =>
          Runnable # {} \/ \E t \in Todos : board[t] \in {"in_progress", "failed"})
=============================================================================
