--------------------------- MODULE AgentServices ----------------------------
(***************************************************************************)
(* The services an agent works with, from a message of the user to the     *)
(* verdict on what it did: the turn, the loop of a step, the choice of a   *)
(* tool, remote servers, the stages of the acceptance chain, the todo      *)
(* board, and the checkpoints.  They share neither state nor a lock.       *)
(*                                                                         *)
(* The parameters of each component are described in its module.           *)
(***************************************************************************)
EXTENDS Service, Integers, Sequences, FiniteSets

CONSTANTS
  MaxPieces, Asked,                                      \* Turn
  StepTools, Provides, Requires, MaxTurns, MaxCalls,     \* StepLoop
  StepLimit, ToolLimit, TokenLimit, MaxRequests,
  Goals, StepTexts, Contexts, MaxIndex,                  \* Selection
  Servers, Agents, Transport, Default, Loaded,           \* Remote
  MaxChanges,
  Paths,                                                 \* Verdicts
  Todos,                                                 \* TodoBoard
  TaskGoals, Constraints, MaxCheckpoints                 \* ControlPlane

VARIABLES
  stage, told, thinking, attempt, seen, answers,
  message, stored, log,                            \* Turn
  place, mode, turn, requests, batches, result,
  total, used, tokens, observed,                   \* StepLoop
  goal, context, index, said, choice,              \* Selection
  remotes, manager, changes, ask, sent,            \* Remote
  case, verdict, noted,                            \* Verdicts
  plan, board, mark,                               \* TodoBoard
  task, request, accepted, checkpoints             \* ControlPlane

turnVars == <<stage, told, thinking, attempt, seen, answers, message, stored, log>>
stepVars == <<place, mode, turn, requests, batches, result,
              total, used, tokens, observed>>
choiceVars == <<goal, context, index, said, choice>>
remoteVars == <<remotes, manager, changes, ask, sent>>
verdictVars == <<case, verdict, noted>>
todoVars == <<plan, board, mark>>
controlVars == <<task, request, accepted, checkpoints>>

agentVars == <<part, turnVars, stepVars, choiceVars, remoteVars, verdictVars,
               todoVars, controlVars>>

Talk == INSTANCE Turn WITH task <- told, shown <- seen, plan <- stored

Step == INSTANCE StepLoop WITH Tools <- StepTools

Pick == INSTANCE Selection WITH Steps <- StepTexts

Far == INSTANCE Remote

Stage == INSTANCE Verdicts

Todo == INSTANCE TodoBoard

Control == INSTANCE ControlPlane WITH Goals <- TaskGoals

-----------------------------------------------------------------------------
(* What the proofs ask of the parameters; `None' is not a value of any of  *)
(* the things it is the absence of.                                        *)
ASSUME AgentAssumption ==
  /\ TaskGoals # {} /\ None \notin Control!Updates
  /\ None \notin Stage!Codes /\ None \notin Stage!Cases
  /\ Servers \in Seq(Far!ServerSet) /\ Far!IsInjective(Servers) /\ Default \in Agents

(* A budget of nothing is refused (ToolBudget.__post_init__).              *)
ASSUME BudgetAssumption ==
  /\ IsFiniteSet(StepTools)
  /\ StepLimit \in Nat \ {0} /\ ToolLimit \in Nat \ {0} /\ MaxRequests \in Nat \ {0}

(* A plan is made of a number of steps, and a plan or an answer is not     *)
(* `None'.                                                                 *)
ASSUME TurnAssumption ==
  Asked \subseteq Nat /\ None \notin Talk!Plan /\ None \notin Seq(Talk!Piece)

-----------------------------------------------------------------------------
AgentInit ==
  /\ Talk!Init /\ Step!Init /\ Pick!Init /\ Far!Init /\ Stage!Init
  /\ Todo!Init /\ Control!Init
  /\ thinking => part = "turn"

AgentNext ==
  /\ UNCHANGED part
  /\ IF part = "turn" THEN Talk!Next ELSE UNCHANGED turnVars
  /\ IF part = "step" THEN Step!Next ELSE UNCHANGED stepVars
  /\ IF part = "choice" THEN Pick!Next ELSE UNCHANGED choiceVars
  /\ IF part = "remote" THEN Far!Next ELSE UNCHANGED remoteVars
  /\ IF part = "verdicts" THEN Stage!Next ELSE UNCHANGED verdictVars
  /\ IF part = "todo" THEN Todo!Next ELSE UNCHANGED todoVars
  /\ IF part = "control" THEN Control!Next ELSE UNCHANGED controlVars

AgentSpec == AgentInit /\ [][AgentNext]_agentVars

-----------------------------------------------------------------------------
(* What a component of the agent keeps has the type its module gives it.   *)
AgentTypes ==
  /\ part = "turn" => Talk!TypeOK
  /\ part = "step" => Step!TypeOK
  /\ part = "choice" => Pick!TypeOK
  /\ part = "remote" => Far!TypeOK
  /\ part = "verdicts" => Stage!TypeOK
  /\ part = "todo" => Todo!TypeOK
  /\ part = "control" => Control!TypeOK

(* What a client sees of an answer is of one attempt and is what is        *)
(* stored, and a plan has the steps it was asked for                       *)
(* (agent_direct_chat_service.py, planner_service.py).                     *)
TurnSound == part = "turn" => Talk!TurnSound

(* A step keeps to its budgets up to one batch, providers end before what  *)
(* requires them starts, and the result tells what the calls did           *)
(* (agent_loop.py).                                                        *)
StepSound == part = "step" => Step!StepSound

(* Without a model a tool that leaves the process is called only if the    *)
(* words of the task itself ask for it (tool_selection_service.py).        *)
SelectionSound == part = "choice" => Pick!SelectionSound

(* A request reaches a remote at most once, and only one that is on        *)
(* (mcp_service.py, a2a_service.py).                                       *)
RemoteSound == part = "remote" => Far!RemoteSound

(* What leaves the process does so because the task asks for it, once and  *)
(* to a remote that is on.                                                 *)
OutsideSound == SelectionSound /\ RemoteSound

(* A model never lets pass what the rules refuse, and a refusal has a      *)
(* reason (scope_audit_service.py, coverage_review_service.py).            *)
VerdictsSound == part = "verdicts" => Stage!VerdictsSound

(* Versions count the updates of a task as long as no two of them had read *)
(* the same one, and no column is taken back by an update of others        *)
(* (control_plane_repository.py).                                          *)
UpdatesSound == part = "control" => Control!UpdatesSound

(* Overlapping marks take no todo of a plan back from done, and the board  *)
(* never blocks itself (todo_service.py).                                  *)
BoardSound == Todo!BoardSound
=============================================================================
