-------------------------------- MODULE Turn --------------------------------
(***************************************************************************)
(* What becomes of one message of a user (AgentRunnerService): either the  *)
(* model answers it at once (AgentDirectChatService), every piece of the   *)
(* answer being shown to the client as it comes, or the model plans it     *)
(* (PlannerService) and the plan is executed by the machine of the run.    *)
(* Then the session is given a title, and the stream ends.                 *)
(*                                                                         *)
(* SessionRuns is about the status of the session meanwhile; here it is    *)
(* what the client sees, what is stored, and which plan is made.           *)
(***************************************************************************)
EXTENDS Naturals, Sequences, SequencesExt, PyLists

CONSTANTS
  MaxPieces,  \* bound: pieces of one answer
  Asked,      \* numbers of steps the model may answer with
  None

VARIABLES
  stage,     \* how far the turn has come
  task,      \* what the planner sees in the text of the task
  thinking,  \* attempts of the model that ask for its thoughts
  attempt,
  shown,     \* pieces the client has seen, each with its attempt
  answers,   \* pieces of the answer collected so far
  message,   \* the stored answer
  plan,      \* the stored plan
  log        \* outcomes written to the log of the session

vars == <<stage, task, thinking, attempt, shown, answers, message, plan, log>>

Stages == {"new", "answering", "storing", "closing", "planning", "executing",
           "titling", "over", "broken", "left"}
Kinds == {"thought", "text", "blank", "notice"}
Piece == [kind : Kinds, attempt : 1 .. 2]

(* ComplexitySignals: the length of the task in three ranges, the number   *)
(* of heavy words in it, and what else it mentions.                        *)
Lengths == {"short", "medium", "long"}
Signals == [length : Lengths, hits : {0, 1, 3}, tests : BOOLEAN, files : BOOLEAN,
            components : BOOLEAN]

(* `steps': how many, the first ones of the model's, or those of the plan  *)
(* that is made without it.                                                *)
Plan == [source : {"llm", "fallback"}, steps : Nat, warned : BOOLEAN]

TypeOK ==
  /\ stage \in Stages
  /\ task \in Signals \cup {None}
  /\ thinking \in BOOLEAN /\ attempt \in 1 .. 2
  /\ shown \in Seq(Piece) /\ answers \in Seq(Piece)
  /\ message \in Seq(Piece) \cup {None}
  /\ plan \in Plan \cup {None}
  /\ log \in Seq({"task_done", "task_error", "plan_created"})

Init ==
  /\ stage = "new" /\ task = None /\ plan = None /\ message = None
  /\ thinking \in BOOLEAN /\ attempt = 1
  /\ shown = <<>> /\ answers = <<>> /\ log = <<>>

-----------------------------------------------------------------------------
(* _persist_error: the turn failed, or the log cannot be written either.   *)
Fail ==
  \/ stage' = "titling" /\ log' = Append(log, "task_error")
  \/ stage' = "broken" /\ UNCHANGED log

(* The message of the user is stored, and needs_agent_pipeline decides on  *)
(* its words; an empty or unstorable one fails.                            *)
Begin ==
  /\ stage = "new"
  /\ \/ stage' = "answering" /\ UNCHANGED <<task, log>>
     \/ stage' = "planning" /\ task' \in Signals /\ UNCHANGED log
     \/ Fail /\ UNCHANGED task
  /\ UNCHANGED <<thinking, attempt, shown, answers, message, plan>>

-----------------------------------------------------------------------------
(* A direct answer.                                                        *)
Show(kind) ==
  LET piece == [kind |-> kind, attempt |-> attempt] IN
  /\ shown' = Append(shown, piece)
  /\ answers' = IF kind = "thought" THEN answers ELSE Append(answers, piece)

Receive(kind) ==
  /\ stage = "answering" /\ Len(shown) < MaxPieces
  /\ Show(kind)
  /\ UNCHANGED <<stage, task, thinking, attempt, message, plan, log>>

Complete ==
  /\ stage = "answering"
  /\ stage' = "storing"
  /\ UNCHANGED <<task, thinking, attempt, shown, answers, message, plan, log>>

(* An AppException of the model: once something was shown it is raised;    *)
(* else the model is asked again without its thoughts, and at last the     *)
(* client is told that it is not available, as the answer.                 *)
MayAskAgainIfUnanswered == answers = <<>>
MayAskAgain == answers = <<>> /\ shown = <<>>

(* Mutant of AskAgain: nothing counts how often the model was asked.       *)
AskAgainEachTime ==
  /\ stage = "answering" /\ MayAskAgain
  /\ IF thinking
     THEN attempt' = attempt + 1 /\ UNCHANGED <<stage, shown, answers>>
     ELSE /\ LET notice == [kind |-> "notice", attempt |-> attempt] IN
             shown' = Append(shown, notice) /\ answers' = <<notice>>
          /\ stage' = "storing" /\ UNCHANGED attempt
  /\ UNCHANGED <<task, thinking, message, plan, log>>

AskAgain ==
  /\ stage = "answering" /\ MayAskAgain
  /\ IF thinking /\ attempt = 1
     THEN attempt' = 2 /\ UNCHANGED <<stage, shown, answers>>
     ELSE /\ LET notice == [kind |-> "notice", attempt |-> attempt] IN
             shown' = Append(shown, notice) /\ answers' = <<notice>>
          /\ stage' = "storing" /\ UNCHANGED attempt
  /\ UNCHANGED <<task, thinking, message, plan, log>>

Refuse ==
  /\ stage = "answering" /\ ~MayAskAgain
  /\ Fail
  /\ UNCHANGED <<task, thinking, attempt, shown, answers, message, plan>>

(* Every other exception: in the context before the model is asked, or in  *)
(* what it streams.                                                        *)
Raise ==
  /\ stage \in {"answering", "storing", "closing", "planning", "executing"}
  /\ Fail
  /\ UNCHANGED <<task, thinking, attempt, shown, answers, message, plan>>

(* create_assistant_message, in a transaction of its own: "".join().strip()*)
(* and a placeholder when nothing is left.  When the answer of a commit is *)
(* lost, the session of the database accepts nothing more.                 *)
Strip(pieces) ==
  LET text == {k \in DOMAIN pieces : pieces[k].kind # "blank"} IN
  IF text = {} THEN <<>>
  ELSE SubSeq(pieces, CHOOSE k \in text : \A j \in text : k <= j,
                      CHOOSE k \in text : \A j \in text : j <= k)

Store ==
  /\ stage = "storing"
  /\ message' = Strip(answers)
  /\ stage' \in {"closing", "broken"}
  /\ UNCHANGED <<task, thinking, attempt, shown, answers, plan, log>>

(* _persist_answer: task_done and the status, in a second transaction.     *)
Close ==
  /\ stage = "closing"
  /\ log' = Append(log, "task_done")
  /\ stage' \in {"titling", "broken"}
  /\ UNCHANGED <<task, thinking, attempt, shown, answers, message, plan>>

-----------------------------------------------------------------------------
(* A plan.  GranularityPolicy.assess and _STEP_RANGES.                     *)
Complexity(t) ==
  IF t.length = "long" \/ t.hits >= 3 \/ (t.tests /\ t.files) THEN "heavy"
  ELSE IF t.length = "short" /\ t.hits = 0 /\ ~(t.tests \/ t.files \/ t.components)
       THEN "light" ELSE "standard"

MinSteps == [light |-> 2, standard |-> 4, heavy |-> 10]
MaxSteps == [light |-> 4, standard |-> 8, heavy |-> 15]

(* clamp_steps: more steps than the range has are cut off, fewer are left  *)
(* as they are.                                                            *)
Clamp(n, c) ==
  [source |-> "llm", steps |-> IF n > MaxSteps[c] THEN MaxSteps[c] ELSE n,
   warned |-> n \notin MinSteps[c] .. MaxSteps[c]]

(* _build_fallback_plan.                                                   *)
FallbackPlan == [source |-> "fallback", steps |-> 4, warned |-> FALSE]

(* _parse_llm_plan: what is no JSON, or has no step in it, is no plan.  (A *)
(* JSON value of another shape raises: see Raise.)                         *)
ParseKeepingEmpty(n) == Clamp(n, Complexity(task))

Parse(n) == IF n = 0 THEN FallbackPlan ELSE Clamp(n, Complexity(task))

(* stream_plan: the thoughts of the model are shown, and whatever an       *)
(* AppException leaves of the rest is dropped.                             *)
Think ==
  /\ stage = "planning" /\ Len(shown) < MaxPieces
  /\ Show("thought")
  /\ UNCHANGED <<stage, task, thinking, attempt, message, plan, log>>

StorePlan(made) ==
  /\ stage = "planning"
  /\ plan' = made
  /\ log' = Append(log, "plan_created")
  /\ stage' \in {"executing", "broken"}
  /\ UNCHANGED <<task, thinking, attempt, shown, answers, message>>

(* react_service.stream_latest_plan: the machine answers, or writes why it *)
(* does not; when it raises it has written nothing (AgentMachine).         *)
Execute(outcome) ==
  /\ stage = "executing"
  /\ log' = Append(log, outcome)
  /\ stage' = "titling"
  /\ UNCHANGED <<task, thinking, attempt, shown, answers, message, plan>>

-----------------------------------------------------------------------------
(* _auto_title, the session's status and stream_done.  The title is not    *)
(* part of the answer: a model that fails leaves it as it is, and a        *)
(* database that fails ends the stream.                                    *)
Title ==
  /\ stage = "titling"
  /\ stage' \in {"over", "broken"}
  /\ UNCHANGED <<task, thinking, attempt, shown, answers, message, plan, log>>

(* The client goes away at any yield: nothing more is done.                *)
Leave ==
  /\ stage \notin {"over", "broken", "left"}
  /\ stage' = "left"
  /\ UNCHANGED <<task, thinking, attempt, shown, answers, message, plan, log>>

Next ==
  \/ Begin
  \/ \E kind \in {"thought", "text", "blank"} : Receive(kind)
  \/ Complete \/ AskAgain \/ Refuse \/ Raise \/ Store \/ Close
  \/ Think
  \/ \E n \in Asked : StorePlan(Parse(n))
  \/ StorePlan(FallbackPlan)
  \/ \E outcome \in {"task_done", "task_error"} : Execute(outcome)
  \/ Title \/ Leave

Spec == Init /\ [][Next]_vars

-----------------------------------------------------------------------------
(* The client never sees the pieces of two attempts; what is stored as the *)
(* answer is what was shown as the answer, all of it, and the log calls it *)
(* done only then; a notice stands alone.  A stored plan has a step, and   *)
(* never more than its complexity allows.  A turn that is over has one     *)
(* outcome, and so has one that broke, or none.                            *)
Outcomes == Filtered(log, {"task_done", "task_error"})

TurnSound ==
  /\ \A i, j \in DOMAIN shown :
       /\ shown[i].attempt = shown[j].attempt
       /\ shown[i].kind = "notice" => Len(shown) = 1
  /\ message # None =>
       message = Strip(Filtered(shown, {p \in Piece : p.kind # "thought"}))
  /\ plan = None /\ Contains(log, "task_done") => message # None
  /\ plan # None =>
       /\ 1 <= plan.steps /\ message = None
       /\ plan.steps <= IF plan.source = "llm" THEN MaxSteps[Complexity(task)] ELSE 4
       /\ plan.source = "llm" /\ ~plan.warned => plan.steps >= MinSteps[Complexity(task)]
  /\ Len(Outcomes) <= 1
  /\ stage = "over" => Len(Outcomes) = 1
=============================================================================
