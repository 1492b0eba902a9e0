-------------------------------- MODULE Cards -------------------------------
(***************************************************************************)
(* The conversation as the page shows it (conversation/view-model.ts,      *)
(* AgentRunBlock): the messages as bubbles and, for each plan_created      *)
(* event, a card with the steps and the outcome of the plan's runs, worked *)
(* out from the session's events alone.                                    *)
(*                                                                         *)
(* A plan may run several times: it is resumed after an error, or started  *)
(* afresh in the background.  Such a run may still be going when the next  *)
(* message makes another plan, and a run that is cut off writes nothing    *)
(* more.                                                                   *)
(***************************************************************************)
EXTENDS Naturals, Sequences, FiniteSets

CONSTANTS
  Plans,     \* identities of plans, each with one step
  Texts,     \* answers
  None,      \* no plan, no text
  MaxRuns,   \* bound: runs at a time
  MaxEvents  \* bound: events of the session

VARIABLES
  log,       \* session_events in the order of created_at, with the messages
  runs       \* the runs that are going: [plan, phase], one per plan at a time

vars == <<log, runs>>

Types == {"plan_created", "step_started", "step_completed", "task_error", "task_done",
          "message"}

(* `step': the event tells of the plan's step.  `done', of an error: the   *)
(* run that failed, which is found by its run_id, had completed its step.  *)
(* `chat': payload.mode.                                                   *)
Event == [type : Types, plan : Plans \cup {None}, step : BOOLEAN, done : BOOLEAN,
          chat : BOOLEAN, text : Texts \cup {None}]

(* "resumed": the step is taken for done.                                  *)
Phases == {"step", "working", "worked", "resumed"}

TypeOK ==
  /\ log \in Seq(Event) /\ Len(log) <= MaxEvents
  /\ runs \subseteq [plan : Plans, phase : Phases]

Init == log = <<>> /\ runs = {}

-----------------------------------------------------------------------------
(* What is written: by the planner, by the runs of a plan, and by turns    *)
(* that are answered directly, whose errors name no plan and no mode.      *)
Entry(type, plan) ==
  [type |-> type, plan |-> plan, step |-> FALSE, done |-> FALSE, chat |-> FALSE,
   text |-> None]

Has(type, plan) == \E i \in DOMAIN log : log[i].type = type /\ log[i].plan = plan

Add(entries) == Len(log) + Len(entries) <= MaxEvents /\ log' = log \o entries

CreatePlan(p) ==
  /\ ~Has("plan_created", p)
  /\ Add(<<Entry("plan_created", p)>>)
  /\ UNCHANGED runs

Latest == LET plans == {i \in DOMAIN log : log[i].type = "plan_created"}
          IN  IF plans = {} THEN 0 ELSE CHOOSE i \in plans : \A j \in plans : j <= i

(* stream_latest_plan, _resume_context: the latest plan runs from its      *)
(* first step, or, resumed, after as many steps as the last run with an    *)
(* error had completed, whatever its plan.                                 *)
Failed == {i \in DOMAIN log : log[i].type = "task_error" /\ log[i].plan # None}

CountsAsDone == \E i \in Failed : log[i].done /\ \A j \in Failed : j <= i

StartRun(resume) ==
  /\ Latest # 0 /\ Cardinality(runs) < MaxRuns
  /\ LET p == log[Latest].plan IN
     /\ \A r \in runs : r.plan # p
     /\ runs' = runs \cup
          {[plan |-> p, phase |-> IF resume /\ CountsAsDone THEN "resumed" ELSE "step"]}
  /\ UNCHANGED log

Go(r, phase) == runs' = (runs \ {r}) \cup {[r EXCEPT !.phase = phase]}

StepStarts(r) ==
  /\ r.phase = "step"
  /\ Add(<<[Entry("step_started", r.plan) EXCEPT !.step = TRUE]>>)
  /\ Go(r, "working")

StepCompletes(r) ==
  /\ r.phase = "working"
  /\ Add(<<[Entry("step_completed", r.plan) EXCEPT !.step = TRUE]>>)
  /\ Go(r, "worked")

(* The answer of the summary is a message first.                           *)
RunAnswers(r, text) ==
  /\ r.phase \in {"worked", "resumed"}
  /\ Add(<<[Entry("message", None) EXCEPT !.text = text],
           [Entry("task_done", r.plan) EXCEPT !.text = text]>>)
  /\ runs' = runs \ {r}

(* The machine's own failure names the step, an exception does not.        *)
RunFails(r, named) ==
  /\ Add(<<[Entry("task_error", r.plan) EXCEPT !.step = named,
                                               !.done = (r.phase = "worked")]>>)
  /\ runs' = runs \ {r}

CutOff(r) == runs' = runs \ {r} /\ UNCHANGED log

ChatAnswers(text) ==
  /\ Add(<<[Entry("message", None) EXCEPT !.text = text],
           [Entry("task_done", None) EXCEPT !.chat = TRUE, !.text = text]>>)
  /\ UNCHANGED runs

TurnFails == Add(<<Entry("task_error", None)>>) /\ UNCHANGED runs

Next ==
  \/ \E p \in Plans : CreatePlan(p)
  \/ \E resume \in BOOLEAN : StartRun(resume)
  \/ \E r \in runs : \/ StepStarts(r) \/ StepCompletes(r) \/ CutOff(r)
                     \/ \E text \in Texts : RunAnswers(r, text)
                     \/ \E named \in BOOLEAN : RunFails(r, named)
  \/ \E text \in Texts : ChatAnswers(text)
  \/ TurnFails

Spec == Init /\ [][Next]_vars

-----------------------------------------------------------------------------
(* What is shown.  eventsForPlanWindow: from a plan to the next one.       *)
PlanEvents == {i \in DOMAIN log : log[i].type = "plan_created"}

Window(card) ==
  {i \in DOMAIN log : i >= card /\ \A next \in PlanEvents : card < next => i < next}

Terminals(card) == {i \in Window(card) : log[i].type \in {"task_done", "task_error"}}

FirstOf(S) == CHOOSE i \in S : \A j \in S : i <= j
LastOf(S) == CHOOSE i \in S : \A j \in S : i >= j

(* finalEvent: the last one that names the plan, else the first one that   *)
(* is not the answer of a chat, 0 if there is none.                        *)
OwnTerminals(card) == {i \in Terminals(card) : log[i].plan = log[card].plan}

AnyTerminals(card) == Terminals(card)

OtherTerminals(card) == {i \in Terminals(card) : ~log[i].chat}

FinalEventFirst(card) ==
  IF OwnTerminals(card) # {} THEN FirstOf(OwnTerminals(card))
  ELSE IF OtherTerminals(card) # {} THEN FirstOf(OtherTerminals(card)) ELSE 0

FinalEvent(card) ==
  IF OwnTerminals(card) # {} THEN LastOf(OwnTerminals(card))
  ELSE IF OtherTerminals(card) # {} THEN FirstOf(OtherTerminals(card)) ELSE 0

(* buildStepViews: an error of the step counts most, then its completion.  *)
StepStatus(card) ==
  LET told(type) == \E i \in Window(card) :
                      log[i].type = type /\ log[i].step /\ log[i].plan = log[card].plan
  IN  IF told("task_error") THEN "failed"
      ELSE IF told("step_completed") THEN "completed"
      ELSE IF told("step_started") THEN "running" ELSE "pending"

(* buildTimelineItems: the answer of a run is left to its card.            *)
FinalAnswersOfAll == {log[i].text : i \in {j \in DOMAIN log : log[j].type = "task_done"}}

FinalAnswers == {log[i].text : i \in {j \in DOMAIN log :
                                        log[j].type = "task_done" /\ ~log[j].chat}}

Bubbles == {i \in DOMAIN log : /\ log[i].type = "message"
                               /\ PlanEvents = {} \/ log[i].text \notin FinalAnswers}

-----------------------------------------------------------------------------
(* A run that failed before entry i had completed a step of another plan.  *)
Credited(i, p) ==
  \E j \in Failed : j < i /\ log[j].done /\ log[j].plan # p

(* However the runs of plans and the turns in between follow one another,  *)
(* the card of a plan that ended while it was the latest shows how its     *)
(* last run there ended, a direct answer never ends a card, and a card     *)
(* that shows the answer of its plan shows no step as still to be done,    *)
(* unless a run of another plan failed before, whose completed step a run  *)
(* of this one may have been credited with.  And no answer is lost: each   *)
(* is a bubble or the text of a card, unless its run was followed by       *)
(* another of the same plan or outlived its card.                          *)
CardsTellTheRun ==
  /\ \A card \in PlanEvents :
       LET final == FinalEvent(card) IN
       /\ final # 0 => ~log[final].chat
       /\ \A i \in OwnTerminals(card) :
            final >= i /\ log[final].plan = log[card].plan
       /\ final # 0 /\ log[final].type = "task_done" /\ log[final].plan = log[card].plan =>
            \/ StepStatus(card) \in {"completed", "failed"}
            \/ Credited(final, log[card].plan)
  /\ \A i \in DOMAIN log :
       log[i].type = "message" =>
         \/ i \in Bubbles
         \/ \E card \in PlanEvents : FinalEvent(card) # 0 /\
                                     log[FinalEvent(card)].text = log[i].text
         \/ \E done \in DOMAIN log :
              /\ log[done].type = "task_done" /\ log[done].text = log[i].text
              /\ ~log[done].chat
              /\ LET card == CHOOSE c \in PlanEvents : log[c].plan = log[done].plan
                 IN  done \notin Window(card) \/ FinalEvent(card) > done
=============================================================================
