---------------------------- MODULE AgentMachine ----------------------------
(***************************************************************************)
(* One execution run of the agent: AgentExecutionMachine with the router   *)
(* of domain/agent_runtime, its critic, its acceptance chain (acceptance   *)
(* gate, scope audit, coverage review) and its summariser, driven by       *)
(* ReActAgentService.stream_latest_plan, which turns an exception into a   *)
(* task_error event.                                                       *)
(*                                                                         *)
(* A node of the machine is one action; the summarising node is one action *)
(* per stage, because the run may be cancelled or may raise at every await *)
(* between two stages.  The event log is kept as far as the code reads it  *)
(* back: the executed and the accepted attempts, the failed verdicts of    *)
(* the acceptance chain, and the events written about the run as a whole.  *)
(***************************************************************************)
EXTENDS Naturals, Sequences, FiniteSets

CONSTANTS
  MaxSteps,      \* the longest plan
  MaxRetries,    \* acceptance_gate_max_retries
  Commands,      \* acceptance commands a plan may declare
  NoCommand,     \* the plan declares no (usable) acceptance command
  NoObservation, \* AgentRunState.observation is None
  Plans,         \* the plans the planner and the replanner may produce
  Wirings,       \* what the composition root injected
  Statuses,      \* terminal statuses a step execution may end with
  MaxAttempts,   \* bound: the critic asks for a retry below this attempt
  MaxReplans     \* bound: the critic asks for a replan this many times

SuccessStatuses == {"succeeded", "deduplicated"}
FinalFailureStatuses == {"failed", "timed_out", "denied"}

(* A plan, as far as the machine reads it: `gateRetry' and `scopeRetry'    *)
(* are the allow_retry flags, `scoped' that a ScopePolicy can be built,    *)
(* `enforce' the enforce_coverage flag.                                    *)
Plan == [steps : 1..MaxSteps, command : Commands \cup {NoCommand},
         gateRetry : BOOLEAN, scoped : BOOLEAN, scopeRetry : BOOLEAN,
         enforce : BOOLEAN]

Wiring == [gate : BOOLEAN, auditor : BOOLEAN, reviewer : BOOLEAN,
           replanner : BOOLEAN]

ASSUME MachineAssumption ==
  /\ MaxSteps \in Nat \ {0}
  /\ MaxRetries \in Nat
  /\ MaxAttempts \in Nat
  /\ MaxReplans \in Nat
  /\ NoCommand \notin Commands
  /\ Plans \subseteq Plan
  /\ Wirings \subseteq Wiring
  /\ Statuses \subseteq
       SuccessStatuses \cup FinalFailureStatuses \cup {"approval_required"}
  /\ NoObservation \notin Statuses

VARIABLES
  wiring,        \* the collaborators this machine was built with
  plan,          \* MachineSnapshot.plan
  start,         \* start_step_index the run was given
  phase,         \* AgentRunState.phase
  stream,        \* whether the generator runs, raised or was cancelled
  revision,      \* plan_revision, counted from the revision at the start
  stepIndex,     \* AgentRunState.step_index
  attempt,       \* AgentRunState.attempt
  observation,   \* AgentRunState.observation
  stage,         \* next stage of the summarising node
  chain,         \* chain_stages with status "passed"
  executed,      \* attempts with their status, and whether a tool was called
  accepted,      \* attempts with an accepting step_reflected event
  audits,        \* failed verdicts of the acceptance chain, in log order
  journal        \* events about the run as a whole, in log order

vars == <<wiring, plan, start, phase, stream, revision, stepIndex, attempt,
          observation, stage, chain, executed, accepted, audits, journal>>

Terminal == {"completed", "failed", "blocked"}
Phases == {"executing", "reflecting", "replanning", "summarizing"} \cup Terminal

Chain == {"acceptance_gate", "scope_audit", "coverage_review"}
Stages == Chain \cup {"chain_finished", "answer"}

Attempt == [rev : Nat, step : Nat, att : Nat]
Execution == [key : Attempt, status : Statuses, tools : BOOLEAN]
Verdict == [stage : Chain, command : Commands \cup {NoCommand}, key : Attempt]

RunEvents == {"plan_created", "acceptance_chain_finished", "step_blocked",
              "step_failed", "task_error", "message_created", "task_done"}
OutcomeEvents == {"task_done", "task_error", "step_blocked"}

TypeOK ==
  /\ wiring \in Wirings
  /\ plan \in Plans
  /\ start \in Nat
  /\ phase \in Phases
  /\ stream \in {"running", "raised", "cancelled"}
  /\ revision \in Nat
  /\ stepIndex \in 0..(plan.steps - 1)
  /\ attempt \in Nat \ {0}
  /\ observation \in Statuses \cup {NoObservation}
  /\ stage \in Stages
  /\ chain \subseteq Chain
  /\ executed \subseteq Execution
  /\ accepted \subseteq Attempt
  /\ audits \in Seq(Verdict)
  /\ journal \in Seq(RunEvents)

-----------------------------------------------------------------------------
(* Identity of an attempt: step_identity and the attempt number; the run   *)
(* id is the same throughout.                                              *)
Key(r, s, a) == [rev |-> r, step |-> s, att |-> a]
Current == Key(revision, stepIndex, attempt)

(* The loop of stream goes on while the phase is not terminal.             *)
Running == stream = "running" /\ phase \notin Terminal
At(p) == stream = "running" /\ phase = p
Ended == ~Running

(* How often the acceptance command c has failed in this run.              *)
CountGateFailures(c) ==
  Cardinality({i \in DOMAIN audits :
                 audits[i].stage = "acceptance_gate" /\ audits[i].command = c})

(* The shared count: all failed verdicts of the chain.                     *)
CountAuditFailures == Len(audits)

(* What the summariser may use: the tool events of accepted attempts.      *)
Evidence == {e \in executed : e.tools /\ e.key \in accepted}

(* Mutant of FromPlan: off by one at the last step.                        *)
FromPlanOffByOne(p, from) ==
  /\ plan' = p
  /\ phase' = IF from >= p.steps - 1 THEN "summarizing" ELSE "executing"
  /\ stepIndex' = IF from >= p.steps THEN p.steps - 1 ELSE from
  /\ attempt' = 1
  /\ observation' = NoObservation

(* AgentRunState.from_plan: a start past the last step goes straight to    *)
(* summarising, without an observation.                                    *)
FromPlan(p, from) ==
  /\ plan' = p
  /\ phase' = IF from >= p.steps THEN "summarizing" ELSE "executing"
  /\ stepIndex' = IF from >= p.steps THEN p.steps - 1 ELSE from
  /\ attempt' = 1
  /\ observation' = NoObservation

Init ==
  /\ wiring \in Wirings
  /\ plan \in Plans
  /\ start \in 0..plan.steps
  /\ phase = IF start >= plan.steps THEN "summarizing" ELSE "executing"
  /\ stream = "running"
  /\ revision = 0
  /\ stepIndex = IF start >= plan.steps THEN plan.steps - 1 ELSE start
  /\ attempt = 1
  /\ observation = NoObservation
  /\ stage = "acceptance_gate"
  /\ chain = {}
  /\ executed = {}
  /\ accepted = {}
  /\ audits = <<>>
  /\ journal = <<>>

-----------------------------------------------------------------------------
(* An exception leaves the machine; stream_latest_plan writes task_error.  *)
PersistError ==
  /\ stream' = "raised"
  /\ journal' = Append(journal, "task_error")

(* AgentStateRouter.after_execution *)
AfterExecution(status) ==
  /\ observation' = status
  /\ phase' = IF status = "approval_required" THEN "blocked" ELSE "reflecting"

(* Mutant of Accept: compares the index with the length.                   *)
AcceptPastEnd ==
  IF stepIndex = plan.steps
  THEN phase' = "summarizing" /\ UNCHANGED <<stepIndex, attempt>>
  ELSE phase' = "executing" /\ stepIndex' = stepIndex + 1 /\ attempt' = 1

(* AgentStateRouter._accept *)
Accept ==
  IF stepIndex + 1 = plan.steps
  THEN phase' = "summarizing" /\ UNCHANGED <<stepIndex, attempt>>
  ELSE phase' = "executing" /\ stepIndex' = stepIndex + 1 /\ attempt' = 1

(* Mutant of AfterReflection: a retry keeps the attempt's number.          *)
AfterReflectionSameAttempt(action) ==
  \/ action = "retry" /\ phase' = "executing" /\ UNCHANGED <<stepIndex, attempt>>
  \/ action = "replan" /\ phase' = "replanning" /\ UNCHANGED <<stepIndex, attempt>>
  \/ action = "accept" /\ Accept
  \/ action = "fail" /\ phase' = "failed" /\ UNCHANGED <<stepIndex, attempt>>

(* AgentStateRouter.after_reflection *)
AfterReflection(action) ==
  \/ /\ action = "retry"
     /\ phase' = "executing"
     /\ attempt' = attempt + 1
     /\ UNCHANGED stepIndex
  \/ action = "replan" /\ phase' = "replanning" /\ UNCHANGED <<stepIndex, attempt>>
  \/ action = "accept" /\ Accept
  \/ action = "fail" /\ phase' = "failed" /\ UNCHANGED <<stepIndex, attempt>>

(* Mutant of ReflectionEvents: the run's own error event is forgotten.     *)
ReflectionEventsStepOnly(action) ==
  IF action = "fail" THEN Append(journal, "step_failed") ELSE journal

(* _reflection_events: a failing verdict is also written as a task_error.  *)
ReflectionEvents(action) ==
  IF action = "fail" THEN journal \o <<"step_failed", "task_error">> ELSE journal

(* _execute_node.  The status of a step is that of its last tool call; a   *)
(* step whose model called no tool has succeeded.                          *)
ExecuteNode ==
  /\ At("executing")
  /\ \E status \in Statuses, tools \in BOOLEAN :
       /\ ~tools => status = "succeeded"
       /\ AfterExecution(status)
       /\ executed' = executed \cup
            {[key |-> Current, status |-> status, tools |-> tools]}
       /\ journal' = IF status = "approval_required"
                     THEN Append(journal, "step_blocked") ELSE journal
  /\ UNCHANGED <<wiring, plan, start, stream, revision, stepIndex, attempt,
                 stage, chain, accepted, audits>>

(* Mutant of CriticAnswers: accepts a failed observation.                  *)
CriticAnswersAnything(status) ==
  {"accept", "fail"}
    \cup (IF attempt < MaxAttempts THEN {"retry"} ELSE {})
    \cup (IF revision < MaxReplans THEN {"replan"} ELSE {})

(* CriticService.evaluate: what the critic may answer for an observation.  *)
(* Retries and replans it asks for are capped by the two bounds.           *)
CriticAnswers(status) ==
  {"fail"}
    \cup (IF status \in SuccessStatuses THEN {"accept"} ELSE {})
    \cup (IF attempt < MaxAttempts THEN {"retry"} ELSE {})
    \cup (IF revision < MaxReplans THEN {"replan"} ELSE {})

(* _reflect_node *)
ReflectNode ==
  /\ At("reflecting")
  /\ observation # NoObservation
  /\ \E action \in CriticAnswers(observation) :
       /\ AfterReflection(action)
       /\ accepted' = IF action = "accept" THEN accepted \cup {Current}
                      ELSE accepted
       /\ journal' = ReflectionEvents(action)
  /\ UNCHANGED <<wiring, plan, start, stream, revision, observation, stage,
                 chain, executed, audits>>

(* Mutant of ReplanNode: the new plan is entered at the old step.          *)
ReplanNodeInPlace ==
  /\ At("replanning")
  /\ wiring.replanner
  /\ \E p \in Plans : FromPlan(p, stepIndex)
  /\ revision' = revision + 1
  /\ journal' = Append(journal, "plan_created")
  /\ UNCHANGED <<wiring, start, stream, stage, chain, executed, accepted,
                 audits>>

(* _replan_node with a replanner *)
ReplanNode ==
  /\ At("replanning")
  /\ wiring.replanner
  /\ \E p \in Plans : FromPlan(p, 0)
  /\ revision' = revision + 1
  /\ journal' = Append(journal, "plan_created")
  /\ UNCHANGED <<wiring, start, stream, stage, chain, executed, accepted,
                 audits>>

(* _replan_node without a replanner, which is how the service composes it  *)
ReplanMissing ==
  /\ At("replanning")
  /\ ~wiring.replanner
  /\ PersistError
  /\ UNCHANGED <<wiring, plan, start, phase, revision, stepIndex, attempt,
                 observation, stage, chain, executed, accepted, audits>>

-----------------------------------------------------------------------------
(* The summarising node: the acceptance chain, then the answer.            *)

AtStage(s) == At("summarizing") /\ stage = s

MoveOn(ran, next) ==
  /\ stage' = next
  /\ chain' = chain \cup ran
  /\ UNCHANGED <<wiring, plan, start, phase, stream, revision, stepIndex,
                 attempt, observation, executed, accepted, audits, journal>>

(* Mutant of FailedTransition: the chain is run again on the same result.  *)
FailedTransitionRerunsChain(s, canRetry) ==
  /\ audits' = Append(audits,
                [stage |-> s, command |-> plan.command, key |-> Current])
  /\ stage' = "acceptance_gate"
  /\ chain' = {}
  /\ IF canRetry THEN UNCHANGED <<phase, journal>>
     ELSE phase' = "failed" /\ journal' = ReflectionEvents("fail")
  /\ UNCHANGED <<wiring, plan, start, stream, revision, stepIndex, attempt,
                 observation, executed, accepted>>

(* _gate_failed_transition, _scope_failed_transition and                   *)
(* _coverage_failed_transition: a synthetic reflection through the router. *)
(* The verdict at hand is not counted yet; without an observation the      *)
(* reflected event cannot be written and the run raises.                   *)
FailedTransition(s, canRetry) ==
  LET action == IF canRetry THEN "retry" ELSE "fail"
  IN /\ audits' = Append(audits,
                  [stage |-> s, command |-> plan.command, key |-> Current])
     /\ stage' = "acceptance_gate"
     /\ chain' = {}
     /\ IF observation = NoObservation
        THEN PersistError /\ UNCHANGED <<phase, stepIndex, attempt>>
        ELSE /\ AfterReflection(action)
             /\ journal' = ReflectionEvents(action)
             /\ UNCHANGED stream
     /\ UNCHANGED <<wiring, plan, start, revision, observation, executed,
                    accepted>>

GateDeclared == wiring.gate /\ plan.command # NoCommand
(* Mutant of GateCanRetry: one retry too many.                             *)
GateCanRetryOneMore ==
  plan.gateRetry /\ CountGateFailures(plan.command) <= MaxRetries

GateCanRetry ==
  plan.gateRetry /\ CountGateFailures(plan.command) < MaxRetries

GateCycle ==
  /\ AtStage("acceptance_gate")
  /\ \/ ~GateDeclared /\ MoveOn({}, "scope_audit")
     \/ GateDeclared /\ MoveOn({"acceptance_gate"}, "scope_audit")
     \/ GateDeclared /\ FailedTransition("acceptance_gate", GateCanRetry)

ScopeDeclared == wiring.auditor /\ plan.scoped
ScopeCanRetry == plan.scopeRetry /\ CountAuditFailures < MaxRetries

ScopeCycle ==
  /\ AtStage("scope_audit")
  /\ \/ ~ScopeDeclared /\ MoveOn({}, "coverage_review")
     \/ ScopeDeclared /\ MoveOn({"scope_audit"}, "coverage_review")
     \/ ScopeDeclared /\ FailedTransition("scope_audit", ScopeCanRetry)

CoverageCanRetry == plan.gateRetry /\ CountAuditFailures < MaxRetries

(* Mutant of CoverageCycle: advice that is not enforced reruns the chain.  *)
CoverageCycleAdvises ==
  /\ AtStage("coverage_review")
  /\ \/ ~wiring.reviewer /\ MoveOn({}, "chain_finished")
     \/ wiring.reviewer /\ MoveOn({"coverage_review"}, "chain_finished")
     \/ wiring.reviewer /\ ~plan.enforce /\ MoveOn({}, "acceptance_gate")
     \/ /\ wiring.reviewer /\ plan.enforce
        /\ FailedTransition("coverage_review", CoverageCanRetry)

(* An inadequate review blocks only when the plan enforces coverage.       *)
CoverageCycle ==
  /\ AtStage("coverage_review")
  /\ \/ ~wiring.reviewer /\ MoveOn({}, "chain_finished")
     \/ wiring.reviewer /\ MoveOn({"coverage_review"}, "chain_finished")
     \/ /\ wiring.reviewer /\ plan.enforce
        /\ FailedTransition("coverage_review", CoverageCanRetry)

(* _chain_finished_event: written when at least two stages ran.            *)
ChainFinished ==
  /\ AtStage("chain_finished")
  /\ stage' = "answer"
  /\ journal' = IF Cardinality(chain) >= 2
                THEN Append(journal, "acceptance_chain_finished") ELSE journal
  /\ UNCHANGED <<wiring, plan, start, phase, stream, revision, stepIndex,
                 attempt, observation, chain, executed, accepted, audits>>

(* The summariser answers from accepted evidence, or raises without any.   *)
Summarize ==
  /\ AtStage("answer")
  /\ IF Evidence = {}
     THEN PersistError /\ UNCHANGED phase
     ELSE /\ phase' = "completed"
          /\ UNCHANGED stream
          /\ journal' = journal \o <<"message_created", "task_done">>
  /\ UNCHANGED <<wiring, plan, start, revision, stepIndex, attempt,
                 observation, stage, chain, executed, accepted, audits>>

-----------------------------------------------------------------------------
(* A collaborator fails at an await: the model, a tool, the replanner, the *)
(* gate's command runner, the diff provider, an empty or malformed reply.  *)
Raise ==
  /\ Running
  /\ PersistError
  /\ UNCHANGED <<wiring, plan, start, phase, revision, stepIndex, attempt,
                 observation, stage, chain, executed, accepted, audits>>

(* Events about the run that the current node may have committed when it   *)
(* is cut off at one of its yields, before its transition is seen: a node  *)
(* writes its last events together, and they are committed at the first    *)
(* yield after they are written.                                           *)
RefusesForGood ==
  \/ stage = "acceptance_gate" /\ GateDeclared /\ ~GateCanRetry
  \/ stage = "scope_audit" /\ ScopeDeclared /\ ~ScopeCanRetry
  \/ /\ stage = "coverage_review" /\ wiring.reviewer /\ plan.enforce
     /\ ~CoverageCanRetry

CutOff(events) ==
  \/ events = <<>>
  \/ /\ phase = "executing" /\ "approval_required" \in Statuses
     /\ events = <<"step_blocked">>
  \/ phase = "reflecting" /\ events = <<"step_failed", "task_error">>
  \/ phase = "replanning" /\ wiring.replanner /\ events = <<"plan_created">>
  \/ /\ phase = "summarizing" /\ RefusesForGood
     /\ observation # NoObservation
     /\ events = <<"step_failed", "task_error">>
  \/ /\ AtStage("chain_finished") /\ Cardinality(chain) >= 2
     /\ events = <<"acceptance_chain_finished">>
  \/ /\ AtStage("answer") /\ Evidence # {}
     /\ events = <<"message_created", "task_done">>

(* The consumer cancels the stream: neither CancelledError nor             *)
(* GeneratorExit is an Exception, so no event tells of it.                 *)
Cancel ==
  /\ Running
  /\ stream' = "cancelled"
  /\ \E events \in {<<>>, <<"step_blocked">>, <<"step_failed", "task_error">>,
                     <<"plan_created">>, <<"acceptance_chain_finished">>,
                     <<"message_created", "task_done">>} :
       CutOff(events) /\ journal' = journal \o events
  /\ UNCHANGED <<wiring, plan, start, phase, revision, stepIndex, attempt,
                 observation, stage, chain, executed, accepted, audits>>

Dispatch ==
  \/ ExecuteNode \/ ReflectNode \/ ReplanNode \/ ReplanMissing
  \/ GateCycle \/ ScopeCycle \/ CoverageCycle \/ ChainFinished \/ Summarize

Next == Dispatch \/ Raise \/ Cancel

Spec == Init /\ [][Next]_vars

(* The machine's loop runs until the phase is terminal: each node returns. *)
FairSpec == Spec /\ WF_vars(Dispatch)

-----------------------------------------------------------------------------
(* Properties *)

(* The first step this run executes of the current plan.                   *)
First == IF revision = 0 THEN start ELSE 0

(* No attempt is executed twice.  The idempotency key of a step's tools is *)
(* the hash of its attempt identity, so a reused identity would make the   *)
(* tool runtime replay an old result instead of running the step again.    *)
FreshAttempt == At("executing") => \A e \in executed : e.key # Current

(* Only attempts that ran and succeeded are accepted, so that the answer   *)
(* rests on nothing else: critic_service rejects other accepts.            *)
AcceptedSucceeded ==
  \A k \in accepted :
    \E e \in executed : e.key = k /\ e.status \in SuccessStatuses

(* The summarising node is entered with every step of the current plan     *)
(* accepted in this run, its last step at the current attempt; a resumed   *)
(* run answers for the steps from its start index on.                      *)
WorkAccepted ==
  phase \in {"summarizing", "completed"} =>
    /\ \A i \in First..(plan.steps - 1) :
         \E k \in accepted : k.rev = revision /\ k.step = i
    /\ First < plan.steps => Current \in accepted

(* What the log says about the end of the run.                             *)
OutcomeIndices == {i \in DOMAIN journal : journal[i] \in OutcomeEvents}
Logged == {journal[i] : i \in OutcomeIndices}

(* A result the acceptance chain refused is not refused twice and never    *)
(* delivered: after a refusal the step is executed again, and a result the *)
(* log calls done, even that of a stream cut off right then, has passed    *)
(* every stage the plan and the wiring declare.                            *)
DeclaredStages ==
  {s \in Chain : \/ s = "acceptance_gate" /\ GateDeclared
                 \/ s = "scope_audit" /\ ScopeDeclared
                 \/ s = "coverage_review" /\ wiring.reviewer}

RefusedNotDelivered ==
  /\ "task_done" \in Logged =>
       /\ chain = DeclaredStages
       /\ \A i \in DOMAIN audits : audits[i].key # Current
  /\ \A i, j \in DOMAIN audits : audits[i].key = audits[j].key => i = j

(* The retries granted by the acceptance chain are bounded: each command   *)
(* of the gate is refused at most MaxRetries + 1 times in a run, and the   *)
(* two reviews together as often.                                          *)
CountReviewFailures ==
  Cardinality({i \in DOMAIN audits : audits[i].stage # "acceptance_gate"})

AuditRetriesBounded ==
  /\ \A c \in Commands : CountGateFailures(c) <= MaxRetries + 1
  /\ CountReviewFailures <= MaxRetries + 1

(* The log tells at most once how a run ended, as its last word, and tells *)
(* the truth; only a cancelled run may end without a word.                 *)
Outcome ==
  CASE stream = "raised"                          -> {"task_error"}
    [] stream = "running" /\ phase = "failed"     -> {"task_error"}
    [] stream = "running" /\ phase = "completed"  -> {"task_done"}
    [] stream = "running" /\ phase = "blocked"    -> {"step_blocked"}
    [] OTHER                                      -> {}

OneOutcome ==
  /\ OutcomeIndices \subseteq {Len(journal)}
  /\ stream # "cancelled" => Logged = Outcome

(* The machine implements the life cycle the services around it rely on.   *)
Run == INSTANCE AgentRun WITH
  outcome <- CASE stream = "raised" -> "raised"
               [] stream = "cancelled" -> "cancelled"
               [] stream = "running" /\ phase = "completed" -> "delivered"
               [] stream = "running" /\ phase = "failed" -> "failed"
               [] stream = "running" /\ phase = "blocked" -> "blocked"
               [] OTHER -> "open",
  total <- plan.steps,
  cursor <- IF phase \in {"summarizing", "completed"} THEN plan.steps
            ELSE stepIndex,
  replans <- revision

RunSpec == Run!Spec

(* Every run ends, given a critic that does not ask for retries or replans *)
(* for ever: the acceptance chain cannot keep a run alive.                 *)
Termination == <>Ended

-----------------------------------------------------------------------------
(* What the comments of the source say, and the code does not do.          *)

(* The stages of the chain share one quota of retries.                     *)
SharedRetryQuota == Len(audits) <= MaxRetries + 1

(* A stage that fails sends the run back to executing, or fails it.        *)
FailedStageRetriesOrFails ==
  [][Len(audits') > Len(audits) => phase' \in {"executing", "failed"}]_vars
=============================================================================
