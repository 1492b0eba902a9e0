------------------------- MODULE AgentMachine_proofs -------------------------
(***************************************************************************)
(* Theorems about AgentMachine, for every set of plans and wirings and     *)
(* every quota of retries.                                                 *)
(***************************************************************************)
EXTENDS AgentMachine, ProofLemmas, FiniteSetTheorems, TLAPS

USE MachineAssumption

-----------------------------------------------------------------------------
(* Type correctness *)

(* A plan's length is positive, and never longer than MaxSteps. *)
LEMMA PlanFields ==
  ASSUME NEW p \in Plans
  PROVE  /\ p.steps \in Nat \ {0}
         /\ p.command \in Commands \cup {NoCommand}
  BY DEF Plan

(* The initial states have the types.                                      *)
LEMMA TypeInit == Init => TypeOK
  BY PlanFields DEF Init, TypeOK, Phases, Stages, Chain

(* Routing a failed verdict of the chain keeps the types. *)
LEMMA TypeFailed ==
  ASSUME TypeOK, NEW s \in Chain, NEW canRetry \in BOOLEAN,
         FailedTransition(s, canRetry)
  PROVE  TypeOK'
  <1> DEFINE action == IF canRetry THEN "retry" ELSE "fail"
  <1> USE PlanFields DEF TypeOK
  <1>1. Current \in Attempt
    BY DEF Current, Key, Attempt
  <1>2. audits' \in Seq(Verdict)
    BY <1>1 DEF FailedTransition, Verdict
  <1>3. CASE observation = NoObservation
    <2>1. journal' = Append(journal, "task_error")
      BY <1>3 DEF FailedTransition, PersistError
    <2>2. journal' \in Seq(RunEvents)
      BY <2>1 DEF RunEvents
    <2> QED  BY <1>2, <1>3, <2>2
             DEF FailedTransition, PersistError, Stages, Chain
  <1>4. CASE observation # NoObservation
    <2>1. AfterReflection(action) /\ journal' = ReflectionEvents(action)
      BY <1>4 DEF FailedTransition
    <2>2. journal' \in Seq(RunEvents)
      <3>1. <<"step_failed", "task_error">> \in Seq(RunEvents)
        BY DEF RunEvents
      <3> QED  BY <2>1, <3>1 DEF ReflectionEvents
    <2>3. /\ phase' \in Phases
          /\ stepIndex' = stepIndex
          /\ attempt' \in Nat \ {0}
      BY <2>1 DEF AfterReflection, Phases, Terminal
    <2> QED  BY <1>2, <1>4, <2>2, <2>3 DEF FailedTransition, Stages, Chain
  <1> QED  BY <1>3, <1>4

(* Every node, raise and cancellation keeps the types.                     *)
LEMMA TypeNext == TypeOK /\ [Next]_vars => TypeOK'
  <1> SUFFICES ASSUME TypeOK, [Next]_vars PROVE TypeOK'
    OBVIOUS
  <1> USE PlanFields DEF TypeOK
  <1>0. Current \in Attempt
    BY DEF Current, Key, Attempt
  <1>1. CASE ExecuteNode
    <2>1. PICK status \in Statuses, tools \in BOOLEAN :
            /\ AfterExecution(status)
            /\ executed' = executed \cup
                 {[key |-> Current, status |-> status, tools |-> tools]}
            /\ journal' = IF status = "approval_required"
                          THEN Append(journal, "step_blocked") ELSE journal
      BY <1>1 DEF ExecuteNode
    <2>2. executed' \subseteq Execution
      BY <1>0, <2>1 DEF Execution
    <2>3. journal' \in Seq(RunEvents)
      BY <2>1 DEF RunEvents
    <2>4. phase' \in Phases /\ observation' \in Statuses
      BY <2>1 DEF AfterExecution, Phases, Terminal
    <2> QED  BY <1>1, <2>2, <2>3, <2>4 DEF ExecuteNode
  <1>2. CASE ReflectNode
    <2>1. PICK action \in CriticAnswers(observation) :
            /\ AfterReflection(action)
            /\ accepted' = IF action = "accept" THEN accepted \cup {Current}
                           ELSE accepted
            /\ journal' = ReflectionEvents(action)
      BY <1>2 DEF ReflectNode
    <2>2. accepted' \subseteq Attempt
      BY <1>0, <2>1
    <2>3. journal' \in Seq(RunEvents)
      <3>1. <<"step_failed", "task_error">> \in Seq(RunEvents)
        BY DEF RunEvents
      <3> QED  BY <2>1, <3>1 DEF ReflectionEvents
    <2>4. /\ phase' \in Phases
          /\ stepIndex' \in 0..(plan.steps - 1)
          /\ attempt' \in Nat \ {0}
      BY <2>1 DEF AfterReflection, Accept, Phases, Terminal
    <2> QED  BY <1>2, <2>2, <2>3, <2>4 DEF ReflectNode
  <1>3. CASE ReplanNode
    <2>1. PICK p \in Plans : FromPlan(p, 0)
      BY <1>3 DEF ReplanNode
    <2>2. journal' \in Seq(RunEvents)
      BY <1>3 DEF ReplanNode, RunEvents
    <2> QED  BY <1>3, <2>1, <2>2 DEF ReplanNode, FromPlan, Phases
  <1>4. CASE ReplanMissing
    BY <1>4 DEF ReplanMissing, PersistError, RunEvents
  <1>5. ASSUME NEW ran \in SUBSET Chain, NEW next \in Stages,
               MoveOn(ran, next)
        PROVE  TypeOK'
    BY <1>5 DEF MoveOn
  <1>6. CASE GateCycle
    BY <1>5, <1>6, TypeFailed DEF GateCycle, Chain, Stages, GateCanRetry, Plan
  <1>7. CASE ScopeCycle
    BY <1>5, <1>7, TypeFailed DEF ScopeCycle, Chain, Stages, ScopeCanRetry, Plan
  <1>8. CASE CoverageCycle
    BY <1>5, <1>8, TypeFailed
    DEF CoverageCycle, Chain, Stages, CoverageCanRetry, Plan
  <1>9. CASE ChainFinished
    BY <1>9 DEF ChainFinished, RunEvents, Stages
  <1>10. CASE Summarize
    <2>1. <<"message_created", "task_done">> \in Seq(RunEvents)
      BY DEF RunEvents
    <2>2. \/ journal' = Append(journal, "task_error")
          \/ journal' = journal \o <<"message_created", "task_done">>
      BY <1>10 DEF Summarize, PersistError
    <2>3. journal' \in Seq(RunEvents)
      <3>1. CASE journal' = Append(journal, "task_error")
        BY <3>1 DEF RunEvents
      <3>2. CASE journal' = journal \o <<"message_created", "task_done">>
        BY <2>1, <3>2
      <3> QED  BY <2>2, <3>1, <3>2
    <2> QED  BY <1>10, <2>3 DEF Summarize, PersistError, Phases, Terminal
  <1>11. CASE Raise
    BY <1>11 DEF Raise, PersistError, RunEvents
  <1>12. CASE Cancel
    <2>1. PICK events \in {<<>>, <<"step_blocked">>,
                           <<"step_failed", "task_error">>, <<"plan_created">>,
                           <<"acceptance_chain_finished">>,
                           <<"message_created", "task_done">>} :
            journal' = journal \o events
      BY <1>12 DEF Cancel
    <2>2. events \in Seq(RunEvents)
      <3>1. /\ <<>> \in Seq(RunEvents)
            /\ <<"step_blocked">> \in Seq(RunEvents)
            /\ <<"plan_created">> \in Seq(RunEvents)
            /\ <<"acceptance_chain_finished">> \in Seq(RunEvents)
        BY DEF RunEvents
      <3>2. <<"step_failed", "task_error">> \in Seq(RunEvents)
        BY DEF RunEvents
      <3>3. <<"message_created", "task_done">> \in Seq(RunEvents)
        BY DEF RunEvents
      <3> HIDE DEF TypeOK
      <3> QED  BY <3>1, <3>2, <3>3, Zenon
    <2>3. journal' \in Seq(RunEvents)
      BY <2>1, <2>2
    <2> QED  BY <1>12, <2>3 DEF Cancel
  <1>13. CASE UNCHANGED vars
    BY <1>13 DEF vars
  <1> QED
    BY <1>1, <1>2, <1>3, <1>4, <1>6, <1>7, <1>8, <1>9, <1>10, <1>11, <1>12,
       <1>13 DEF Next, Dispatch

(* Every state a run reaches is well typed: in particular step_index never *)
(* leaves the plan, the IndexError from_plan's comment is about.           *)
THEOREM TypeCorrect == Spec => []TypeOK
  BY TypeInit, TypeNext, PTL DEF Spec

-----------------------------------------------------------------------------
(* The inductive invariant behind the safety theorems. *)

(* Executed attempts come before the current one, in the order of          *)
(* revision, step and attempt; the current one is among them only once it  *)
(* has been executed.                                                      *)
Before(k) ==
  \/ k.rev < revision
  \/ k.rev = revision /\ k.step < stepIndex
  \/ k.rev = revision /\ k.step = stepIndex /\ k.att < attempt

ExecutedBefore ==
  \A e \in executed : Before(e.key) \/ (phase # "executing" /\ e.key = Current)

(* What is being reflected upon has been executed, with that observation.  *)
Observed ==
  phase = "reflecting" =>
    \E e \in executed : e.key = Current /\ e.status = observation

(* The steps before the current one are accepted; a run that started past  *)
(* its last step has nothing to execute and no observation.                *)
Progress ==
  /\ First <= plan.steps
  /\ First = plan.steps =>
       phase \in {"summarizing", "completed"} /\ observation = NoObservation
  /\ First < plan.steps => First <= stepIndex
  /\ phase \in {"summarizing", "completed"} => stepIndex = plan.steps - 1
  /\ \A i \in First..(stepIndex - 1) :
       \E k \in accepted : k.rev = revision /\ k.step = i
  /\ phase \in {"summarizing", "completed"} /\ First < plan.steps =>
       Current \in accepted

AttemptInv ==
  TypeOK /\ ExecutedBefore /\ Observed /\ AcceptedSucceeded /\ Progress

(* A run starts with nothing executed and nothing accepted.                *)
LEMMA AttemptInit == Init => AttemptInv
  BY TypeInit, PlanFields
  DEF Init, AttemptInv, TypeOK, ExecutedBefore, Observed, AcceptedSucceeded,
      Progress, First

(* Within AttemptInv an executing run has not run its attempt before, and  *)
(* a summarising one has every step accepted.                              *)
LEMMA AttemptImplies == AttemptInv => FreshAttempt /\ WorkAccepted
  <1> SUFFICES ASSUME AttemptInv PROVE FreshAttempt /\ WorkAccepted
    OBVIOUS
  <1> USE PlanFields DEF AttemptInv, TypeOK
  <1>1. FreshAttempt
    BY DEF FreshAttempt, At, ExecutedBefore, Before, Current, Key, Execution,
           Attempt
  <1>2. WorkAccepted
    <2> SUFFICES ASSUME phase \in {"summarizing", "completed"},
                        NEW i \in First..(plan.steps - 1)
                 PROVE  \E k \in accepted : k.rev = revision /\ k.step = i
      BY DEF WorkAccepted, Progress
    <2>1. First \in Nat /\ stepIndex = plan.steps - 1
      BY DEF Progress, First
    <2>2. CASE i = stepIndex
      BY <2>1, <2>2 DEF Progress, Current, Key
    <2>3. CASE i # stepIndex
      BY <2>1, <2>3 DEF Progress
    <2> QED  BY <2>2, <2>3
  <1> QED  BY <1>1, <1>2

(* Steps that leave the attempt alone. *)
attemptVars == <<plan, start, revision, stepIndex, attempt, observation,
                 executed, accepted>>

(* A step that leaves the attempts alone keeps the invariant.              *)
LEMMA AttemptFrame ==
  ASSUME AttemptInv, TypeOK', UNCHANGED attemptVars,
         \/ phase' = phase
         \/ phase = "summarizing" /\ phase' = "completed"
  PROVE  AttemptInv'
  BY DEF attemptVars, AttemptInv, ExecutedBefore, Before, Observed,
         AcceptedSucceeded, Progress, First, Current, Key

(* A refused result: the last step is executed again, or the run fails.    *)
LEMMA AttemptFailed ==
  ASSUME AttemptInv, TypeOK', phase = "summarizing",
         NEW s \in Chain, NEW canRetry \in BOOLEAN,
         FailedTransition(s, canRetry)
  PROVE  AttemptInv'
  <1> USE PlanFields
  <1>1. CASE observation = NoObservation
    BY <1>1, AttemptFrame DEF FailedTransition, PersistError, attemptVars
  <1>2. CASE observation # NoObservation
    <2>1. /\ UNCHANGED <<plan, start, revision, stepIndex, observation,
                         executed, accepted>>
          /\ \/ phase' = "executing" /\ attempt' = attempt + 1
             \/ phase' = "failed" /\ attempt' = attempt
      BY <1>2 DEF FailedTransition, AfterReflection
    <2>2. First < plan.steps
      BY <1>2 DEF AttemptInv, TypeOK, Progress, First
    <2>3. ExecutedBefore'
      <3> SUFFICES ASSUME NEW e \in executed
                   PROVE  \/ Before(e.key)'
                          \/ phase' # "executing" /\ e.key = Current'
        BY <2>1 DEF ExecutedBefore
      <3>1. CASE Before(e.key)
        BY <2>1, <3>1 DEF Before, AttemptInv, TypeOK, Execution, Attempt
      <3>2. CASE e.key = Current
        BY <2>1, <3>2 DEF Before, Current, Key, AttemptInv, TypeOK
      <3> QED  BY <3>1, <3>2 DEF AttemptInv, ExecutedBefore
    <2>4. Observed' /\ AcceptedSucceeded'
      BY <2>1 DEF AttemptInv, Observed, AcceptedSucceeded
    <2>5. Progress'
      BY <2>1, <2>2 DEF AttemptInv, TypeOK, Progress, First
    <2> QED  BY <2>3, <2>4, <2>5 DEF AttemptInv
  <1> QED  BY <1>1, <1>2

(* Executing a step adds the current attempt, which is new.                *)
LEMMA AttemptExecute == AttemptInv /\ TypeOK' /\ ExecuteNode => AttemptInv'
  <1> SUFFICES ASSUME AttemptInv, TypeOK', ExecuteNode PROVE AttemptInv'
    OBVIOUS
  <1> USE PlanFields DEF AttemptInv, TypeOK
  <1>1. PICK status \in Statuses, tools \in BOOLEAN :
          /\ observation' = status
          /\ executed' = executed \cup
               {[key |-> Current, status |-> status, tools |-> tools]}
          /\ phase' \in {"blocked", "reflecting"}
    BY DEF ExecuteNode, AfterExecution
  <1>2. /\ UNCHANGED <<plan, start, revision, stepIndex, attempt, accepted>>
        /\ phase = "executing"
    BY DEF ExecuteNode, At
  <1>3. Current' = Current /\ (\A k : Before(k)' <=> Before(k))
    BY <1>2 DEF Current, Key, Before
  <1>4. ExecutedBefore'
    BY <1>1, <1>2, <1>3 DEF ExecutedBefore
  <1>5. Observed'
    <2> DEFINE e == [key |-> Current, status |-> status, tools |-> tools]
    <2>1. e \in executed' /\ e.key = Current' /\ e.status = observation'
      BY <1>1, <1>3
    <2> QED  BY <2>1 DEF Observed
  <1>6. AcceptedSucceeded'
    BY <1>1, <1>2 DEF AcceptedSucceeded
  <1>7. Progress'
    BY <1>1, <1>2 DEF Progress, First
  <1> QED  BY <1>4, <1>5, <1>6, <1>7

(* A reflection accepts the current attempt or makes room for the next.    *)
LEMMA AttemptReflect == AttemptInv /\ TypeOK' /\ ReflectNode => AttemptInv'
  <1> SUFFICES ASSUME AttemptInv, TypeOK', ReflectNode PROVE AttemptInv'
    OBVIOUS
  <1> USE PlanFields DEF AttemptInv, TypeOK
  <1>1. PICK action \in CriticAnswers(observation) :
          /\ AfterReflection(action)
          /\ accepted' = IF action = "accept" THEN accepted \cup {Current}
                         ELSE accepted
    BY DEF ReflectNode
  <1>2. /\ UNCHANGED <<plan, start, revision, observation, executed>>
        /\ phase = "reflecting"
    BY DEF ReflectNode, At
  <1>3. First' = First /\ First \in Nat /\ First <= stepIndex
    BY <1>2 DEF First, Progress
  <1>4. \A e \in executed : Before(e.key) \/ e.key = Current
    BY DEF ExecutedBefore
  <1>5. CASE action = "accept"
    <2>1. accepted' = accepted \cup {Current}
      BY <1>1, <1>5
    <2>2. observation \in SuccessStatuses
      BY <1>5 DEF CriticAnswers
    <2>3. AcceptedSucceeded'
      BY <1>2, <2>1, <2>2 DEF AcceptedSucceeded, Observed
    <2>4. \/ /\ phase' = "summarizing"
             /\ stepIndex + 1 = plan.steps
             /\ UNCHANGED <<stepIndex, attempt>>
          \/ /\ phase' = "executing"
             /\ stepIndex + 1 # plan.steps
             /\ stepIndex' = stepIndex + 1 /\ attempt' = 1
      BY <1>1, <1>5 DEF AfterReflection, Accept
    <2>5. ExecutedBefore' /\ Observed'
      <3>1. CASE phase' = "summarizing"
        <4>1. Current' = Current /\ (\A k : Before(k)' <=> Before(k))
          BY <1>2, <2>4, <3>1 DEF Current, Key, Before
        <4> QED  BY <1>2, <1>4, <3>1, <4>1 DEF ExecutedBefore, Observed
      <3>2. CASE phase' = "executing"
        <4>1. stepIndex' = stepIndex + 1 /\ revision' = revision
          BY <1>2, <2>4, <3>2
        <4>2. \A e \in executed : Before(e.key)'
          BY <1>4, <4>1, SMTT(30) DEF Before, Current, Key, Execution, Attempt
        <4> QED  BY <1>2, <3>2, <4>2 DEF ExecutedBefore, Observed
      <3> QED  BY <2>4, <3>1, <3>2
    <2>6. \A i \in First..stepIndex :
            \E k \in accepted' : k.rev = revision /\ k.step = i
      <3> SUFFICES ASSUME NEW i \in First..stepIndex
                   PROVE  \E k \in accepted' : k.rev = revision /\ k.step = i
        OBVIOUS
      <3>1. CASE i = stepIndex
        <4>1. Current.rev = revision /\ Current.step = i
          BY <3>1 DEF Current, Key
        <4> QED  BY <2>1, <4>1
      <3>2. CASE i # stepIndex
        <4>1. i \in First..(stepIndex - 1)
          BY <1>3, <3>2
        <4> QED  BY <2>1, <4>1 DEF Progress
      <3> QED  BY <3>1, <3>2
    <2>7. Current' \in accepted' \/ phase' = "executing"
      BY <1>2, <2>1, <2>4 DEF Current
    <2>8. /\ plan'.steps = plan.steps /\ First' <= plan'.steps
          /\ First' # plan'.steps
      BY <1>2, <1>3 DEF Progress
    <2>9. \A i \in First'..(stepIndex' - 1) :
            \E k \in accepted' : k.rev = revision' /\ k.step = i
      <3>1. First' = First /\ First \in Nat
        BY <1>3
      <3>2. stepIndex \in Nat
        OBVIOUS
      <3>3. stepIndex' = stepIndex \/ stepIndex' = stepIndex + 1
        BY <2>4
      <3>4. \A i \in First'..(stepIndex' - 1) : i \in First..stepIndex
        BY ONLY <3>1, <3>2, <3>3
      <3> QED  BY <1>2, <2>6, <3>4
    <2>10. First' <= stepIndex'
      BY <1>3, <2>4
    <2>11. phase' \in {"summarizing", "completed"} =>
             stepIndex' = plan'.steps - 1
      BY <2>4, <2>8
    <2>12. Progress'
      BY <2>7, <2>8, <2>9, <2>10, <2>11, <2>4 DEF Progress
    <2> QED  BY <2>3, <2>5, <2>12
  <1>6. CASE action # "accept"
    <2>1. /\ accepted' = accepted /\ stepIndex' = stepIndex
          /\ \/ phase' = "executing" /\ attempt' = attempt + 1
             \/ phase' \in {"replanning", "failed"} /\ attempt' = attempt
      BY <1>1, <1>6 DEF AfterReflection
    <2>2. ExecutedBefore' /\ Observed'
      BY <1>2, <1>4, <2>1
      DEF ExecutedBefore, Before, Observed, Current, Key, Execution, Attempt
    <2>3. AcceptedSucceeded'
      BY <1>2, <2>1 DEF AcceptedSucceeded
    <2>4. Progress'
      BY <1>2, <1>3, <2>1 DEF Progress
    <2> QED  BY <2>2, <2>3, <2>4
  <1> QED  BY <1>5, <1>6

(* A new plan starts a new revision: every earlier attempt comes before.   *)
LEMMA AttemptReplan == AttemptInv /\ TypeOK' /\ ReplanNode => AttemptInv'
  <1> SUFFICES ASSUME AttemptInv, TypeOK', ReplanNode PROVE AttemptInv'
    OBVIOUS
  <1> USE PlanFields DEF AttemptInv, TypeOK
  <1>1. PICK p \in Plans : FromPlan(p, 0)
    BY DEF ReplanNode
  <1>2. /\ plan' = p /\ p.steps \in Nat \ {0}
        /\ phase' = "executing" /\ stepIndex' = 0 /\ attempt' = 1
        /\ revision' = revision + 1
        /\ UNCHANGED <<executed, accepted>>
    BY <1>1 DEF ReplanNode, FromPlan
  <1>3. ExecutedBefore'
    <2>1. \A e \in executed : e.key.rev \in Nat /\ e.key.rev <= revision
      <3> SUFFICES ASSUME NEW e \in executed
                   PROVE  e.key.rev \in Nat /\ e.key.rev <= revision
        OBVIOUS
      <3>1. e.key.rev \in Nat
        BY DEF Execution, Attempt
      <3>2. CASE Before(e.key)
        BY <3>1, <3>2, SMTT(30) DEF Before
      <3>3. CASE e.key = Current
        BY <3>3 DEF Current, Key
      <3> QED  BY <3>2, <3>3 DEF ExecutedBefore
    <2>2. \A e \in executed : e.key.rev < revision'
      BY <1>2, <2>1
    <2> QED  BY <1>2, <2>2 DEF ExecutedBefore, Before
  <1>4. Observed' /\ AcceptedSucceeded'
    BY <1>2 DEF Observed, AcceptedSucceeded
  <1>5. Progress'
    <2>1. First' = 0
      BY <1>2 DEF First
    <2> QED  BY <1>2, <2>1 DEF Progress
  <1> QED  BY <1>3, <1>4, <1>5

(* Every step keeps the attempt invariant.                                 *)
LEMMA AttemptNext == AttemptInv /\ [Next]_vars => AttemptInv'
  <1> SUFFICES ASSUME AttemptInv, [Next]_vars PROVE AttemptInv'
    OBVIOUS
  <1>0. TypeOK'
    BY TypeNext DEF AttemptInv
  <1> USE AttemptFrame, <1>0 DEF attemptVars
  <1>1. CASE ExecuteNode
    BY <1>1, AttemptExecute
  <1>2. CASE ReflectNode
    BY <1>2, AttemptReflect
  <1>3. CASE ReplanNode
    BY <1>3, AttemptReplan
  <1>4. CASE ReplanMissing
    BY <1>4 DEF ReplanMissing
  <1>5. CASE GateCycle
    BY <1>5, AttemptFailed, PlanFields
    DEF GateCycle, MoveOn, AtStage, At, Chain, GateCanRetry, Plan, AttemptInv,
        TypeOK
  <1>6. CASE ScopeCycle
    BY <1>6, AttemptFailed, PlanFields
    DEF ScopeCycle, MoveOn, AtStage, At, Chain, ScopeCanRetry, Plan,
        AttemptInv, TypeOK
  <1>7. CASE CoverageCycle
    BY <1>7, AttemptFailed, PlanFields
    DEF CoverageCycle, MoveOn, AtStage, At, Chain, CoverageCanRetry, Plan,
        AttemptInv, TypeOK
  <1>8. CASE ChainFinished
    BY <1>8 DEF ChainFinished
  <1>9. CASE Summarize
    BY <1>9 DEF Summarize, AtStage, At
  <1>10. CASE Raise
    BY <1>10 DEF Raise
  <1>11. CASE Cancel
    BY <1>11 DEF Cancel
  <1>12. CASE UNCHANGED vars
    BY <1>12 DEF vars
  <1> QED
    BY <1>1, <1>2, <1>3, <1>4, <1>5, <1>6, <1>7, <1>8, <1>9, <1>10, <1>11,
       <1>12 DEF Next, Dispatch

(* No attempt is executed under an identity used before in the run, so the *)
(* idempotency keys of two executions never collide.                       *)
THEOREM AttemptsFresh == Spec => []FreshAttempt
  BY AttemptInit, AttemptNext, AttemptImplies, PTL DEF Spec

(* Only attempts that ran and succeeded are accepted.                      *)
THEOREM AcceptsRest == Spec => []AcceptedSucceeded
  <1>1. AttemptInv => AcceptedSucceeded
    BY DEF AttemptInv
  <1> QED  BY <1>1, AttemptInit, AttemptNext, PTL DEF Spec

(* A run reaches its summary only with the work of its plan accepted.      *)
THEOREM SummaryAfterWork == Spec => []WorkAccepted
  BY AttemptInit, AttemptNext, AttemptImplies, PTL DEF Spec

-----------------------------------------------------------------------------
(* The quotas of the acceptance chain *)

GateIndices(c) ==
  {i \in DOMAIN audits :
     audits[i].stage = "acceptance_gate" /\ audits[i].command = c}
ReviewIndices == {i \in DOMAIN audits : audits[i].stage # "acceptance_gate"}

(* A failed verdict is counted once, by the count of its own stage.        *)
LEMMA CountsGrow ==
  ASSUME TypeOK, NEW s \in Chain, NEW k \in Attempt,
         audits' = Append(audits,
                     [stage |-> s, command |-> plan.command, key |-> k])
  PROVE  /\ \A c \in Commands :
              /\ CountGateFailures(c) \in Nat
              /\ CountGateFailures(c)' \in Nat
              /\ CountGateFailures(c)' <= CountGateFailures(c) + 1
              /\ s # "acceptance_gate" \/ c # plan.command =>
                   CountGateFailures(c)' = CountGateFailures(c)
         /\ CountReviewFailures \in Nat
         /\ CountReviewFailures <= CountAuditFailures
         /\ CountReviewFailures' \in Nat
         /\ CountReviewFailures' <= CountReviewFailures + 1
         /\ s = "acceptance_gate" => CountReviewFailures' = CountReviewFailures
  <1> DEFINE n == Len(audits)
             v == [stage |-> s, command |-> plan.command, key |-> k]
  <1>1. n \in Nat /\ DOMAIN audits = 1..n
    BY DEF TypeOK
  <1>2. v \in Verdict
    BY PlanFields DEF Verdict, TypeOK
  <1>3. /\ DOMAIN audits' = 1..(n + 1)
        /\ \A i \in 1..n : audits'[i] = audits[i]
        /\ audits'[n + 1] = v
    BY <1>1, <1>2 DEF TypeOK
  <1>4. ASSUME NEW c \in Commands
        PROVE  /\ CountGateFailures(c) \in Nat
               /\ CountGateFailures(c)' \in Nat
               /\ CountGateFailures(c)' <= CountGateFailures(c) + 1
               /\ s # "acceptance_gate" \/ c # plan.command =>
                    CountGateFailures(c)' = CountGateFailures(c)
    <2>1. GateIndices(c) \in SUBSET (1..n)
      BY <1>1 DEF GateIndices
    <2>2. CASE s = "acceptance_gate" /\ c = plan.command
      <3>1. GateIndices(c)' = GateIndices(c) \cup {n + 1}
        BY <1>1, <1>3, <2>2 DEF GateIndices
      <3> QED  BY <1>1, <2>1, <2>2, <3>1, SelectionGrows
               DEF CountGateFailures, GateIndices
    <2>3. CASE s # "acceptance_gate" \/ c # plan.command
      <3>1. GateIndices(c)' = GateIndices(c)
        BY <1>1, <1>3, <2>3 DEF GateIndices
      <3> QED  BY <1>1, <2>1, <2>3, <3>1, SelectionGrows
               DEF CountGateFailures, GateIndices
    <2> QED  BY <2>2, <2>3
  <1>5. ReviewIndices \in SUBSET (1..n)
    BY <1>1 DEF ReviewIndices
  <1>6. CASE s # "acceptance_gate"
    <2>1. ReviewIndices' = ReviewIndices \cup {n + 1}
      BY <1>1, <1>3, <1>6 DEF ReviewIndices
    <2> QED  BY <1>1, <1>4, <1>5, <1>6, <2>1, SelectionGrows
             DEF CountReviewFailures, ReviewIndices, CountAuditFailures
  <1>7. CASE s = "acceptance_gate"
    <2>1. ReviewIndices' = ReviewIndices
      BY <1>1, <1>3, <1>7 DEF ReviewIndices
    <2> QED  BY <1>1, <1>4, <1>5, <1>7, <2>1, SelectionGrows
             DEF CountReviewFailures, ReviewIndices, CountAuditFailures
  <1> QED  BY <1>6, <1>7

(* While a run goes on every count is within the quota: the refusal that   *)
(* exceeds it ends the run.                                                *)
Live == stream = "running" /\ phase # "failed"

WithinQuota ==
  Live => /\ \A c \in Commands : CountGateFailures(c) <= MaxRetries
          /\ CountReviewFailures <= MaxRetries

QuotaInv == TypeOK /\ WithinQuota /\ AuditRetriesBounded

(* No stage has refused anything at the start.                             *)
LEMMA QuotaInit == Init => QuotaInv
  <1> SUFFICES ASSUME Init PROVE QuotaInv
    OBVIOUS
  <1>1. \A c : CountGateFailures(c) = 0
    <2>1. \A c : GateIndices(c) = {}
      BY DEF Init, GateIndices
    <2> QED  BY <2>1, FS_EmptySet DEF CountGateFailures, GateIndices
  <1>2. CountReviewFailures = 0
    <2>1. ReviewIndices = {}
      BY DEF Init, ReviewIndices
    <2> QED  BY <2>1, FS_EmptySet DEF CountReviewFailures, ReviewIndices
  <1> QED  BY <1>1, <1>2, TypeInit
           DEF QuotaInv, WithinQuota, AuditRetriesBounded

(* A step that writes no verdict keeps the counts.                         *)
LEMMA QuotaFrame ==
  ASSUME QuotaInv, TypeOK', UNCHANGED audits, Live' => Live
  PROVE  QuotaInv'
  BY DEF QuotaInv, WithinQuota, AuditRetriesBounded, CountGateFailures,
         CountReviewFailures

(* A refusal is counted, and the last one granted no retry.                *)
LEMMA QuotaFailed ==
  ASSUME QuotaInv, TypeOK', Live, NEW s \in Chain, NEW canRetry \in BOOLEAN,
         FailedTransition(s, canRetry),
         s = "acceptance_gate" => /\ plan.command \in Commands
                                  /\ canRetry =>
                                       CountGateFailures(plan.command) < MaxRetries,
         s # "acceptance_gate" /\ canRetry => CountAuditFailures < MaxRetries
  PROVE  QuotaInv'
  <1>1. Current \in Attempt
    BY PlanFields DEF QuotaInv, TypeOK, Current, Key, Attempt
  <1>2. audits' = Append(audits,
                    [stage |-> s, command |-> plan.command, key |-> Current])
    BY DEF FailedTransition
  <1>3. Live' => canRetry
    BY DEF FailedTransition, Live, PersistError, AfterReflection
  <1>4. CountAuditFailures \in Nat
    BY DEF QuotaInv, TypeOK, CountAuditFailures
  <1>5. ASSUME NEW c \in Commands
        PROVE  /\ CountGateFailures(c)' <= MaxRetries + 1
               /\ Live' => CountGateFailures(c)' <= MaxRetries
    <2>1. CountGateFailures(c) <= MaxRetries
      BY DEF QuotaInv, WithinQuota
    <2> QED  BY <1>1, <1>2, <1>3, <2>1, CountsGrow DEF QuotaInv
  <1>6. /\ CountReviewFailures' <= MaxRetries + 1
        /\ Live' => CountReviewFailures' <= MaxRetries
    <2>1. CountReviewFailures <= MaxRetries
      BY DEF QuotaInv, WithinQuota
    <2> QED  BY <1>1, <1>2, <1>3, <1>4, <2>1, CountsGrow DEF QuotaInv
  <1> QED  BY <1>5, <1>6 DEF QuotaInv, WithinQuota, AuditRetriesBounded

(* Every step keeps the bounds of the counts.                              *)
LEMMA QuotaNext == QuotaInv /\ [Next]_vars => QuotaInv'
  <1> SUFFICES ASSUME QuotaInv, [Next]_vars PROVE QuotaInv'
    OBVIOUS
  <1>0. TypeOK'
    BY TypeNext DEF QuotaInv
  <1> USE <1>0, PlanFields, QuotaFrame DEF Live, At, AtStage
  <1>1. CASE ExecuteNode
    BY <1>1 DEF ExecuteNode
  <1>2. CASE ReflectNode
    BY <1>2 DEF ReflectNode
  <1>3. CASE ReplanNode
    BY <1>3 DEF ReplanNode
  <1>4. CASE ReplanMissing
    BY <1>4 DEF ReplanMissing
  <1>5. CASE GateCycle
    <2>1. GateCanRetry \in BOOLEAN
      BY DEF GateCanRetry, QuotaInv, TypeOK, Plan
    <2>2. GateDeclared => plan.command \in Commands
      BY DEF GateDeclared, QuotaInv, TypeOK
    <2>3. CASE GateDeclared /\ FailedTransition("acceptance_gate", GateCanRetry)
      BY <1>5, <2>1, <2>2, <2>3, QuotaFailed
      DEF GateCycle, Chain, GateCanRetry
    <2> QED  BY <1>5, <2>3 DEF GateCycle, MoveOn
  <1>6. CASE ScopeCycle
    <2>1. ScopeCanRetry \in BOOLEAN
      BY DEF ScopeCanRetry, QuotaInv, TypeOK, Plan
    <2>2. CASE FailedTransition("scope_audit", ScopeCanRetry)
      BY <1>6, <2>1, <2>2, QuotaFailed DEF ScopeCycle, Chain, ScopeCanRetry
    <2> QED  BY <1>6, <2>2 DEF ScopeCycle, MoveOn
  <1>7. CASE CoverageCycle
    <2>1. CoverageCanRetry \in BOOLEAN
      BY DEF CoverageCanRetry, QuotaInv, TypeOK, Plan
    <2>2. CASE FailedTransition("coverage_review", CoverageCanRetry)
      BY <1>7, <2>1, <2>2, QuotaFailed
      DEF CoverageCycle, Chain, CoverageCanRetry
    <2> QED  BY <1>7, <2>2 DEF CoverageCycle, MoveOn
  <1>8. CASE ChainFinished
    BY <1>8 DEF ChainFinished
  <1>9. CASE Summarize
    BY <1>9 DEF Summarize
  <1>10. CASE Raise
    BY <1>10 DEF Raise, Running
  <1>11. CASE Cancel
    BY <1>11 DEF Cancel, Running
  <1>12. CASE UNCHANGED vars
    BY <1>12 DEF vars
  <1> QED
    BY <1>1, <1>2, <1>3, <1>4, <1>5, <1>6, <1>7, <1>8, <1>9, <1>10, <1>11,
       <1>12 DEF Next, Dispatch

(* Whatever the plans and the verdicts, the acceptance chain grants a      *)
(* bounded number of retries in a run.                                     *)
THEOREM ChainRetriesBounded == Spec => []AuditRetriesBounded
  <1>1. QuotaInv => AuditRetriesBounded
    BY DEF QuotaInv
  <1> QED  BY <1>1, QuotaInit, QuotaNext, PTL DEF Spec

-----------------------------------------------------------------------------
(* The log's last word *)

(* What the log tells of the outcome after one more event: nothing new if  *)
(* the event is not an outcome, and that event alone if none was there.    *)
LEMMA OutcomeAppended ==
  ASSUME journal \in Seq(RunEvents), NEW e \in RunEvents,
         journal' = Append(journal, e)
  PROVE  /\ e \notin OutcomeEvents =>
              /\ OutcomeIndices' = OutcomeIndices
              /\ Logged' = Logged
         /\ e \in OutcomeEvents /\ OutcomeIndices = {} =>
              /\ OutcomeIndices' = {Len(journal')}
              /\ Logged' = {e}
  <1>1. /\ Len(journal) \in Nat
        /\ Len(journal') = Len(journal) + 1
        /\ DOMAIN journal = 1..Len(journal)
        /\ DOMAIN journal' = 1..(Len(journal) + 1)
        /\ \A i \in DOMAIN journal : journal'[i] = journal[i]
        /\ journal'[Len(journal) + 1] = e
    OBVIOUS
  <1>2. CASE e \notin OutcomeEvents
    <2>1. OutcomeIndices' = OutcomeIndices
      BY <1>1, <1>2 DEF OutcomeIndices
    <2>2. \A i \in OutcomeIndices : journal'[i] = journal[i]
      BY <1>1 DEF OutcomeIndices
    <2> QED  BY <1>2, <2>1, <2>2 DEF Logged
  <1>3. CASE e \in OutcomeEvents /\ OutcomeIndices = {}
    <2>1. OutcomeIndices' = {Len(journal) + 1}
      BY <1>1, <1>3 DEF OutcomeIndices
    <2> QED  BY <1>1, <1>3, <2>1 DEF Logged
  <1> QED  BY <1>2, <1>3

(* The same for the two events that a node writes together.                *)
LEMMA OutcomeAppendedTwo ==
  ASSUME journal \in Seq(RunEvents), OutcomeIndices = {},
         NEW a \in RunEvents \ OutcomeEvents, NEW e \in OutcomeEvents,
         journal' = journal \o <<a, e>>
  PROVE  OutcomeIndices' = {Len(journal')} /\ Logged' = {e}
  <1>1. /\ Len(journal) \in Nat
        /\ Len(journal') = Len(journal) + 2
        /\ DOMAIN journal = 1..Len(journal)
        /\ DOMAIN journal' = 1..(Len(journal) + 2)
        /\ \A i \in DOMAIN journal : journal'[i] = journal[i]
        /\ journal'[Len(journal) + 1] = a
        /\ journal'[Len(journal) + 2] = e
    OBVIOUS
  <1>2. OutcomeIndices' = {Len(journal) + 2}
    BY <1>1 DEF OutcomeIndices
  <1> QED  BY <1>1, <1>2 DEF Logged

(* A log that does not change tells the same.                              *)
LEMMA OutcomeUnchanged ==
  ASSUME UNCHANGED journal
  PROVE  OutcomeIndices' = OutcomeIndices /\ Logged' = Logged
  BY DEF OutcomeIndices, Logged

OutcomeInv == TypeOK /\ OneOutcome

(* A run that goes on has not told its outcome.                            *)
LEMMA OutcomeOpen == OutcomeInv /\ Running => OutcomeIndices = {} /\ Logged = {}
  BY DEF OutcomeInv, OneOutcome, Running, Terminal, Outcome, Logged

(* An empty log tells nothing.                                             *)
LEMMA OutcomeInit == Init => OutcomeInv
  <1> SUFFICES ASSUME Init PROVE OutcomeInv
    OBVIOUS
  <1>1. journal = <<>> /\ stream = "running" /\ phase \notin Terminal
    BY DEF Init, Terminal
  <1>2. OutcomeIndices = {} /\ Logged = {}
    BY <1>1 DEF OutcomeIndices, Logged
  <1> QED  BY <1>1, <1>2, TypeInit
           DEF OutcomeInv, OneOutcome, Outcome, Terminal

(* A step after which the run goes on, or has gone on, without an outcome. *)
LEMMA OutcomeSilent ==
  ASSUME OutcomeInv, TypeOK', Running,
         \/ UNCHANGED journal
         \/ \E e \in RunEvents \ OutcomeEvents : journal' = Append(journal, e),
         stream' = "running" => phase' \notin Terminal,
         stream' # "raised"
  PROVE  OutcomeInv'
  <1>1. OutcomeIndices' = {} /\ Logged' = {}
    BY OutcomeOpen, OutcomeAppended, OutcomeUnchanged DEF OutcomeInv, TypeOK
  <1> QED  BY <1>1 DEF OutcomeInv, OneOutcome, Outcome, Terminal

(* A step that ends the run with the outcome e.                            *)
LEMMA OutcomeTold ==
  ASSUME OutcomeInv, TypeOK', Running, NEW e \in OutcomeEvents,
         \/ journal' = Append(journal, e)
         \/ \E a \in RunEvents \ OutcomeEvents : journal' = journal \o <<a, e>>,
         stream' = "cancelled" \/ Outcome' = {e}
  PROVE  OutcomeInv'
  <1>1. e \in RunEvents
    BY DEF OutcomeEvents, RunEvents
  <1>2. OutcomeIndices' = {Len(journal')} /\ Logged' = {e}
    BY <1>1, OutcomeOpen, OutcomeAppended, OutcomeAppendedTwo
    DEF OutcomeInv, TypeOK
  <1> QED  BY <1>2 DEF OutcomeInv, OneOutcome

(* An exception is told as a task_error.                                   *)
LEMMA OutcomeRaised ==
  ASSUME OutcomeInv, TypeOK', Running, PersistError
  PROVE  OutcomeInv'
  BY OutcomeTold DEF PersistError, OutcomeEvents, Outcome

(* The router's verdict: only a failure is an outcome.                     *)
LEMMA OutcomeReflected ==
  ASSUME OutcomeInv, TypeOK', Running, stream' = stream, NEW action,
         AfterReflection(action), journal' = ReflectionEvents(action)
  PROVE  OutcomeInv'
  <1>1. stream' = "running"
    BY DEF Running
  <1>2. CASE action = "fail"
    <2>1. phase' = "failed"
      BY <1>2 DEF AfterReflection
    <2> QED  BY <1>1, <1>2, <2>1, OutcomeTold
             DEF ReflectionEvents, OutcomeEvents, RunEvents, Outcome
  <1>3. CASE action # "fail"
    <2>1. phase' \notin Terminal
      BY <1>3 DEF AfterReflection, Accept, Terminal
    <2> QED  BY <1>1, <1>3, <2>1, OutcomeSilent DEF ReflectionEvents
  <1> QED  BY <1>2, <1>3

(* A refusal of the chain: the run goes on, fails or raises.               *)
LEMMA OutcomeFailed ==
  ASSUME OutcomeInv, TypeOK', Running, NEW s, NEW canRetry,
         FailedTransition(s, canRetry)
  PROVE  OutcomeInv'
  <1>1. CASE observation = NoObservation
    BY <1>1, OutcomeRaised DEF FailedTransition
  <1>2. CASE observation # NoObservation
    <2>1. /\ AfterReflection(IF canRetry THEN "retry" ELSE "fail")
          /\ journal' = ReflectionEvents(IF canRetry THEN "retry" ELSE "fail")
          /\ stream' = stream
      BY <1>2 DEF FailedTransition
    <2> QED  BY <2>1, OutcomeReflected
  <1> QED  BY <1>1, <1>2

(* Every step either leaves the outcome open or tells it, once.            *)
LEMMA OutcomeNext == OutcomeInv /\ [Next]_vars => OutcomeInv'
  <1> SUFFICES ASSUME OutcomeInv, [Next]_vars PROVE OutcomeInv'
    OBVIOUS
  <1>0. TypeOK'
    BY TypeNext DEF OutcomeInv
  <1> USE <1>0
  <1>1. CASE ExecuteNode
    <2>1. PICK status \in Statuses :
            /\ AfterExecution(status)
            /\ journal' = IF status = "approval_required"
                          THEN Append(journal, "step_blocked") ELSE journal
      BY <1>1 DEF ExecuteNode
    <2>2. Running /\ stream' = "running"
      BY <1>1 DEF ExecuteNode, At, Running, Terminal
    <2>3. CASE status = "approval_required"
      BY <2>1, <2>2, <2>3, OutcomeTold
      DEF AfterExecution, OutcomeEvents, Outcome
    <2>4. CASE status # "approval_required"
      BY <2>1, <2>2, <2>4, OutcomeSilent DEF AfterExecution, Terminal
    <2> QED  BY <2>3, <2>4
  <1>2. CASE ReflectNode
    <2>1. PICK action \in CriticAnswers(observation) :
            AfterReflection(action) /\ journal' = ReflectionEvents(action)
      BY <1>2 DEF ReflectNode
    <2>2. Running /\ stream' = stream
      BY <1>2 DEF ReflectNode, At, Running, Terminal
    <2> QED  BY <2>1, <2>2, OutcomeReflected
  <1>3. CASE ReplanNode
    <2>1. /\ Running /\ stream' = "running"
          /\ phase' \notin Terminal
          /\ journal' = Append(journal, "plan_created")
      BY <1>3 DEF ReplanNode, FromPlan, At, Running, Terminal
    <2> QED  BY <2>1, OutcomeSilent DEF RunEvents, OutcomeEvents
  <1>4. CASE ReplanMissing \/ Raise
    BY <1>4, OutcomeRaised DEF ReplanMissing, Raise, At, Running, Terminal
  <1>5. ASSUME NEW ran, NEW next, MoveOn(ran, next), Running
        PROVE  OutcomeInv'
    BY <1>5, OutcomeSilent DEF MoveOn, Running
  <1>6. CASE GateCycle \/ ScopeCycle \/ CoverageCycle
    <2>1. Running
      BY <1>6 DEF GateCycle, ScopeCycle, CoverageCycle, AtStage, At, Running,
                  Terminal
    <2> QED  BY <1>5, <1>6, <2>1, OutcomeFailed
             DEF GateCycle, ScopeCycle, CoverageCycle
  <1>7. CASE ChainFinished
    <2>1. Running /\ UNCHANGED <<phase, stream>>
      BY <1>7 DEF ChainFinished, AtStage, At, Running, Terminal
    <2>2. \/ UNCHANGED journal
          \/ journal' = Append(journal, "acceptance_chain_finished")
      BY <1>7 DEF ChainFinished
    <2> QED  BY <2>1, <2>2, OutcomeSilent
             DEF Running, RunEvents, OutcomeEvents
  <1>8. CASE Summarize
    <2>1. Running
      BY <1>8 DEF Summarize, AtStage, At, Running, Terminal
    <2>2. CASE Evidence = {}
      BY <1>8, <2>1, <2>2, OutcomeRaised DEF Summarize
    <2>3. CASE Evidence # {}
      <3>1. /\ phase' = "completed" /\ stream' = "running"
            /\ journal' = journal \o <<"message_created", "task_done">>
        BY <1>8, <2>1, <2>3 DEF Summarize, Running
      <3> QED  BY <2>1, <3>1, OutcomeTold
               DEF OutcomeEvents, RunEvents, Outcome
    <2> QED  BY <2>2, <2>3
  <1>9. CASE Cancel
    <2>1. Running /\ stream' = "cancelled"
      BY <1>9 DEF Cancel
    <2>2. \/ journal' = journal \o <<>>
          \/ journal' = journal \o <<"step_blocked">>
          \/ journal' = journal \o <<"step_failed", "task_error">>
          \/ journal' = journal \o <<"plan_created">>
          \/ journal' = journal \o <<"acceptance_chain_finished">>
          \/ journal' = journal \o <<"message_created", "task_done">>
      BY <1>9, Zenon DEF Cancel
    <2>3. /\ journal \o <<>> = journal
          /\ \A e \in RunEvents : journal \o <<e>> = Append(journal, e)
      BY DEF OutcomeInv, TypeOK
    <2>4. CASE \/ journal' = journal \o <<>>
               \/ journal' = journal \o <<"plan_created">>
               \/ journal' = journal \o <<"acceptance_chain_finished">>
      BY <2>1, <2>3, <2>4, OutcomeSilent DEF RunEvents, OutcomeEvents
    <2>5. CASE \/ journal' = journal \o <<"step_blocked">>
               \/ journal' = journal \o <<"step_failed", "task_error">>
               \/ journal' = journal \o <<"message_created", "task_done">>
      BY <2>1, <2>3, <2>5, OutcomeTold DEF RunEvents, OutcomeEvents
    <2> QED  BY <2>2, <2>4, <2>5
  <1>10. CASE UNCHANGED vars
    BY <1>10, OutcomeUnchanged
    DEF vars, OutcomeInv, OneOutcome, Outcome
  <1> QED
    BY <1>1, <1>2, <1>3, <1>4, <1>6, <1>7, <1>8, <1>9, <1>10
    DEF Next, Dispatch

(* However the nodes, exceptions and cancellations interleave, the log     *)
(* tells at most once how the run ended, truly and as its last word.       *)
THEOREM OutcomeToldOnce == Spec => []OneOutcome
  <1>1. OutcomeInv => OneOutcome
    BY DEF OutcomeInv
  <1> QED  BY <1>1, OutcomeInit, OutcomeNext, PTL DEF Spec

-----------------------------------------------------------------------------
(* What the acceptance chain refused, and what it passed *)

(* The stages that come before the one the summarising node is at.         *)
StagesBefore(s) ==
  CASE s = "acceptance_gate" -> {}
    [] s = "scope_audit"     -> {"acceptance_gate"}
    [] s = "coverage_review" -> {"acceptance_gate", "scope_audit"}
    [] OTHER                 -> Chain

(* A stage that is behind the run has passed if it was declared; a run     *)
(* that is not summarising is at the chain's beginning.                    *)
ChainPassed ==
  /\ chain = DeclaredStages \cap StagesBefore(stage)
  /\ phase \notin {"summarizing", "completed"} => stage = "acceptance_gate"

(* Every refused attempt is behind the run, unless the refusal ended it.   *)
RefusedBefore ==
  \A i \in DOMAIN audits :
    \/ Before(audits[i].key)
    \/ /\ stream = "raised" \/ phase = "failed"
       /\ audits[i].key = Current

RefusedOnce ==
  \A i, j \in DOMAIN audits : audits[i].key = audits[j].key => i = j

(* A result is called done at the end of the chain, by the summariser or   *)
(* by its own events when the stream is cut off before it returns.         *)
DoneAtAnswer ==
  "task_done" \in Logged =>
    /\ stage = "answer"
    /\ \/ stream = "running" /\ phase = "completed"
       \/ stream = "cancelled" /\ phase = "summarizing"

RefusalInv ==
  TypeOK /\ ChainPassed /\ RefusedBefore /\ RefusedOnce /\ DoneAtAnswer

(* A run starts at the chain's beginning, with nothing refused.            *)
LEMMA RefusalInit == Init => RefusalInv
  BY TypeInit
  DEF Init, RefusalInv, ChainPassed, StagesBefore, RefusedBefore, RefusedOnce,
      DoneAtAnswer, Logged, OutcomeIndices

(* An attempt behind the run is not the current one.                       *)
LEMMA RefusalImplies == RefusalInv => RefusedNotDelivered
  <1> SUFFICES ASSUME RefusalInv PROVE RefusedNotDelivered
    OBVIOUS
  <1>1. ASSUME NEW i \in DOMAIN audits, Before(audits[i].key)
        PROVE  audits[i].key # Current
    BY <1>1 DEF Before, Current, Key, RefusalInv, TypeOK
  <1>2. ASSUME "task_done" \in Logged
        PROVE  /\ chain = DeclaredStages
               /\ \A i \in DOMAIN audits : audits[i].key # Current
    <2>1. /\ stage = "answer"
          /\ ~(stream = "raised" \/ phase = "failed")
      BY <1>2 DEF RefusalInv, DoneAtAnswer
    <2>2. chain = DeclaredStages
      BY <2>1 DEF RefusalInv, ChainPassed, StagesBefore, DeclaredStages
    <2> QED  BY <1>1, <2>1, <2>2 DEF RefusalInv, RefusedBefore
  <1> QED  BY <1>2 DEF RefusalInv, RefusedNotDelivered, RefusedOnce

(* While the run goes on it has not called a result done.                  *)
LEMMA NotDoneYet == OutcomeInv /\ Running => "task_done" \notin Logged
  BY OutcomeOpen

(* After a step that writes one event other than task_done, or none.       *)
LEMMA StillNotDone ==
  ASSUME OutcomeInv, Running,
         \/ UNCHANGED journal
         \/ \E e \in RunEvents \ {"task_done"} : journal' = Append(journal, e)
         \/ \E a \in RunEvents \ OutcomeEvents, e \in OutcomeEvents \ {"task_done"} :
              journal' = journal \o <<a, e>>
  PROVE  DoneAtAnswer'
  <1>1. journal \in Seq(RunEvents) /\ OutcomeIndices = {} /\ Logged = {}
    BY OutcomeOpen DEF OutcomeInv, TypeOK
  <1>2. CASE UNCHANGED journal
    BY <1>1, <1>2, OutcomeUnchanged DEF DoneAtAnswer
  <1>3. ASSUME NEW e \in RunEvents \ {"task_done"}, journal' = Append(journal, e)
        PROVE  DoneAtAnswer'
    BY <1>1, <1>3, OutcomeAppended DEF DoneAtAnswer
  <1>4. ASSUME NEW a \in RunEvents \ OutcomeEvents,
               NEW e \in OutcomeEvents \ {"task_done"},
               journal' = journal \o <<a, e>>
        PROVE  DoneAtAnswer'
    BY <1>1, <1>4, OutcomeAppendedTwo DEF DoneAtAnswer
  <1> QED  BY <1>2, <1>3, <1>4

(* Attempts that were behind the run stay behind it: revision, step and    *)
(* attempt only grow, in this order of weight.                             *)
LEMMA BeforeGrows ==
  ASSUME TypeOK, TypeOK', NEW k \in Attempt,
         \/ UNCHANGED <<revision, stepIndex>> /\ attempt' >= attempt
         \/ UNCHANGED revision /\ stepIndex' = stepIndex + 1
         \/ revision' = revision + 1,
         Before(k)
  PROVE  Before(k)'
  BY DEF Before, TypeOK, Attempt

(* A refused attempt is an attempt. *)
LEMMA RefusedKeys ==
  ASSUME TypeOK, NEW i \in DOMAIN audits
  PROVE  audits[i].key \in Attempt
  <1>1. audits[i] \in Verdict
    BY DEF TypeOK
  <1> QED  BY <1>1 DEF Verdict

(* A step of a run that goes on, leaves the chain alone and refuses        *)
(* nothing.                                                                *)
LEMMA RefusalFrame ==
  ASSUME RefusalInv, TypeOK', Running, UNCHANGED <<audits, chain, stage>>,
         \/ UNCHANGED <<plan, wiring>>
         \/ stage = "acceptance_gate",
         phase' \notin {"summarizing", "completed"} => stage = "acceptance_gate",
         \/ UNCHANGED <<revision, stepIndex>> /\ attempt' >= attempt
         \/ UNCHANGED revision /\ stepIndex' = stepIndex + 1
         \/ revision' = revision + 1,
         DoneAtAnswer'
  PROVE  RefusalInv'
  <1>1. ChainPassed'
    <2>1. CASE stage = "acceptance_gate"
      BY <2>1 DEF RefusalInv, ChainPassed, StagesBefore
    <2>2. CASE stage # "acceptance_gate"
      BY <2>2 DEF RefusalInv, ChainPassed, DeclaredStages, GateDeclared,
                  ScopeDeclared
    <2> QED  BY <2>1, <2>2
  <1>2. RefusedBefore'
    <2> SUFFICES ASSUME NEW i \in DOMAIN audits PROVE Before(audits[i].key)'
      BY DEF RefusedBefore
    <2>1. audits[i].key \in Attempt
      BY RefusedKeys DEF RefusalInv
    <2>2. Before(audits[i].key)
      BY DEF RefusalInv, RefusedBefore, Running, Terminal
    <2> QED  BY <2>1, <2>2, BeforeGrows DEF RefusalInv
  <1>3. RefusedOnce'
    BY DEF RefusalInv, RefusedOnce
  <1> QED  BY <1>1, <1>2, <1>3 DEF RefusalInv

(* A refusal names an attempt that was not refused before, and leaves it   *)
(* behind or ends the run.                                                 *)
LEMMA RefusalFailed ==
  ASSUME RefusalInv, OutcomeInv, TypeOK', At("summarizing"),
         NEW s \in Chain, NEW canRetry \in BOOLEAN,
         FailedTransition(s, canRetry)
  PROVE  RefusalInv'
  <1> DEFINE v == [stage |-> s, command |-> plan.command, key |-> Current]
             n == Len(audits)
  <1>1. Running /\ phase # "failed" /\ stream = "running"
    BY DEF At, Running, Terminal
  <1>2. v \in Verdict /\ v.key = Current /\ Current \in Attempt
    BY PlanFields DEF RefusalInv, TypeOK, Current, Key, Attempt, Verdict
  <1>3. /\ n \in Nat
        /\ DOMAIN audits = 1..n
        /\ DOMAIN audits' = 1..(n + 1)
        /\ \A i \in 1..n : audits'[i] = audits[i]
        /\ audits'[n + 1] = v
    BY <1>2 DEF FailedTransition, RefusalInv, TypeOK
  <1>4. ASSUME NEW i \in 1..n
        PROVE  /\ audits[i].key \in Attempt
               /\ Before(audits[i].key)
               /\ audits[i].key # Current
    <2>1. audits[i].key \in Attempt
      BY <1>3, RefusedKeys DEF RefusalInv
    <2>2. Before(audits[i].key)
      BY <1>1, <1>3 DEF RefusalInv, RefusedBefore
    <2> QED  BY <2>1, <2>2 DEF Before, Current, Key, RefusalInv, TypeOK
  <1>5. RefusedOnce'
    BY <1>2, <1>3, <1>4 DEF RefusalInv, RefusedOnce
  <1>6. \/ /\ stream' = "raised"
           /\ UNCHANGED <<phase, revision, stepIndex, attempt>>
           /\ journal' = Append(journal, "task_error")
        \/ /\ phase' = "executing" /\ attempt' = attempt + 1
           /\ UNCHANGED <<stream, revision, stepIndex, journal>>
        \/ /\ phase' = "failed"
           /\ UNCHANGED <<stream, revision, stepIndex, attempt>>
           /\ journal' = journal \o <<"step_failed", "task_error">>
    BY DEF FailedTransition, PersistError, AfterReflection, ReflectionEvents
  <1>7. RefusedBefore'
    <2> SUFFICES ASSUME NEW i \in 1..(n + 1), NEW k, k = audits'[i].key
                 PROVE  \/ Before(k)'
                        \/ /\ stream' = "raised" \/ phase' = "failed"
                           /\ k = Current'
      BY <1>3 DEF RefusedBefore, Before
    <2>1. CASE i \in 1..n
      <3>1. k \in Attempt /\ Before(k)
        BY <1>3, <1>4, <2>1
      <3>2. UNCHANGED <<revision, stepIndex>> /\ attempt' >= attempt
        BY <1>6 DEF RefusalInv, TypeOK
      <3> QED  BY <3>1, <3>2, BeforeGrows DEF RefusalInv
    <2>2. CASE i = n + 1
      <3>1. k = Key(revision, stepIndex, attempt)
        BY <1>2, <1>3, <2>2 DEF Current
      <3>2. CASE phase' = "executing" /\ attempt' = attempt + 1
        BY <1>6, <3>1, <3>2 DEF Before, Key, RefusalInv, TypeOK
      <3>3. CASE /\ stream' = "raised" \/ phase' = "failed"
                 /\ UNCHANGED <<revision, stepIndex, attempt>>
        BY <3>1, <3>3 DEF Current, Key
      <3> QED  BY <1>6, <3>2, <3>3
    <2> QED  BY <1>3, <2>1, <2>2
  <1>8. ChainPassed'
    BY DEF FailedTransition, ChainPassed, StagesBefore
  <1>9. DoneAtAnswer'
    BY <1>1, <1>6, StillNotDone DEF RunEvents, OutcomeEvents
  <1> QED  BY <1>5, <1>7, <1>8, <1>9 DEF RefusalInv

(* Passing a declared stage, or skipping one that is not declared.         *)
LEMMA RefusalMoveOn ==
  ASSUME RefusalInv, OutcomeInv, TypeOK', At("summarizing"),
         NEW ran \in SUBSET Chain, NEW next \in Stages, MoveOn(ran, next),
         DeclaredStages \cap StagesBefore(next)
           = (DeclaredStages \cap StagesBefore(stage)) \cup ran
  PROVE  RefusalInv'
  <1>1. UNCHANGED <<wiring, plan, phase, stream, revision, stepIndex, attempt,
                    audits, journal>>
    BY DEF MoveOn
  <1>2. DoneAtAnswer'
    BY <1>1, StillNotDone DEF At, Running, Terminal
  <1>3. ChainPassed'
    <2>1. DeclaredStages' = DeclaredStages /\ phase' = "summarizing"
      BY <1>1 DEF DeclaredStages, GateDeclared, ScopeDeclared, At
    <2>2. chain' = chain \cup ran /\ stage' = next
      BY DEF MoveOn
    <2>3. StagesBefore(stage)' = StagesBefore(next)
      BY <2>2 DEF StagesBefore
    <2> QED  BY <2>1, <2>2, <2>3 DEF RefusalInv, ChainPassed
  <1>4. RefusedBefore' /\ RefusedOnce'
    BY <1>1 DEF RefusalInv, RefusedBefore, RefusedOnce, Before, Current
  <1> QED  BY <1>2, <1>3, <1>4 DEF RefusalInv

(* Every step keeps the record of the chain.                               *)
LEMMA RefusalNext ==
  RefusalInv /\ OutcomeInv /\ [Next]_vars => RefusalInv'
  <1> SUFFICES ASSUME RefusalInv, OutcomeInv, [Next]_vars PROVE RefusalInv'
    OBVIOUS
  <1>0. TypeOK'
    BY TypeNext DEF RefusalInv
  <1> USE <1>0
  <1>1. CASE ExecuteNode
    <2>1. /\ Running /\ phase' \notin {"summarizing", "completed"}
          /\ stage = "acceptance_gate"
      BY <1>1 DEF ExecuteNode, AfterExecution, At, Running, Terminal,
                  RefusalInv, ChainPassed
    <2>2. \/ UNCHANGED journal
          \/ journal' = Append(journal, "step_blocked")
      BY <1>1 DEF ExecuteNode
    <2>3. DoneAtAnswer'
      BY <2>1, <2>2, StillNotDone DEF RunEvents
    <2> QED  BY <1>1, <2>1, <2>3, RefusalFrame
             DEF ExecuteNode, RefusalInv, TypeOK
  <1>2. CASE ReflectNode
    <2>1. PICK action \in CriticAnswers(observation) :
            AfterReflection(action) /\ journal' = ReflectionEvents(action)
      BY <1>2 DEF ReflectNode
    <2>2. Running /\ stage = "acceptance_gate"
      BY <1>2 DEF ReflectNode, At, Running, Terminal, RefusalInv, ChainPassed
    <2>3. DoneAtAnswer'
      BY <2>1, <2>2, StillNotDone
      DEF ReflectionEvents, RunEvents, OutcomeEvents
    <2>4. /\ UNCHANGED <<audits, chain, stage, plan, wiring, revision>>
          /\ \/ stepIndex' = stepIndex /\ attempt' >= attempt
             \/ stepIndex' = stepIndex + 1
      BY <1>2, <2>1 DEF ReflectNode, AfterReflection, Accept, RefusalInv, TypeOK
    <2> QED  BY <2>2, <2>3, <2>4, RefusalFrame
  <1>3. CASE ReplanNode
    <2>1. Running /\ stage = "acceptance_gate"
      BY <1>3 DEF ReplanNode, At, Running, Terminal, RefusalInv, ChainPassed
    <2>2. DoneAtAnswer'
      BY <1>3, <2>1, StillNotDone DEF ReplanNode, RunEvents
    <2> QED  BY <1>3, <2>1, <2>2, RefusalFrame DEF ReplanNode
  <1>4. CASE ReplanMissing \/ Raise
    <2>1. Running /\ journal' = Append(journal, "task_error")
      BY <1>4 DEF ReplanMissing, Raise, PersistError, At, Running, Terminal
    <2>2. DoneAtAnswer'
      BY <2>1, StillNotDone DEF RunEvents
    <2>3. UNCHANGED <<wiring, plan, phase, revision, stepIndex, attempt,
                      stage, chain, audits>>
      BY <1>4 DEF ReplanMissing, Raise
    <2> QED  BY <2>1, <2>2, <2>3, RefusalFrame
             DEF RefusalInv, TypeOK, ChainPassed
  <1>5. CASE GateCycle
    <2>1. At("summarizing") /\ stage = "acceptance_gate"
      BY <1>5 DEF GateCycle, AtStage
    <2>2. GateCanRetry \in BOOLEAN
      BY PlanFields DEF GateCanRetry, RefusalInv, TypeOK, Plan
    <2>3. CASE FailedTransition("acceptance_gate", GateCanRetry)
      BY <2>1, <2>2, <2>3, RefusalFailed DEF Chain
    <2>4. CASE ~GateDeclared /\ MoveOn({}, "scope_audit")
      <3>1. "acceptance_gate" \notin DeclaredStages
        BY <2>4 DEF DeclaredStages
      <3> QED  BY <2>1, <2>4, <3>1, RefusalMoveOn DEF StagesBefore, Stages, Chain
    <2>5. CASE GateDeclared /\ MoveOn({"acceptance_gate"}, "scope_audit")
      <3>1. "acceptance_gate" \in DeclaredStages
        BY <2>5 DEF DeclaredStages, Chain
      <3> QED  BY <2>1, <2>5, <3>1, RefusalMoveOn DEF StagesBefore, Stages, Chain
    <2> QED  BY <1>5, <2>3, <2>4, <2>5 DEF GateCycle
  <1>6. CASE ScopeCycle
    <2>1. At("summarizing") /\ stage = "scope_audit"
      BY <1>6 DEF ScopeCycle, AtStage
    <2>2. ScopeCanRetry \in BOOLEAN
      BY PlanFields DEF ScopeCanRetry, RefusalInv, TypeOK, Plan
    <2>3. CASE FailedTransition("scope_audit", ScopeCanRetry)
      BY <2>1, <2>2, <2>3, RefusalFailed DEF Chain
    <2>4. CASE ~ScopeDeclared /\ MoveOn({}, "coverage_review")
      <3>1. "scope_audit" \notin DeclaredStages
        BY <2>4 DEF DeclaredStages
      <3> QED  BY <2>1, <2>4, <3>1, RefusalMoveOn DEF StagesBefore, Stages, Chain
    <2>5. CASE ScopeDeclared /\ MoveOn({"scope_audit"}, "coverage_review")
      <3>1. "scope_audit" \in DeclaredStages
        BY <2>5 DEF DeclaredStages, Chain
      <3> QED  BY <2>1, <2>5, <3>1, RefusalMoveOn DEF StagesBefore, Stages, Chain
    <2> QED  BY <1>6, <2>3, <2>4, <2>5 DEF ScopeCycle
  <1>7. CASE CoverageCycle
    <2>1. At("summarizing") /\ stage = "coverage_review"
      BY <1>7 DEF CoverageCycle, AtStage
    <2>2. CoverageCanRetry \in BOOLEAN
      BY PlanFields DEF CoverageCanRetry, RefusalInv, TypeOK, Plan
    <2>3. CASE FailedTransition("coverage_review", CoverageCanRetry)
      BY <2>1, <2>2, <2>3, RefusalFailed DEF Chain
    <2>4. CASE ~wiring.reviewer /\ MoveOn({}, "chain_finished")
      <3>1. "coverage_review" \notin DeclaredStages /\ DeclaredStages \subseteq Chain
        BY <2>4 DEF DeclaredStages
      <3> QED  BY <2>1, <2>4, <3>1, RefusalMoveOn DEF StagesBefore, Stages, Chain
    <2>5. CASE wiring.reviewer /\ MoveOn({"coverage_review"}, "chain_finished")
      <3>1. "coverage_review" \in DeclaredStages /\ DeclaredStages \subseteq Chain
        BY <2>5 DEF DeclaredStages, Chain
      <3> QED  BY <2>1, <2>5, <3>1, RefusalMoveOn DEF StagesBefore, Stages, Chain
    <2> QED  BY <1>7, <2>3, <2>4, <2>5 DEF CoverageCycle
  <1>8. CASE ChainFinished
    <2>1. /\ Running
          /\ UNCHANGED <<wiring, plan, phase, stream, revision, stepIndex,
                         attempt, chain, audits>>
          /\ phase = "summarizing" /\ stage = "chain_finished" /\ stage' = "answer"
          /\ \/ UNCHANGED journal
             \/ journal' = Append(journal, "acceptance_chain_finished")
      BY <1>8 DEF ChainFinished, AtStage, At, Running, Terminal
    <2>2. DoneAtAnswer'
      BY <2>1, StillNotDone DEF RunEvents
    <2>3. ChainPassed'
      BY <2>1 DEF RefusalInv, ChainPassed, StagesBefore, DeclaredStages,
                  GateDeclared, ScopeDeclared
    <2>4. RefusedBefore' /\ RefusedOnce'
      BY <2>1 DEF RefusalInv, RefusedBefore, RefusedOnce, Before, Current
    <2> QED  BY <2>2, <2>3, <2>4 DEF RefusalInv
  <1>9. CASE Summarize
    <2>1. /\ Running /\ stream = "running"
          /\ UNCHANGED <<wiring, plan, revision, stepIndex, attempt, chain,
                         audits, stage>>
          /\ phase = "summarizing" /\ stage = "answer"
      BY <1>9 DEF Summarize, AtStage, At, Running, Terminal
    <2>2. /\ phase' \in {"summarizing", "completed"}
          /\ DoneAtAnswer'
      <3>1. CASE Evidence = {}
        <4>1. journal' = Append(journal, "task_error") /\ phase' = phase
          BY <1>9, <3>1 DEF Summarize, PersistError
        <4> QED  BY <2>1, <4>1, StillNotDone DEF RunEvents
      <3>2. CASE Evidence # {}
        <4>1. phase' = "completed" /\ stream' = stream
          BY <1>9, <3>2 DEF Summarize
        <4> QED  BY <2>1, <4>1 DEF DoneAtAnswer
      <3> QED  BY <3>1, <3>2
    <2> QED  BY <2>1, <2>2, RefusalFrame DEF RefusalInv, TypeOK
  <1>10. CASE Cancel
    <2>1. /\ Running /\ stream' = "cancelled"
          /\ UNCHANGED <<wiring, plan, phase, revision, stepIndex, attempt,
                         stage, chain, audits>>
      BY <1>10 DEF Cancel
    <2>2. PICK events \in
                 {<<>>, <<"step_blocked">>, <<"step_failed", "task_error">>,
                  <<"plan_created">>, <<"acceptance_chain_finished">>,
                  <<"message_created", "task_done">>} :
            CutOff(events) /\ journal' = journal \o events
      BY <1>10 DEF Cancel
    <2>3. DoneAtAnswer'
      <3>1. journal \in Seq(RunEvents)
        BY DEF RefusalInv, TypeOK
      <3>2. CASE events = <<>>
        BY <2>1, <2>2, <3>1, <3>2, StillNotDone
      <3>3. CASE \/ events = <<"step_blocked">>
                 \/ events = <<"plan_created">>
                 \/ events = <<"acceptance_chain_finished">>
        <4>1. \E e \in RunEvents \ {"task_done"} : journal' = Append(journal, e)
          BY <2>2, <3>1, <3>3, SMTT(30) DEF RunEvents
        <4> QED  BY <2>1, <4>1, StillNotDone
      <3>4. CASE events = <<"step_failed", "task_error">>
        BY <2>1, <2>2, <3>4, StillNotDone DEF RunEvents, OutcomeEvents
      <3>5. CASE events = <<"message_created", "task_done">>
        <4>1. AtStage("answer")
          BY <2>2, <3>5 DEF CutOff
        <4> QED  BY <2>1, <4>1 DEF AtStage, At, DoneAtAnswer
      <3> QED  BY <2>2, <3>2, <3>3, <3>4, <3>5
    <2> QED  BY <2>1, <2>3, RefusalFrame DEF RefusalInv, TypeOK, ChainPassed
  <1>11. CASE UNCHANGED vars
    BY <1>11, OutcomeUnchanged
    DEF vars, RefusalInv, ChainPassed, DeclaredStages, GateDeclared,
        ScopeDeclared, RefusedBefore, RefusedOnce, DoneAtAnswer, Before, Current
  <1> QED
    BY <1>1, <1>2, <1>3, <1>4, <1>5, <1>6, <1>7, <1>8, <1>9, <1>10, <1>11
    DEF Next, Dispatch

(* What the log calls done has passed every declared stage of the chain,   *)
(* and no result is refused twice, whatever retries, replans, exceptions   *)
(* and cancellations come in between.                                      *)
THEOREM RefusedStaysRefused == Spec => []RefusedNotDelivered
  BY RefusalInit, RefusalNext, RefusalImplies, OutcomeInit, OutcomeNext, PTL
  DEF Spec

-----------------------------------------------------------------------------
(* The machine implements the life cycle of AgentRun. *)

(* An initial state of the machine is one of the abstract run.             *)
LEMMA RunInit == Init => Run!Init
  BY PlanFields DEF Init, Run!Init, Plan

(* A refusal of the chain reopens the last step or gives up.               *)
LEMMA RunFailed ==
  ASSUME AttemptInv, AtStage(stage), NEW s \in Chain, NEW canRetry \in BOOLEAN,
         FailedTransition(s, canRetry)
  PROVE  Run!ReopenLastStep \/ Run!GiveUp
  <1> USE PlanFields DEF AtStage, At, AttemptInv, TypeOK, Progress
  <1>1. CASE observation = NoObservation
    <2>1. stream' = "raised" /\ UNCHANGED <<plan, phase, stepIndex, revision>>
      BY <1>1 DEF FailedTransition, PersistError
    <2> QED  BY <2>1 DEF Run!GiveUp
  <1>2. CASE observation # NoObservation
    <2>1. /\ UNCHANGED <<plan, stepIndex, revision, stream>>
          /\ phase' \in {"executing", "failed"}
      BY <1>2 DEF FailedTransition, AfterReflection
    <2>2. stepIndex = plan.steps - 1
      OBVIOUS
    <2>3. CASE phase' = "executing"
      BY <2>1, <2>2, <2>3 DEF Run!ReopenLastStep
    <2>4. CASE phase' = "failed"
      BY <2>1, <2>2, <2>4 DEF Run!GiveUp
    <2> QED  BY <2>1, <2>3, <2>4
  <1> QED  BY <1>1, <1>2

(* Every step of the machine is a step of the abstract run or none.        *)
LEMMA RunNext == AttemptInv /\ [Next]_vars => [Run!Next]_(Run!vars)
  <1> SUFFICES ASSUME AttemptInv, [Next]_vars PROVE [Run!Next]_(Run!vars)
    OBVIOUS
  <1> USE PlanFields DEF AttemptInv, TypeOK, At, AtStage, Run!vars
  <1>1. CASE ExecuteNode
    <2>1. /\ UNCHANGED <<plan, stepIndex, revision, stream>>
          /\ phase' \in {"blocked", "reflecting"}
      BY <1>1 DEF ExecuteNode, AfterExecution
    <2>2. CASE phase' = "reflecting"
      BY <1>1, <2>1, <2>2 DEF ExecuteNode
    <2>3. CASE phase' = "blocked"
      <3>1. Run!Block
        BY <1>1, <2>1, <2>3 DEF ExecuteNode, Run!Block
      <3> QED  BY <3>1 DEF Run!Next
    <2> QED  BY <2>1, <2>2, <2>3
  <1>2. CASE ReflectNode
    <2>1. PICK action \in CriticAnswers(observation) : AfterReflection(action)
      BY <1>2 DEF ReflectNode
    <2>2. UNCHANGED <<plan, revision, stream>>
      BY <1>2 DEF ReflectNode
    <2>3. CASE action = "accept"
      <3>1. Run!AcceptStep
        BY <1>2, <2>1, <2>2, <2>3
        DEF ReflectNode, AfterReflection, Accept, Run!AcceptStep
      <3> QED  BY <3>1 DEF Run!Next
    <2>4. CASE action = "fail"
      <3>1. Run!GiveUp
        BY <1>2, <2>1, <2>2, <2>4
        DEF ReflectNode, AfterReflection, Run!GiveUp
      <3> QED  BY <3>1 DEF Run!Next
    <2>5. CASE action \in {"retry", "replan"}
      BY <1>2, <2>1, <2>2, <2>5 DEF ReflectNode, AfterReflection
    <2> QED  BY <2>1, <2>3, <2>4, <2>5 DEF AfterReflection
  <1>3. CASE ReplanNode
    <2>1. PICK p \in Plans : FromPlan(p, 0)
      BY <1>3 DEF ReplanNode
    <2>2. Run!Replan
      BY <1>3, <2>1 DEF ReplanNode, FromPlan, Run!Replan, Plan
    <2> QED  BY <2>2 DEF Run!Next
  <1>4. CASE ReplanMissing \/ Raise \/ Cancel
    <2>1. Run!GiveUp
      BY <1>4
      DEF ReplanMissing, Raise, Cancel, PersistError, Running, Terminal,
          Run!GiveUp
    <2> QED  BY <2>1 DEF Run!Next
  <1>5. ASSUME NEW ran, NEW next, MoveOn(ran, next)
        PROVE  UNCHANGED Run!vars
    BY <1>5 DEF MoveOn
  <1>6. CASE GateCycle
    <2>1. GateCanRetry \in BOOLEAN
      BY DEF GateCanRetry, Plan
    <2> QED  BY <1>5, <1>6, <2>1, RunFailed DEF GateCycle, Chain, Run!Next
  <1>7. CASE ScopeCycle
    <2>1. ScopeCanRetry \in BOOLEAN
      BY DEF ScopeCanRetry, Plan
    <2> QED  BY <1>5, <1>7, <2>1, RunFailed DEF ScopeCycle, Chain, Run!Next
  <1>8. CASE CoverageCycle
    <2>1. CoverageCanRetry \in BOOLEAN
      BY DEF CoverageCanRetry, Plan
    <2> QED  BY <1>5, <1>8, <2>1, RunFailed DEF CoverageCycle, Chain, Run!Next
  <1>9. CASE ChainFinished
    BY <1>9 DEF ChainFinished
  <1>10. CASE Summarize
    <2>1. Run!Deliver \/ Run!GiveUp
      BY <1>10 DEF Summarize, PersistError, Run!Deliver, Run!GiveUp
    <2> QED  BY <2>1 DEF Run!Next
  <1>11. CASE UNCHANGED vars
    BY <1>11 DEF vars
  <1> QED
    BY <1>1, <1>2, <1>3, <1>4, <1>6, <1>7, <1>8, <1>9, <1>10, <1>11
    DEF Next, Dispatch

(* Every run of the machine is a run as AgentRun describes it: the cursor  *)
(* moves by accepted steps only, and a run ends once.                      *)
THEOREM MachineImplementsRun == Spec => RunSpec
  BY RunInit, RunNext, AttemptInit, AttemptNext, PTL DEF Spec, RunSpec, Run!Spec
=============================================================================
