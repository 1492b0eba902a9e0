------------------------------ MODULE StepLoop ------------------------------
(***************************************************************************)
(* The loop of one step (StepAgentLoop.run_step): the model asks for tool  *)
(* calls turn by turn, the calls of a turn run in batches that respect     *)
(* what the tools provide and require, and a budget bounds them.           *)
(*                                                                         *)
(* The calls of one batch run at the same time: each checks the budget     *)
(* when it is scheduled and is counted when it returns.  What happens      *)
(* inside a call is module ToolCalls.                                      *)
(***************************************************************************)
EXTENDS Naturals, Sequences, FiniteSets, Functions

CONSTANTS
  Tools,       \* tools the model may ask for
  Provides,    \* tags each tool provides
  Requires,    \* tags each tool requires
  MaxTurns,    \* agent_step_max_iterations
  MaxCalls,    \* agent_step_max_tool_calls
  StepLimit,   \* ToolBudget.max_calls_per_step
  ToolLimit,   \* ToolBudget.max_calls_per_tool
  TokenLimit,  \* ToolBudget.max_token_estimate
  MaxRequests  \* bound: calls the model asks for in one turn

VARIABLES
  place,     \* where run_step stands
  mode,      \* the strategies left, the first in use; the parallel setting
  turn,      \* turns begun by the strategy
  requests,  \* the tools asked for in this turn
  batches,   \* the batches of offsets left, the first one running
  result,    \* of each request: waiting, running, or the status it got
  total,     \* total_tool_calls
  used,      \* ToolBudget._calls_by_tool
  tokens,    \* ToolBudget._token_estimate_used
  observed   \* status of the last executed call, what the step observes

budget == <<used, tokens>>
turnVars == <<requests, batches, result>>
vars == <<place, mode, turn, turnVars, total, budget, observed>>

Places == {"ready", "asking", "running", "fallback", "settled", "raised"}
Modes == {<<"native", "json">>, <<"native">>, <<"json">>, <<>>}
Settled == {"succeeded", "failed"}

TypeOK ==
  /\ place \in Places
  /\ mode \in [strategies : Modes, parallel : BOOLEAN]
  /\ turn \in 0..MaxTurns
  /\ requests \in Seq(Tools)
  /\ batches \in Seq(SUBSET (1..MaxRequests))
  /\ result \in Seq({"waiting", "running"} \cup Settled)
  /\ total \in 0..MaxCalls
  /\ used \in [Tools -> Nat]
  /\ tokens \in Nat
  /\ observed \in Settled

Init ==
  /\ place = "ready"
  /\ mode = [strategies |-> <<>>, parallel |-> TRUE]
  /\ turn = 0
  /\ requests = <<>> /\ batches = <<>> /\ result = <<>>
  /\ total = 0
  /\ used = [t \in Tools |-> 0] /\ tokens = 0
  /\ observed = "succeeded"

-----------------------------------------------------------------------------
(* plan_parallel_batches: the requests whose providers in the same turn    *)
(* are all in earlier batches make the next one.  A cycle leaves some out. *)
DependsOn(reqs, i) ==
  {j \in DOMAIN reqs \ {i} : Requires[reqs[i]] \cap Provides[reqs[j]] # {}}

ParallelBatches(reqs) ==
  LET from[done \in SUBSET DOMAIN reqs] ==
        LET ready == {i \in DOMAIN reqs \ done : DependsOn(reqs, i) \subseteq done}
        IN  IF ready = {} THEN <<>> ELSE <<ready>> \o from[done \cup ready]
  IN  from[{}]

Cyclic(reqs) == UNION Range(ParallelBatches(reqs)) # DOMAIN reqs

(* _plan_batches: one request at a time if their tools form a cycle.       *)
PlanBatchesAtOnce(reqs) == <<DOMAIN reqs>>

PlanBatches(reqs) ==
  IF Cyclic(reqs) THEN [i \in DOMAIN reqs |-> {i}] ELSE ParallelBatches(reqs)

-----------------------------------------------------------------------------
(* run_step: the strategies of the tool mode, none if no model is          *)
(* configured, and the setting tool_parallel_batches_enabled.              *)
Start(strategies, parallel) ==
  /\ place = "ready"
  /\ mode' = [strategies |-> strategies, parallel |-> parallel]
  /\ place' = IF strategies = <<>> THEN "fallback" ELSE "asking"
  /\ UNCHANGED <<turn, turnVars, total, budget, observed>>

CanAsk == place = "asking" /\ turn < MaxTurns

(* More calls than the limit of the step end the loop.                     *)
TooMany(reqs) == total + Len(reqs) > MaxCalls

(* The model asks for tools; JsonPromptStrategy reads one call at most.    *)
Ask(reqs) ==
  /\ CanAsk
  /\ Head(mode.strategies) = "json" => Len(reqs) = 1
  /\ turn' = turn + 1
  /\ IF TooMany(reqs)
     THEN place' = "settled" /\ UNCHANGED turnVars
     ELSE /\ place' = "running"
          /\ requests' = reqs
          /\ batches' = PlanBatches(reqs)
          /\ result' = [i \in DOMAIN reqs |-> "waiting"]
  /\ UNCHANGED <<mode, total, budget, observed>>

(* The model answers without a call, or the turns are used up.             *)
Conclude ==
  /\ place = "asking"
  /\ place' = "settled"
  /\ UNCHANGED <<mode, turn, turnVars, total, budget, observed>>

(* The model cannot be reached: in the first turn the next strategy is     *)
(* tried, and the rules after the last; later the error leaves the step.   *)
ModelFails ==
  /\ CanAsk
  /\ IF turn > 0
     THEN place' = "raised" /\ UNCHANGED mode
     ELSE /\ mode' = [mode EXCEPT !.strategies = Tail(@)]
          /\ place' = IF Tail(mode.strategies) = <<>> THEN "fallback" ELSE "asking"
  /\ UNCHANGED <<turn, turnVars, total, budget, observed>>

(* ToolBudget.check_call and record_call.                                  *)
CheckCallTotal(t) ==
  /\ SumFunction(used) < StepLimit
  /\ tokens < TokenLimit

CheckCall(t) ==
  /\ SumFunction(used) < StepLimit
  /\ used[t] < ToolLimit
  /\ tokens < TokenLimit

RecordCall(t, cost) ==
  /\ used' = [used EXCEPT ![t] = @ + 1]
  /\ tokens' = tokens + cost

(* _execute_with_budget up to its await.  asyncio.gather schedules the     *)
(* calls of a batch in order; with the setting off, or alone in its batch, *)
(* a call waits for the one before it.  A gather that has raised does not  *)
(* stop the calls it scheduled.                                            *)
Scheduled(i) ==
  /\ batches # <<>> /\ i \in Head(batches)
  /\ result[i] = "waiting"
  /\ \A j \in Head(batches) : j < i =>
       IF mode.parallel THEN result[j] # "waiting" ELSE result[j] \in Settled
  /\ place = "running" \/ (place = "raised" /\ mode.parallel)

Check(i) ==
  /\ Scheduled(i)
  /\ result' = [result EXCEPT ![i] = IF CheckCall(requests[i]) THEN "running" ELSE "failed"]
  /\ UNCHANGED <<place, mode, turn, requests, batches, total, budget, observed>>

(* _execute_with_budget after its await: the result, or a failed one for   *)
(* an AppException; then the call is counted.                              *)
Finish(i, status, cost) ==
  /\ i \in DOMAIN result /\ result[i] = "running"
  /\ result' = [result EXCEPT ![i] = status]
  /\ RecordCall(requests[i], cost)
  /\ UNCHANGED <<place, mode, turn, requests, batches, total, observed>>

(* Any other error leaves the gather, and the step, at once.               *)
Raise(i) ==
  /\ place = "running"
  /\ i \in DOMAIN result /\ result[i] = "running"
  /\ result' = [result EXCEPT ![i] = "failed"]
  /\ place' = "raised"
  /\ UNCHANGED <<mode, turn, requests, batches, total, budget, observed>>

(* A batch is complete; after the last one the results go back to the      *)
(* model.                                                                  *)
EndBatchWhen(ended) ==
  /\ place = "running"
  /\ ended
  /\ batches' = Tail(batches)
  /\ IF Tail(batches) # <<>>
     THEN UNCHANGED <<place, total, observed>>
     ELSE /\ place' = "asking"
          /\ total' = total + Len(requests)
          /\ observed' = result[Len(result)]
  /\ UNCHANGED <<mode, turn, requests, result, budget>>

EndBatchEarly == EndBatchWhen(\E i \in Head(batches) : result[i] \in Settled)

EndBatch == EndBatchWhen(\A i \in Head(batches) : result[i] \in Settled)

(* _run_rule_fallback: one call, chosen by a model or by rules             *)
(* (ModelToolSelectionService), counted without a check; an AppException   *)
(* leaves the step.                                                        *)
RuleFallback(t, status, cost) ==
  /\ place = "fallback"
  /\ RecordCall(t, cost)
  /\ observed' = status
  /\ place' = "settled"
  /\ UNCHANGED <<mode, turn, turnVars, total>>

RuleFallbackRaises ==
  /\ place = "fallback"
  /\ place' = "raised"
  /\ UNCHANGED <<mode, turn, turnVars, total, budget, observed>>

Next ==
  \/ \E m \in Modes, b \in BOOLEAN : Start(m, b)
  \/ \E n \in 1..MaxRequests : \E reqs \in [1..n -> Tools] : Ask(reqs)
  \/ Conclude
  \/ ModelFails
  \/ \E i \in 1..MaxRequests :
       \/ Check(i)
       \/ \E s \in Settled, cost \in 0..1 : Finish(i, s, cost)
       \/ Raise(i)
  \/ EndBatch
  \/ \E t \in Tools, s \in Settled, cost \in 0..1 : RuleFallback(t, s, cost)
  \/ RuleFallbackRaises

Spec == Init /\ [][Next]_vars

-----------------------------------------------------------------------------
(* A call runs only after every call of its turn that provides what it     *)
(* requires has ended, whatever order the model asked for them in, unless  *)
(* their tools require each other.                                         *)
ProvidersFirst ==
  \A i \in DOMAIN result :
    result[i] = "running" /\ ~Cyclic(requests) =>
      \A j \in DependsOn(requests, i) : result[j] \in Settled

(* The calls of one batch pass the check before any of them is counted, so *)
(* a parallel step may go over a limit by one batch less the call that was *)
(* still allowed, and never by more; a sequential one never does.          *)
BudgetHolds ==
  LET inFlight(S) == Cardinality({i \in DOMAIN result :
                                    result[i] = "running" /\ requests[i] \in S})
      over == IF mode.parallel THEN MaxRequests - 1 ELSE 0
  IN  /\ SumFunction(used) + inFlight(Tools) <= StepLimit + over
      /\ \A t \in Tools : used[t] + inFlight({t}) <= ToolLimit + over

(* When the model is asked again, or the step is answered, no call of it   *)
(* is under way: the answer and the events report every call that was made.*)
AnswerIsComplete ==
  place \in {"asking", "settled"} => \A i \in DOMAIN result : result[i] \in Settled

(* The three of them: what is asked for runs in order, within the budget,  *)
(* and is reported, however the calls of a batch overlap.                  *)
StepSound == ProvidersFirst /\ BudgetHolds /\ AnswerIsComplete
=============================================================================
