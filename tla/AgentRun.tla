------------------------------ MODULE AgentRun ------------------------------
(***************************************************************************)
(* What one execution run of a plan promises to the services around it,    *)
(* whatever happens inside a step.  A run owns a plan of `total' steps and *)
(* a cursor: the number of steps of the current plan that were accepted.   *)
(* It ends at most once, and it is delivered only with the cursor at the   *)
(* end of the plan.  AgentMachine implements this specification.           *)
(***************************************************************************)
EXTENDS Naturals

CONSTANT MaxSteps       \* the longest plan, at least one step

VARIABLES
  outcome,              \* "open" while the run goes on, then how it ended
  total,                \* number of steps of the current plan
  cursor,               \* steps of the current plan accepted so far
  replans               \* how many times the plan was replaced

vars == <<outcome, total, cursor, replans>>

Outcomes == {"open", "delivered", "failed", "blocked", "raised", "cancelled"}

TypeOK ==
  /\ outcome \in Outcomes
  /\ total \in 1..MaxSteps
  /\ cursor \in 0..total
  /\ replans \in Nat

(* A run starts at the beginning of its plan or, resumed, further on.      *)
Init ==
  /\ outcome = "open"
  /\ total \in 1..MaxSteps
  /\ cursor \in 0..total
  /\ replans = 0

-----------------------------------------------------------------------------

AcceptStep ==
  /\ outcome = "open" /\ cursor < total
  /\ cursor' = cursor + 1
  /\ UNCHANGED <<outcome, total, replans>>

(* The acceptance chain refused the result: the last step is open again.   *)
ReopenLastStep ==
  /\ outcome = "open" /\ cursor = total
  /\ cursor' = total - 1
  /\ UNCHANGED <<outcome, total, replans>>

Replan ==
  /\ outcome = "open" /\ cursor < total
  /\ total' \in 1..MaxSteps
  /\ cursor' = 0
  /\ replans' = replans + 1
  /\ UNCHANGED outcome

Deliver ==
  /\ outcome = "open" /\ cursor = total
  /\ outcome' = "delivered"
  /\ UNCHANGED <<total, cursor, replans>>

(* Approval is asked for by a step, hence before the end of the plan.      *)
Block ==
  /\ outcome = "open" /\ cursor < total
  /\ outcome' = "blocked"
  /\ UNCHANGED <<total, cursor, replans>>

(* An exception or a cancellation ends a run anywhere, and so does a       *)
(* failing verdict, which at the end of the plan is about its last step.   *)
GiveUp ==
  /\ outcome = "open"
  /\ \/ outcome' \in {"failed", "raised", "cancelled"} /\ UNCHANGED cursor
     \/ outcome' = "failed" /\ cursor = total /\ cursor' = total - 1
  /\ UNCHANGED <<total, replans>>

Next ==
  \/ AcceptStep \/ ReopenLastStep \/ Replan
  \/ Deliver \/ Block \/ GiveUp

Spec == Init /\ [][Next]_vars
=============================================================================
