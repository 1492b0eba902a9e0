----------------------------- MODULE ToolCalls -----------------------------
(***************************************************************************)
(* The tool runtime (ToolRuntime): every call of a tool looks its          *)
(* idempotency key up, records that it starts, runs the handler with       *)
(* retries, records the outcome, and may fall back to another tool.        *)
(*                                                                         *)
(* A call belongs to an HTTP request or to a step, each with a runtime of  *)
(* its own, so calls meet only in the table tool_invocations, between two  *)
(* awaits of one another, and a process may die at any of them.  A call    *)
(* without a key is never looked up, and its row is not kept here.         *)
(***************************************************************************)
EXTENDS Naturals, FiniteSets

CONSTANTS
  Calls,       \* calls, each made once
  Tools,       \* tools of the registry
  Idempotent,  \* those declared idempotent
  Risky,       \* those whose risk is above tool_auto_approve_risk
  Fallback,    \* the fallback_tool of a tool, itself if it has none
  Keys,        \* idempotency keys
  NoKey,       \* a call without a key
  Hashes,      \* request hashes
  MaxRetries,  \* RetryPolicy.max_retries
  MaxCrashes   \* bound: calls that die before they answer

VARIABLES
  row,      \* tool_invocations by tool and key
  call,     \* where each call stands
  started,  \* handlers started, by tool and key: each the call that did
  crashes   \* calls that died so far

vars == <<row, call, started, crashes>>

Outcomes == {"succeeded", "failed", "timed_out"}
NoRow == [status |-> "none"]
Decisions == {"running", "approval_required", "denied"}
Rows == [status : Outcomes \cup Decisions, hash : Hashes]
Answers == {"none", "error", "conflict", "deduplicated"} \cup Decisions \cup Outcomes

(* `tool' is the tool being run, `primary' the one that was asked for.     *)
Places == {"new", "lookup", "record", "invoke", "running", "finish", "over"}
Call == [place : Places, primary : Tools, tool : Tools, key : Keys \cup {NoKey},
         hash : Hashes, approved : BOOLEAN, attempt : 0..MaxRetries,
         outcome : Answers, answer : Answers]

TypeOK ==
  /\ row \in [Tools \X Keys -> Rows \cup {NoRow}]
  /\ call \in [Calls -> Call]
  /\ started \in [Tools \X Keys -> [Calls -> 0..(MaxRetries + 1)]]
  /\ crashes \in 0..MaxCrashes

Init ==
  /\ row = [k \in Tools \X Keys |-> NoRow]
  /\ call = [c \in Calls |->
       [place |-> "new", primary |-> CHOOSE t \in Tools : TRUE,
        tool |-> CHOOSE t \in Tools : TRUE, key |-> NoKey,
        hash |-> CHOOSE h \in Hashes : TRUE, approved |-> FALSE, attempt |-> 0,
        outcome |-> "none", answer |-> "none"]]
  /\ started = [k \in Tools \X Keys |-> [c \in Calls |-> 0]]
  /\ crashes = 0

At(c, place) == call[c].place = place
Keyed(c) == call[c].key # NoKey
RowOf(c) == <<call[c].tool, call[c].key>>
FellBack(c) == call[c].tool # call[c].primary

(* _policy_decision: a call is denied if the module of its tool is off or  *)
(* a permission is missing; above the risk that is approved by itself it   *)
(* needs an approval.                                                      *)
Decision(c, granted) ==
  IF ~granted THEN "denied"
  ELSE IF call[c].tool \in Risky /\ ~call[c].approved THEN "approval_required"
  ELSE "running"

-----------------------------------------------------------------------------
(* POST /tools/{tool_name}/invoke, or a call of a step.                    *)
Request(c, t, k, h, approved) ==
  /\ At(c, "new")
  /\ call' = [call EXCEPT ![c] = [@ EXCEPT !.place = "lookup", !.primary = t,
                !.tool = t, !.key = k, !.hash = h, !.approved = approved]]
  /\ UNCHANGED <<row, started, crashes>>

(* The call ends.  An AppException of a fallback keeps the result of the   *)
(* primary tool; every other error reaches the caller.  How it was tried   *)
(* does not matter any more.                                               *)
AnswerWith(c, answer) ==
  call' = [call EXCEPT ![c] = [@ EXCEPT !.place = "over", !.answer = answer,
                                        !.attempt = 0, !.outcome = "none"]]
AnswerConflict(c) ==
  AnswerWith(c, IF FellBack(c) THEN call[c].outcome ELSE "conflict")

(* Arguments the tool does not accept: an AppException of code 400, before *)
(* anything was read.                                                      *)
Invalid(c) ==
  /\ At(c, "lookup")
  /\ AnswerConflict(c)
  /\ UNCHANGED <<row, started, crashes>>

(* _find_idempotent and _cache_hit: a row of this tool and key is answered *)
(* with its status as it stands, a success as deduplicated.                *)
Replay(status) == IF status = "succeeded" THEN "deduplicated" ELSE status

LookUpAnyHash(c) ==
  /\ At(c, "lookup")
  /\ IF ~Keyed(c) \/ row[RowOf(c)] = NoRow
     THEN call' = [call EXCEPT ![c].place = "record"]
     ELSE AnswerWith(c, Replay(row[RowOf(c)].status))
  /\ UNCHANGED <<row, started, crashes>>

LookUp(c) ==
  /\ At(c, "lookup")
  /\ IF ~Keyed(c) \/ row[RowOf(c)] = NoRow
     THEN call' = [call EXCEPT ![c].place = "record"]
     ELSE IF row[RowOf(c)].hash # call[c].hash
          THEN AnswerConflict(c)
          ELSE AnswerWith(c, Replay(row[RowOf(c)].status))
  /\ UNCHANGED <<row, started, crashes>>

(* _record_start: the row is inserted and committed before the handler     *)
(* runs; the unique constraint on tool and key refuses a second one.  A    *)
(* call that the policy holds back ends here (_finish_denied).             *)
Insert(c, decision) ==
  /\ row' = IF Keyed(c) THEN [row EXCEPT ![RowOf(c)] =
                               [status |-> decision, hash |-> call[c].hash]]
            ELSE row
  /\ IF decision = "running"
     THEN call' = [call EXCEPT ![c].place = "invoke"]
     ELSE AnswerWith(c, decision)

RecordStartAgain(c, granted) ==
  /\ At(c, "record")
  /\ Insert(c, Decision(c, granted))
  /\ UNCHANGED <<started, crashes>>

RecordStart(c, granted) ==
  /\ At(c, "record")
  /\ IF Keyed(c) /\ row[RowOf(c)] # NoRow
     THEN AnswerWith(c, "error") /\ UNCHANGED row
     ELSE Insert(c, Decision(c, granted))
  /\ UNCHANGED <<started, crashes>>

(* invoke_tool: the handler starts.                                        *)
Invoke(c) ==
  /\ At(c, "invoke")
  /\ call' = [call EXCEPT ![c].place = "running"]
  /\ started' = IF Keyed(c) THEN [started EXCEPT ![RowOf(c)][c] = @ + 1] ELSE started
  /\ UNCHANGED <<row, crashes>>

(* How a handler may end.  A time-out and an error whose text speaks of    *)
(* the network are worth another try (is_retryable_error_text), whatever   *)
(* raised it: a refused argument that names a connection is one.           *)
Errors == {"none", "time-out", "network", "other"}

Retryable(error) == error \in {"time-out", "network"}

StatusOf(error) ==
  CASE error = "none" -> "succeeded"
    [] error = "time-out" -> "timed_out"
    [] OTHER -> "failed"

(* _invoke_with_resilience tries an idempotent tool again.                 *)
MayRetry(c) == call[c].tool \in Idempotent /\ call[c].attempt < MaxRetries

Return(c, error) ==
  /\ At(c, "running")
  /\ IF Retryable(error) /\ MayRetry(c)
     THEN call' = [call EXCEPT ![c].place = "invoke", ![c].attempt = @ + 1]
     ELSE call' = [call EXCEPT ![c].place = "finish", ![c].outcome = StatusOf(error)]
  /\ UNCHANGED <<row, started, crashes>>

(* _record_finish, and _try_fallback when the primary tool failed.         *)
FallsBack(c) ==
  /\ call[c].outcome # "succeeded"
  /\ ~FellBack(c)
  /\ Fallback[call[c].tool] # call[c].tool

RecordFinish(c) ==
  /\ At(c, "finish")
  /\ row' = IF Keyed(c) THEN [row EXCEPT ![RowOf(c)].status = call[c].outcome] ELSE row
  /\ IF FallsBack(c)
     THEN call' = [call EXCEPT ![c] = [@ EXCEPT !.place = "lookup", !.attempt = 0,
                                                !.tool = Fallback[call[c].tool]]]
     ELSE AnswerWith(c, call[c].outcome)
  /\ UNCHANGED <<started, crashes>>

(* The process dies, the client goes away, or a write of the database or   *)
(* of the artifact store fails: nothing marks the row.                     *)
Die(c) ==
  /\ call[c].place \notin {"new", "over"}
  /\ crashes < MaxCrashes
  /\ crashes' = crashes + 1
  /\ AnswerWith(c, "error")
  /\ UNCHANGED <<row, started>>

Next ==
  \E c \in Calls :
    \/ \E t \in Tools, k \in Keys \cup {NoKey}, h \in Hashes, b \in BOOLEAN :
         Request(c, t, k, h, b)
    \/ Invalid(c)
    \/ LookUp(c)
    \/ \E b \in BOOLEAN : RecordStart(c, b)
    \/ Invoke(c)
    \/ \E error \in Errors : Return(c, error)
    \/ RecordFinish(c)
    \/ Die(c)

Spec == Init /\ [][Next]_vars

-----------------------------------------------------------------------------
(* However many calls carry a key, and whatever dies on the way, the       *)
(* handler of a tool is run for one call only, and more than once by it    *)
(* only if the tool is idempotent.  A call is told that its work was done  *)
(* before only if another of the same tool, key and arguments did it, and  *)
(* a risky handler runs only for an approved call.                         *)
EffectOnce ==
  /\ \A t \in Tools, k \in Keys :
       LET by == {c \in Calls : started[<<t, k>>][c] > 0} IN
       /\ \A c, d \in by : c = d
       /\ t \notin Idempotent => \A c \in by : started[<<t, k>>][c] = 1
  /\ \A c \in Calls :
       /\ call[c].answer = "deduplicated" =>
            \E d \in Calls \ {c} : /\ started[RowOf(c)][d] > 0
                                   /\ call[d].hash = call[c].hash
                                   /\ row[RowOf(c)].status = "succeeded"
       /\ \A t \in Risky, k \in Keys : started[<<t, k>>][c] > 0 => call[c].approved
=============================================================================
