--------------------------- MODULE MCAgentMachine ---------------------------
(***************************************************************************)
(* Small instances of AgentMachine for TLC.                                *)
(***************************************************************************)
EXTENDS AgentMachine

CONSTANTS c1, c2        \* acceptance commands

APlan(n, cmd, scoped, enforce, retry) ==
  [steps |-> n, command |-> cmd, gateRetry |-> retry, scoped |-> scoped,
   scopeRetry |-> retry, enforce |-> enforce]

(* Without replanning: a two-step plan with the full chain, a plan without *)
(* an acceptance section, and one that forbids retries; the service's      *)
(* wiring, with the stages switched on or off and no replanner.            *)
ServicePlans ==
  {APlan(2, c1, TRUE, TRUE, TRUE), APlan(2, NoCommand, FALSE, FALSE, TRUE),
   APlan(1, c1, TRUE, TRUE, FALSE)}
ServiceWirings ==
  {[gate |-> b, auditor |-> b, reviewer |-> b, replanner |-> FALSE] :
     b \in BOOLEAN}

(* With replanning, as the tests wire it: plans with different commands.   *)
ReplanPlans ==
  {APlan(2, c1, FALSE, FALSE, TRUE), APlan(1, c2, TRUE, TRUE, TRUE)}
ReplanWirings ==
  {[gate |-> TRUE, auditor |-> TRUE, reviewer |-> TRUE, replanner |-> TRUE]}

MCCommands == {c1, c2}
MCStatuses == {"succeeded", "timed_out", "approval_required"}
=============================================================================
