----------------------------- MODULE Services -------------------------------
(***************************************************************************)
(* The components that share neither state nor a lock with one another,    *)
(* side by side: a behaviour is one of the component it starts with, and   *)
(* every invariant is about all of them.  It is a behaviour of             *)
(* StoreSpec, of AgentSpec and of EdgeSpec.                                *)
(***************************************************************************)
EXTENDS StoreServices, AgentServices, EdgeServices

vars == <<storeVars, agentVars, edgeVars>>

Init ==
  /\ part \in {"tool", "skill", "settings", "memory", "life", "knowledge", "context",
               "turn", "step", "choice", "remote", "verdicts", "todo", "control",
               "page", "cards", "files", "browser", "shell", "chunk", "query"}
  /\ StoreInit /\ AgentInit /\ EdgeInit

Next == StoreNext /\ AgentNext /\ EdgeNext

Spec == Init /\ [][Next]_vars

(* Every variable keeps the type the module of its component gives it.     *)
TypeOK == StoreTypes /\ AgentTypes /\ EdgeTypes
=============================================================================
