------------------------------- MODULE Remote -------------------------------
(***************************************************************************)
(* The clients of MCP servers and A2A agents.  A manager takes the         *)
(* configuration when it is built, at the start of a request or of a run,  *)
(* and asks the remotes one after the other, waiting for each answer.      *)
(*                                                                         *)
(* The settings page may switch a remote while a manager built earlier is  *)
(* still in use.  A remote may answer anything, or not at all.             *)
(***************************************************************************)
EXTENDS Naturals, Sequences, SequencesExt, PyLists

CONSTANTS
  Servers,    \* names of MCP servers, in the order of the file
  Agents,     \* keys of A2A agents
  Transport,  \* of each of them
  Default,    \* the agent asked if none is named
  Loaded,     \* bound: what the files may hold when they are first read
  MaxChanges  \* bound: edits of the configuration after a manager is built

VARIABLES
  remotes,  \* the configuration files: of each remote absent, off or on
  manager,  \* what the manager in use was built with, None before
  changes,  \* edits since
  ask,      \* the request: what it wants, who is left to ask, how it ended
  sent      \* requests sent to each remote for it

vars == <<remotes, manager, changes, ask, sent>>

ServerSet == ToSet(Servers)
Remotes == ServerSet \cup Agents
Configs == [Remotes -> {"absent", "off", "on"}]
NoManager == [r \in Remotes |-> "none"]

Outcomes == {"ok", "refused", "unsupported", "failed", "raised"}
Idle == [reads |-> TRUE, for |-> <<>>, left |-> <<>>, answered |-> <<>>, outcome |-> "none"]

TypeOK ==
  /\ remotes \in Configs
  /\ manager \in Configs \cup {NoManager}
  /\ changes \in 0..MaxChanges
  /\ ask.reads \in BOOLEAN
  /\ {ask.for, ask.left, ask.answered} \subseteq Seq(Remotes)
  /\ ask.outcome \in Outcomes \cup {"none", "asking", "waiting"}
  /\ sent \in [Remotes -> Nat]

Init ==
  /\ remotes = [r \in Remotes |-> "absent"]
  /\ manager = NoManager /\ changes = 0
  /\ ask = Idle
  /\ sent = [r \in Remotes |-> 0]

-----------------------------------------------------------------------------
(* The files are read once, and again after the settings page saved them   *)
(* (load_mcp_config, load_a2a_config); a manager keeps what it was given.  *)
Build(config) ==
  /\ manager = NoManager
  /\ remotes' = config /\ manager' = config
  /\ UNCHANGED <<changes, ask, sent>>

Switch(r, state) ==
  /\ manager # NoManager /\ changes < MaxChanges
  /\ remotes' = [remotes EXCEPT ![r] = state]
  /\ changes' = changes + 1
  /\ UNCHANGED <<manager, ask, sent>>

(* McpClientManager.list_tools without a name: the servers that are on.    *)
AllServers == Filtered(Servers, {s \in ServerSet : manager[s] # "absent"})

EnabledServers == Filtered(Servers, {s \in ServerSet : manager[s] = "on"})

(* A request begins.  It reads the tools of all servers or of one, or the  *)
(* card of an agent; or it calls a tool of a server or sends a task to an  *)
(* agent, the default one if none is named.                                *)
Request(reads, names) ==
  /\ manager # NoManager
  /\ ask.outcome \in Outcomes \cup {"none"}
  /\ ask' = [reads |-> reads, for |-> names, left |-> names, answered |-> <<>>,
             outcome |-> IF names = <<>> THEN "ok" ELSE "asking"]
  /\ sent' = [r \in Remotes |-> 0]
  /\ UNCHANGED <<remotes, manager, changes>>

ListTools == Request(TRUE, EnabledServers)

AskServer(reads, s) == Request(reads, <<s>>)

AskAgent(reads, key) == Request(reads, <<key>>)

(* _get_enabled_server and _get_enabled_agent: 404 for a remote that is    *)
(* not configured, 400 for one that is switched off.                       *)
RefuseAbsent(r) == manager[r] = "absent"

Refuse(r) == manager[r] # "on"

End(outcome) == ask' = [ask EXCEPT !.outcome = outcome, !.left = <<>>, !.answered = <<>>]

Answered ==
  ask' = [ask EXCEPT !.left = Tail(@), !.answered = Append(@, Head(ask.left)),
                     !.outcome = IF Tail(ask.left) = <<>> THEN "ok" ELSE "asking"]

Asking == ask.outcome = "asking"

(* _build_transport for the next remote; sse is refused without a request. *)
CannotAsk ==
  /\ Asking
  /\ LET r == Head(ask.left)
     IN  \/ Refuse(r) /\ End("refused")
         \/ ~Refuse(r) /\ Transport[r] = "sse" /\ End("unsupported")
  /\ UNCHANGED <<remotes, manager, changes, sent>>

(* The built-in demonstrations answer in the process.  The server's lists  *)
(* its tools, and refuses an unknown tool and a missing argument; the      *)
(* agent's shows the card of the configuration, and refuses an empty task. *)
AskDemo(r) ==
  /\ Asking /\ r = Head(ask.left)
  /\ ~Refuse(r) /\ Transport[r] = "demo"
  /\ Answered \/ (~ask.reads /\ End("refused"))
  /\ UNCHANGED <<remotes, manager, changes, sent>>

AskDemoServer(s) == s \in ServerSet /\ AskDemo(s)

AskDemoAgent(key) == key \in Agents /\ AskDemo(key)

(* _send_json_rpc and _request: one request over HTTP, or one process      *)
(* started for it.                                                         *)
SendTo(r) ==
  /\ Asking /\ r = Head(ask.left)
  /\ ~Refuse(r) /\ Transport[r] \in {"http", "stdio"}
  /\ sent' = [sent EXCEPT ![r] = @ + 1]
  /\ ask' = [ask EXCEPT !.outcome = "waiting"]
  /\ UNCHANGED <<remotes, manager, changes>>

(* What comes back: a result; none, which is an empty one; an error of the *)
(* protocol; a bad status or exit code; nothing in time; JSON that is no   *)
(* object; or what cannot be read, which no handler of a client expects.   *)
Replies == {"result", "empty", "error", "status", "lost", "list", "unreadable"}

McpOutcome(reply) ==
  CASE reply \in {"result", "empty"} -> "ok"
    [] reply \in {"error", "status", "lost"} -> "failed"
    [] reply \in {"list", "unreadable"} -> "raised"

(* An agent's client looks for no error in the answer.                     *)
AgentOutcome(reply) ==
  CASE reply \in {"result", "empty", "error", "list"} -> "ok"
    [] reply \in {"status", "lost"} -> "failed"
    [] reply = "unreadable" -> "raised"

Receive(reply) ==
  /\ ask.outcome = "waiting"
  /\ LET outcome == IF Head(ask.left) \in Agents THEN AgentOutcome(reply)
                    ELSE McpOutcome(reply)
     IN  IF outcome = "ok" THEN Answered ELSE End(outcome)
  /\ UNCHANGED <<remotes, manager, changes, sent>>

Next ==
  \/ \E config \in Loaded : Build(config)
  \/ \E r \in Remotes, state \in {"absent", "off", "on"} : Switch(r, state)
  \/ ListTools
  \/ \E reads \in BOOLEAN, s \in ServerSet : AskServer(reads, s)
  \/ \E reads \in BOOLEAN, key \in Agents \cup {Default} : AskAgent(reads, key)
  \/ CannotAsk
  \/ \E r \in Remotes : AskDemoServer(r) \/ AskDemoAgent(r) \/ SendTo(r)
  \/ \E reply \in Replies : Receive(reply)

Spec == Init /\ [][Next]_vars

-----------------------------------------------------------------------------
(* A request reaches only remotes that were switched on when its manager   *)
(* was built, each at most once and only if it is asked for: no client     *)
(* sends again what may have been done.  A request that succeeds has heard *)
(* from everyone it asked, in order, and one the client refuses has been   *)
(* sent to nobody, so the caller may correct it and try again: the list of *)
(* all servers never stops halfway at one that is switched off.            *)
RemoteSound ==
  /\ \A r \in Remotes :
       /\ sent[r] <= 1
       /\ sent[r] = 1 => manager[r] = "on" /\ Contains(ask.for, r)
  /\ ask.outcome = "ok" =>
       /\ ask.answered = ask.for
       /\ \A r \in ToSet(ask.for) : Transport[r] = "demo" \/ sent[r] = 1
  /\ ask.outcome = "refused" => \A r \in Remotes : sent[r] = 0
=============================================================================
