------------------------------ MODULE Settings ------------------------------
(***************************************************************************)
(* The settings page (AppSettingsService): three YAML files under          *)
(* runtime-config, for the language models, the MCP servers and the remote *)
(* agents, the switches of the modules, and the services that have loaded  *)
(* the files.  A request is handled without an await, so each is a step;   *)
(* the files outlive the process, what was loaded does not.                *)
(***************************************************************************)
EXTENDS Naturals, FiniteSets

CONSTANTS
  Names,    \* of providers, servers and agents
  BuiltIn,  \* the name the installation comes with
  None      \* nothing loaded

VARIABLES
  file,     \* of each kind: what is in its file
  loaded,   \* of each kind: what its service has read
  switch    \* modules.yaml

vars == <<file, loaded, switch>>

Kinds == {"llm", "mcp", "a2a"}

(* Modules of the page; those that have no file have only a switch.        *)
Modules == Kinds

(* `items' are the names in the file, `enabled' those not switched off,    *)
(* `fit' those whose transport has all it needs and whose host or command  *)
(* the operator allows.  Sections of a file that the page knows nothing    *)
(* of, such as the embedding model of retrieval, are left out.             *)
Config == [items : SUBSET Names, enabled : SUBSET Names, fit : SUBSET Names,
           default : Names]

TypeOK ==
  /\ file \in [Kinds -> Config]
  /\ loaded \in [Kinds -> Config \cup {None}]
  /\ switch \in [Modules -> BOOLEAN]

(* load_llm_config, load_mcp_config, load_a2a_config: the default must be  *)
(* an item, and what is enabled must fit the policy.                       *)
Valid(c) == c.enabled \subseteq c.fit

Loads(c) == Valid(c) /\ c.default \in c.items

Init ==
  /\ file = [k \in Kinds |-> [items |-> {BuiltIn}, enabled |-> {BuiltIn}, fit |-> {BuiltIn},
                              default |-> BuiltIn]]
  /\ loaded = file
  /\ switch = [m \in Modules |-> TRUE]

-----------------------------------------------------------------------------
(* _write_config, which replaces the file in one step, and                 *)
(* _reload_services, which clears the caches and builds the services anew. *)
Reloaded(f) == [k \in Kinds |-> IF Loads(f[k]) THEN f[k] ELSE None]

Save(kind, c) ==
  /\ file' = [file EXCEPT ![kind] = c]
  /\ loaded' = Reloaded(file')
  /\ UNCHANGED switch

Refuse == UNCHANGED vars

(* save_llm_provider: added or replaced, and the default from now on.       *)
SaveProvider(n) ==
  Save("llm", [file["llm"] EXCEPT !.items = @ \cup {n}, !.enabled = @ \cup {n},
                                  !.fit = @ \cup {n}, !.default = n])

(* save_mcp_server, with an endpoint of its own or with pasted JSON, which *)
(* may name several servers, switched on or off; the first is the default. *)
SaveServers(names, on, fit, first) ==
  LET c == [file["mcp"] EXCEPT !.items = @ \cup names,
                               !.enabled = (@ \ names) \cup on,
                               !.fit = (@ \ names) \cup fit,
                               !.default = first]
  IN IF Valid(c) THEN Save("mcp", c) ELSE Refuse

(* save_a2a_agent.                                                         *)
SaveAgent(n, fit) ==
  LET c == [file["a2a"] EXCEPT !.items = @ \cup {n}, !.enabled = @ \cup {n},
                               !.fit = IF fit THEN @ \cup {n} ELSE @ \ {n},
                               !.default = n]
  IN IF Valid(c) THEN Save("a2a", c) ELSE Refuse

(* update_config_item: providers have no switch.                           *)
SwitchItem(kind, n, on) ==
  LET c == [file[kind] EXCEPT !.enabled = IF on THEN @ \cup {n} ELSE @ \ {n}]
  IN IF kind # "llm" /\ n \in file[kind].items /\ Valid(c)
     THEN Save(kind, c) ELSE Refuse

(* delete_config_item and delete_integration: one item must remain, and    *)
(* takes the place of a default that is deleted.                           *)
Deletable(kind, n) == n \in file[kind].items /\ Cardinality(file[kind].items) > 1

WithoutKeepingDefault(c, n, heir) ==
  [items |-> c.items \ {n}, enabled |-> c.enabled \ {n}, fit |-> c.fit \ {n},
   default |-> c.default]

Without(c, n, heir) ==
  [items |-> c.items \ {n}, enabled |-> c.enabled \ {n}, fit |-> c.fit \ {n},
   default |-> IF c.default = n THEN heir ELSE c.default]

DeleteItem(kind, n) ==
  IF Deletable(kind, n)
  THEN \E heir \in file[kind].items \ {n} : Save(kind, Without(file[kind], n, heir))
  ELSE Refuse

(* update_module: the switch is written first, and stays written when the  *)
(* default item is refused afterwards.                                     *)
SetSwitch(m, on) == switch' = [switch EXCEPT ![m] = on]

UpdateModule(m, on, item) ==
  /\ SetSwitch(m, on)
  /\ IF item \in file[m].items
     THEN LET f == [file EXCEPT ![m].default = item] IN
          file' = f /\ loaded' = Reloaded(f)
     ELSE UNCHANGED <<file, loaded>>

SwitchModule(m, on) ==
  /\ SetSwitch(m, on)
  /\ loaded' = Reloaded(file)
  /\ UNCHANGED file

(* The API starts again and reads the files.                               *)
Restart ==
  /\ loaded' = Reloaded(file)
  /\ UNCHANGED <<file, switch>>

Next ==
  \/ \E n \in Names :
       \/ SaveProvider(n)
       \/ \E fit \in BOOLEAN : SaveAgent(n, fit)
  \/ \E names \in (SUBSET Names) \ {{}} :
       \E on, fit \in SUBSET names, first \in names : SaveServers(names, on, fit, first)
  \/ \E k \in Kinds, n \in Names :
       \/ \E on \in BOOLEAN : SwitchItem(k, n, on)
       \/ DeleteItem(k, n)
  \/ \E m \in Modules, on \in BOOLEAN :
       \/ \E n \in Names : UpdateModule(m, on, n)
       \/ SwitchModule(m, on)
  \/ Restart

Spec == Init /\ [][Next]_vars

-----------------------------------------------------------------------------
(* What the page shows of a kind: its items, and whether one is usable.    *)
Page(kind, c) ==
  [items |-> c.items, default |-> c.default,
   status |-> IF ~switch[kind] THEN "disabled"
              ELSE IF kind = "llm" \/ c.enabled # {} THEN "ready" ELSE "warning"]

(* No sequence of requests writes a file with which the services could not *)
(* be built again, now or at the next start: the default is always one of  *)
(* the items and all that is enabled is allowed.  What the page shows is   *)
(* what is in the files.                                                   *)
FilesLoad ==
  \A k \in Kinds : loaded[k] # None /\ Page(k, loaded[k]) = Page(k, file[k])
                   /\ Loads(file[k])
=============================================================================
