--------------------------- MODULE StoreServices ----------------------------
(***************************************************************************)
(* The services that keep something for the agent: the records of its      *)
(* tools, skills, settings, memories and knowledge bases, and the contexts *)
(* that are made of them.  They share neither state nor a lock.            *)
(*                                                                         *)
(* The parameters of each component are described in its module.           *)
(***************************************************************************)
EXTENDS Service, Integers, Sequences, FiniteSets

CONSTANTS
  Calls, Tools, Idempotent, Risky, Fallback, Keys,       \* ToolCalls
  Hashes, MaxRetries, MaxCrashes,
  Editors,                                               \* SkillVersion
  ItemNames, BuiltIn,                                    \* Settings
  Memories,                                              \* MemoryStore
  Notes, LifePasses, Pace, MaxConf, Confs, MinHits,      \* MemoryLife
  Promoted, Floor, MaxDays,
  Docs, Builds,                                          \* Knowledge
  Items, MaxItems, Limit, ItemChars, MaxChars, MaxLinks, \* AgentContext
  HistoryChars, Short, MarkChars, TitleFrame, Recent,
  DigestChars

VARIABLES
  row, call, started, crashes,                     \* ToolCalls
  skill, operation, deprecated, republished,       \* SkillVersion
  file, loaded, switch,                            \* Settings
  memory, creating, verifying, dated, retired,     \* MemoryStore
  note, start, hits, pass,                         \* MemoryLife
  external, base, status, rows, vectors, job,
  spent, damaged,                                  \* Knowledge
  kind, items, all, taken, linked, rest, layers,
  ready                                            \* AgentContext

toolVars == <<row, call, started, crashes>>
skillVars == <<skill, operation, deprecated, republished>>
settingsVars == <<file, loaded, switch>>
memoryVars == <<memory, creating, verifying, dated, retired>>
lifeVars == <<note, start, hits, pass>>
knowledgeVars == <<external, base, status, rows, vectors, job, spent, damaged>>
contextVars == <<kind, items, all, taken, linked, rest, layers, ready>>

storeVars == <<part, toolVars, skillVars, settingsVars, memoryVars, lifeVars,
               knowledgeVars, contextVars>>

Tool == INSTANCE ToolCalls WITH NoKey <- None

Skill == INSTANCE SkillVersion WITH Clients <- Editors, request <- operation

Setting == INSTANCE Settings WITH Names <- ItemNames

Memory == INSTANCE MemoryStore WITH row <- memory

Life == INSTANCE MemoryLife WITH Passes <- LifePasses

Base == INSTANCE Knowledge WITH live <- base, op <- job

Given == INSTANCE AgentContext WITH Mark <- MarkChars

-----------------------------------------------------------------------------
(* What the proofs ask of the parameters; `None' is not a value of any of  *)
(* the things it is the absence of.                                        *)
ASSUME StoreAssumption ==
  /\ Tools # {} /\ Hashes # {} /\ Fallback \in [Tools -> Tools] /\ Risky \subseteq Tools
  /\ MaxRetries \in Nat /\ MaxCrashes \in Nat
  /\ BuiltIn \in ItemNames /\ None \notin Setting!Config
  /\ None \notin Memory!Row /\ None \notin Memory!Creation
  /\ None \notin Memory!Verification
  /\ None \notin [status : Memory!Status, until : Memory!Until]
  /\ Pace \in [Notes -> Nat] /\ Confs \subseteq 0..MaxConf
  /\ {MaxConf, MinHits, Promoted, Floor, MaxDays} \subseteq Nat /\ Promoted <= MaxConf

ASSUME BaseAssumption == None \notin Base!Op \cup Base!Status

(* Of the settings of a context; a digest has a character.                 *)
ASSUME ContextAssumption ==
  /\ \A m \in Items : m.chars \in Nat /\ m.title \in Nat /\ m.score \in Int
  /\ {MaxItems, Limit, ItemChars, MaxChars, Short, MarkChars, Recent} \subseteq Nat
  /\ {MaxLinks, HistoryChars, TitleFrame} \subseteq Nat
  /\ DigestChars \in Nat \ {0}

-----------------------------------------------------------------------------
StoreInit ==
  /\ Tool!Init /\ Skill!Init /\ Setting!Init /\ Memory!Init /\ Life!Init
  /\ Base!Init /\ Given!Init
  /\ external => part = "knowledge"

StoreNext ==
  /\ UNCHANGED part
  /\ IF part = "tool" THEN Tool!Next ELSE UNCHANGED toolVars
  /\ IF part = "skill" THEN Skill!Next ELSE UNCHANGED skillVars
  /\ IF part = "settings" THEN Setting!Next ELSE UNCHANGED settingsVars
  /\ IF part = "memory" THEN Memory!Next ELSE UNCHANGED memoryVars
  /\ IF part = "life" THEN Life!Next ELSE UNCHANGED lifeVars
  /\ IF part = "knowledge" THEN Base!Next ELSE UNCHANGED knowledgeVars
  /\ IF part = "context" THEN Given!Next ELSE UNCHANGED contextVars

StoreSpec == StoreInit /\ [][StoreNext]_storeVars

-----------------------------------------------------------------------------
(* What a component of the store keeps has the type its module gives it.   *)
StoreTypes ==
  /\ part = "tool" => Tool!TypeOK
  /\ part = "skill" => Skill!TypeOK
  /\ part = "settings" => Setting!TypeOK
  /\ part = "memory" => Memory!TypeOK
  /\ part = "life" => Life!TypeOK
  /\ part = "knowledge" => Base!TypeOK
  /\ part = "context" => Given!TypeOK

(* The handler of a tool runs for one call only of those with one key, and *)
(* once unless it is idempotent (tool_runtime.py).                         *)
ToolEffectOnce == part = "tool" => Tool!EffectOnce

(* A deprecated version of a skill is not injected again unless a request  *)
(* published it meanwhile (skill_service.py).                              *)
DeprecatedStaysOut == part = "skill" => Skill!DeprecatedStaysOut

(* A settings file that was written can be loaded, and the page shows what *)
(* is in it (app_settings_service.py).                                     *)
FilesLoad == part = "settings" => Setting!FilesLoad

(* A memory that is injected has evidence and was not replaced, and decay  *)
(* and promotion stay within their bounds (memory_service.py,              *)
(* memory_lifecycle_service.py).                                           *)
MemoriesSound ==
  /\ part = "memory" => Memory!InjectedIsCurrent
  /\ part = "life" => Life!ForgettingBounded

(* A query finds the chunks of one build of a document, and all of them    *)
(* once it is ready, unless a request on it was interrupted or overlapped  *)
(* (rag_service.py).                                                       *)
KnowledgeSound == part = "knowledge" => Base!ReadyIsRetrieved

(* A context keeps to its budget with the most relevant in it, memories    *)
(* that come in for a link take no place of theirs, and a history forgets  *)
(* its older steps first (context_engineering_service.py,                  *)
(* memory_retrieval_service.py).                                           *)
ContextBounded == part = "context" => Given!ContextBounded
=============================================================================
