----------------------------- MODULE Selection ------------------------------
(***************************************************************************)
(* The tool a step calls when no model drives it turn by turn              *)
(* (ModelToolSelectionService.call_tool_for_step): a model names the tool  *)
(* and its arguments, rules do when its answer is of no use, and missing   *)
(* arguments are filled in before the registry checks them.                *)
(*                                                                         *)
(* A text is the set of things its words ask for; a line of the context is *)
(* an attached file, a note that reads like a file name, or neither.       *)
(***************************************************************************)
EXTENDS Naturals, Sequences, TLC

CONSTANTS
  Goals,     \* sets of words of the plan's goal
  Steps,     \* sets of words of a step
  Contexts,  \* what the step is given: [words, lines]
  MaxIndex   \* bound: the number of the step

VARIABLES
  goal,     \* words of plan.goal
  context,  \* agent_context
  index,    \* number of the step, 0 before it begins
  said,     \* its words
  choice    \* the call made for it

vars == <<goal, context, index, said, choice>>

Words == {"multi", "a2a", "remote", "mcp", "file", "search", "shot", "open",
          "keywords", "plan"}
Lines == {"attachment", "dotted", "plain"}

-----------------------------------------------------------------------------
(* The registered tools: the parameters a call must have, those it may     *)
(* have, and those that are not strings.                                   *)
Tool(name, required, optional, typed) ==
  [name |-> name, required |-> required, optional |-> optional, typed |-> typed]

TextTools == {Tool("write_content", {"task"}, {}, {}),
              Tool("summarize_text", {"text"}, {}, {}),
              Tool("extract_keywords", {"text"}, {}, {}),
              Tool("draft_plan", {"task"}, {}, {})}

FileTools == {Tool("file_list", {}, {"path"}, {}),
              Tool("file_read", {"path"}, {}, {}),
              Tool("file_write", {"path", "content"}, {}, {}),
              Tool("file_replace", {"path", "old_text", "new_text"}, {}, {}),
              Tool("file_delete", {"path"}, {}, {})}

ShellTools == {Tool("shell_run", {"command"}, {}, {}),
               Tool("shell_status", {"session_id"}, {}, {})}

BrowserTools == {Tool("browser_status", {}, {}, {}),
                 Tool("browser_open", {"url"}, {}, {}),
                 Tool("browser_read", {}, {"url", "max_chars"}, {"max_chars"}),
                 Tool("browser_screenshot", {}, {"full_page"}, {"full_page"}),
                 Tool("browser_close", {}, {}, {})}

SearchTools == {Tool("search_web", {"query"}, {"count"}, {"count"})}

RagTools == {Tool("knowledge_search", {"knowledge_base_id", "query"}, {"top_k"}, {"top_k"})}

McpTools == {Tool("mcp_call", {"server_name", "tool_name"}, {"arguments_json"}, {})}

A2aTools == {Tool("a2a_call", {"message"}, {"agent_key"}, {})}

AgentTools == {Tool("multi_agent_collaborate", {"task"}, {}, {})}

(* build_builtin_tool_registry                                             *)
Registry == TextTools \cup FileTools \cup ShellTools \cup BrowserTools \cup SearchTools
              \cup RagTools \cup McpTools \cup A2aTools \cup AgentTools

Names(tool) == tool.required \cup tool.optional

-----------------------------------------------------------------------------
(* _select_with_model: the arguments of an answer that names this tool.  A *)
(* value is usable, null, blank or of another type; some names belong to   *)
(* no parameter.                                                           *)
Values == {"given", "null", "blank", "other"}

ModelArguments(tool) ==
  UNION {[some -> Values] : some \in SUBSET (Names(tool) \cup {"observable_summary"})}

(* _needs_*: what the words of a text ask for.  One spelling of the remote *)
(* agent is not among those that keep a text from asking for several.      *)
NeedsMultiAgent(text) == "multi" \in text /\ "a2a" \notin text

NeedsA2a(text) == text \cap {"a2a", "remote"} # {}

NeedsBrowserOpen(text) == "open" \in text

NeedsScreenshot(text) == "shot" \in text

(* _select_with_rules: the first rule the task asks for; only whether to   *)
(* open the page or to take its picture depends on the step alone.         *)
Rules(task) ==
  LET opens == NeedsScreenshot(task) /\
                 (index = 1 \/ (NeedsBrowserOpen(said) /\ ~NeedsScreenshot(said)))
  IN  << <<NeedsMultiAgent(task), "multi_agent_collaborate">>,
         <<NeedsA2a(task), "a2a_call">>,
         <<"mcp" \in task, "mcp_call">>,
         <<"file" \in task, "file_read">>,
         <<"search" \in task, "search_web">>,
         <<opens, "browser_open">>,
         <<NeedsScreenshot(task), "browser_screenshot">>,
         <<NeedsBrowserOpen(task), "browser_open">>,
         <<"keywords" \in task, "extract_keywords">>,
         <<"plan" \in task, "draft_plan">>,
         <<TRUE, "summarize_text">> >>

RuleToolFor(task) ==
  LET asked == {r \in 1..11 : Rules(task)[r][1]}
      first == CHOOSE r \in asked : \A other \in asked : r <= other
  IN  Rules(task)[first][2]

RuleToolWithContext == RuleToolFor(goal \cup said \cup context.words)

RuleTool == RuleToolFor(goal \cup said)

(* The rules give every parameter of their tool.                           *)
RuleArguments(tool) == [p \in Names(tool) |-> "given"]

-----------------------------------------------------------------------------
(* _extract_file_path: the first line that reads like a file name.         *)
FilePath ==
  LET named(l) == l \in {"attachment", "dotted"}
      found == SelectSeq(context.lines, named)
  IN  IF found = <<>> THEN "." ELSE Head(found)

(* _repair_arguments: names the tool does not have are dropped, and what   *)
(* it requires and can be told from the task or the configuration is       *)
(* filled in.                                                              *)
Inferable(tool) ==
  {"query", "text", "task", "message", "url", "server_name", "tool_name"}
    \cup IF tool \in FileTools THEN {"path"} ELSE {}

Lacks(arguments, p) == p \notin DOMAIN arguments \/ arguments[p] \in {"null", "blank"}

RepairUnfiltered(tool, arguments) ==
  LET filled == {p \in tool.required \cap Inferable(tool) : Lacks(arguments, p)}
  IN  [p \in filled |-> "given"] @@ arguments

Repair(tool, arguments) ==
  LET filled == {p \in tool.required \cap Inferable(tool) : Lacks(arguments, p)}
  IN  [p \in filled \cup (DOMAIN arguments \cap Names(tool)) |->
         IF p \in filled THEN "given" ELSE arguments[p]]

(* _validate_arguments: the parameters a call is refused for.              *)
Refused(tool, arguments) ==
  (DOMAIN arguments \ Names(tool))
    \cup {p \in tool.required : Lacks(arguments, p)}
    \cup {p \in DOMAIN arguments \cap tool.typed :
            arguments[p] \in {"blank", "other"}}

(* call_tool_for_step                                                      *)
Call(source, tool, arguments) ==
  [source |-> source, tool |-> tool.name,
   refused |-> Refused(tool, Repair(tool, arguments)),
   path |-> IF /\ "path" \in tool.required \cap Inferable(tool)
               /\ source = "rules" \/ Lacks(arguments, "path")
            THEN FilePath ELSE "given"]

Begin(g, step, c, i) ==
  /\ index = 0
  /\ goal' = g /\ said' = step /\ context' = c /\ index' = i
  /\ UNCHANGED choice

(* The rules choose if the call of the model fails, or its answer is not   *)
(* JSON, not an object, or names no registered tool.                       *)
ModelChooses(tool) ==
  \E arguments \in ModelArguments(tool) : choice' = Call("model", tool, arguments)

RulesChoose(tool) ==
  /\ tool.name = RuleTool
  /\ choice' = Call("rules", tool, RuleArguments(tool))

Choose ==
  /\ index > 0 /\ choice.source = "none"
  /\ \E tool \in Registry : ModelChooses(tool) \/ RulesChoose(tool)
  /\ UNCHANGED <<goal, context, index, said>>

Init ==
  /\ goal = {} /\ said = {} /\ index = 0
  /\ context = [words |-> {}, lines |-> <<>>]
  /\ choice = [source |-> "none", tool |-> "none", refused |-> {}, path |-> "given"]

Next ==
  \/ \E g \in Goals, step \in Steps, c \in Contexts, i \in 1..MaxIndex :
       Begin(g, step, c, i)
  \/ Choose

Spec == Init /\ [][Next]_vars

TypeOK ==
  /\ goal \subseteq Words /\ said \subseteq Words
  /\ context \in [words : SUBSET Words, lines : Seq(Lines)]
  /\ index \in 0..MaxIndex
  /\ choice.source \in {"none", "rules", "model"}
  /\ choice.tool \in {tool.name : tool \in Registry} \cup {"none"}
  /\ choice.path \in Lines \cup {"given", "."}

-----------------------------------------------------------------------------
(* Without a model a step always gets a call its tool accepts, and a tool  *)
(* that leaves the process only if the words of the task itself ask for    *)
(* it: what is remembered from other tasks never triggers one.  A model's  *)
(* call is refused for content nobody else knows or for a value of a wrong *)
(* type, never for a parameter the task or the configuration tells.        *)
SelectionSound ==
  LET asked == goal \cup said
      local == {"extract_keywords", "draft_plan", "summarize_text"}
  IN  /\ choice.source = "rules" =>
           /\ choice.refused = {}
           /\ asked \cap (Words \ {"keywords", "plan"}) = {} => choice.tool \in local
      /\ choice.source = "model" =>
           choice.refused \subseteq
             {"max_chars", "full_page", "count", "top_k"} \cup
             {"content", "old_text", "new_text", "command", "session_id",
              "knowledge_base_id"}
=============================================================================
