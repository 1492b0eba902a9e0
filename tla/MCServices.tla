---------------------------- MODULE MCServices ------------------------------
(***************************************************************************)
(* The small instance of the services for TLC.                             *)
(***************************************************************************)
EXTENDS Services

CONSTANTS t1, t2, open, look, type, c3, f1, f2, h1, a, b, k, m1

(* t1, which is risky, falls back to t2, which is idempotent.              *)
MCFallback == [t \in {t1, t2} |-> t2]

(* open provides what look requires, look what type requires and type what *)
(* look requires as well: look and type may require each other.            *)
MCProvides == [t \in {open, look, type} |->
  IF t = look THEN {"text"} ELSE {"page"}]
MCRequires == [t \in {open, look, type} |->
  CASE t = open -> {} [] t = look -> {"page"} [] t = type -> {"text"}]

(* Two attachments of one name.                                            *)
MCNameOf == [f \in {f1, f2} |-> c3]

(* a shares no word with the question; all but c3 are part of a longer     *)
(* passage; two of the three chunks are marked, and two fit into the       *)
(* context.                                                                *)
MCOverlap == [x \in {a, b, c3} |-> IF x = a THEN 0 ELSE 50]
MCLength == [x \in {a, b, c3} |-> 2]
MCPassage == [x \in {a, b, c3} |-> IF x = c3 THEN 2 ELSE 3]

(* A line of a title is longer than a short text, and a mark is as long.   *)
MCItems ==
  [chars : {1, 4}, score : 0 .. 2, why : {"matched", "unrelated"}, title : {1}]

(* What a rule looks for first, in the goal or in the step; one of the     *)
(* contexts names a tool, and another a note before the attached file.     *)
MCGoals == {{}, {"multi"}, {"shot"}, {"open"}}
MCSteps == {{}, {"a2a"}, {"remote"}, {"mcp"}, {"file"}, {"search"}, {"shot"},
            {"open", "shot"}, {"keywords"}, {"plan"}}
MCContexts == {[words |-> {}, lines |-> <<"plain", "attachment">>],
               [words |-> {"mcp"}, lines |-> <<"dotted", "attachment">>]}

(* At most one of the remotes differs from the others.                     *)
MCServers == <<a, b, k>>
MCRemotes == {a, b, c3, h1, k}
MCLoaded == {[r \in MCRemotes |-> IF r = one THEN x ELSE y] :
               one \in MCRemotes, x \in {"absent", "off", "on"},
               y \in {"absent", "off", "on"}}
MCTransport == [r \in MCRemotes |->
  CASE r \in {b, h1} -> "demo" [] r = k -> "sse" [] OTHER -> "http"]

MCPace == [m \in {m1} |-> 1]
=============================================================================
