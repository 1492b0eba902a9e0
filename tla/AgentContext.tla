---------------------------- MODULE AgentContext ----------------------------
(***************************************************************************)
(* What the model is given besides the task: memories, messages, files and *)
(* passages of the knowledge bases, each within a budget of its own        *)
(* (ContextEngineeringService, MemoryRetrievalService,                     *)
(* AgentDirectChatService), and for a step of a plan the history of the    *)
(* steps before it, of which the older parts are forgotten in layers       *)
(* (ContextBudget).                                                        *)
(*                                                                         *)
(* Texts are their lengths; one iteration of a loop is one step here.      *)
(***************************************************************************)
EXTENDS Naturals, Integers, Sequences, SequencesExt, PyLists

CONSTANTS
  Items,         \* what may be put into a context
  MaxItems,      \* bound: how many there are
  Limit,         \* context_memory_limit, context_message_limit, chat_attachment_limit
  ItemChars,     \* of one memory or message
  MaxChars,      \* of all memories, attachments or passages
  MaxLinks,      \* memory_graph_max_links
  HistoryChars,  \* context_budget_max_history_chars
  Short,         \* a text cut to this little has no place for a mark
  Mark,          \* length of the mark at the end of what was cut
  TitleFrame,    \* length of a line of the history besides the title
  Recent,        \* context_budget_recent_steps_full
  DigestChars    \* context_budget_digest_chars

VARIABLES
  kind,    \* what is put together
  items,   \* what is left to look at, in order
  all,     \* what there was
  taken,   \* what is in the context: how much of which
  linked,  \* memories that follow, each for its link with one of those
  rest,    \* what is left of the budget
  layers,  \* of a history: lines of a title, digest, full ones
  ready    \* put together

vars == <<kind, items, all, taken, linked, rest, layers, ready>>

Kinds == {"none", "memories", "messages", "files", "passages", "history"}
Taken == [item : Items, chars : Nat]
Linked == [item : Items, chars : Nat, by : Nat]
Layers == [titles : 0 .. MaxItems, digest : 1 .. DigestChars, full : 0 .. MaxItems]

TypeOK ==
  /\ kind \in Kinds
  /\ items \in Seq(Items) /\ all \in Seq(Items)
  /\ taken \in Seq(Taken) /\ linked \in Seq(Linked)
  /\ rest \in Int
  /\ layers \in Layers
  /\ ready \in BOOLEAN

NoLayers == [titles |-> 0, digest |-> 1, full |-> 0]

Init ==
  /\ kind = "none" /\ items = <<>> /\ all = <<>> /\ taken = <<>> /\ linked = <<>>
  /\ rest = MaxChars /\ layers = NoLayers
  /\ ready = FALSE

Least(a, b) == IF a < b THEN a ELSE b
Newest(s, n) == SubSeq(s, Len(s) - Least(n, Len(s)) + 1, Len(s))

(* A text is cut at its budget, and then marked.                           *)
Marked(chars, max) == IF chars <= max THEN chars ELSE max + Mark

Take(item, chars, left) ==
  /\ taken' = Append(taken, [item |-> item, chars |-> chars])
  /\ rest' = left
  /\ items' = Tail(items)
  /\ UNCHANGED <<kind, all, linked, layers, ready>>

Finish == ready' = TRUE /\ UNCHANGED <<kind, items, all, taken, linked, rest, layers>>

-----------------------------------------------------------------------------
(* retrieve: of the candidates those that score enough and share a word    *)
(* with the task, or are about the user at any time, the best first.       *)
Eligible(m) == m.score > 0 /\ m.why # "unrelated"
Best(candidates) ==
  Sorted(Filtered(candidates, {m \in Items : Eligible(m)}), [m \in Items |-> m.score])
AtMost(s, n) == SubSeq(s, 1, Least(n, Len(s)))

Gather ==
  /\ kind = "none"
  /\ all' \in UNION {[1 .. n -> Items] : n \in 1 .. MaxItems}
  /\ \/ kind' = "memories" /\ items' = Best(all') /\ UNCHANGED layers
     \/ kind' = "messages" /\ items' = Newest(all', Limit) /\ UNCHANGED layers
     \/ kind' = "files" /\ items' = Newest(all', Limit) /\ UNCHANGED layers
     \/ kind' = "passages" /\ items' = AtMost(Best(all'), Limit) /\ UNCHANGED layers
     \/ /\ kind' = "history" /\ items' = <<>>
        /\ LET n == Len(all')
               full == Least(Recent, n)
           IN layers' = [titles |-> IF n - full >= 2 THEN 1 ELSE 0,
                         digest |-> DigestChars, full |-> full]
  /\ UNCHANGED <<taken, linked, rest, ready>>

(* _compress_item.                                                         *)
Cut(chars, max) ==
  IF chars <= max THEN chars ELSE IF max <= Short THEN max ELSE max - 1

Chosen == items = <<>> \/ Len(taken) = Limit \/ rest <= 0

AddMemory ==
  /\ kind = "memories" /\ ~ready /\ ~Chosen
  /\ LET chars == Cut(Head(items).chars, Least(ItemChars, rest)) IN
     Take(Head(items), chars, rest - chars)

ExpandingAtOnce == kind = "memories" /\ ~ready
Expanding == kind = "memories" /\ ~ready /\ Chosen

(* expand_context: of the memories in the context, in order, those they    *)
(* are linked with, of any relevance to the task; one that is in already,  *)
(* is out of use or has become void is passed over.  Its score, six tenths *)
(* of its parent's, orders nothing any more.                               *)
AddLinked(k, m) ==
  /\ Expanding
  /\ Len(linked) < MaxLinks /\ rest > 0 /\ m.chars > 0
  /\ \A l \in DOMAIN linked : linked[l].by <= k
  /\ LET chars == Cut(m.chars, Least(ItemChars, rest)) IN
     /\ linked' = Append(linked, [item |-> m, chars |-> chars, by |-> k])
     /\ rest' = rest - chars
  /\ UNCHANGED <<kind, items, all, taken, layers, ready>>

FinishMemories == Expanding /\ Finish

(* _build_messages.                                                        *)
AddMessage ==
  /\ kind = "messages" /\ ~ready
  /\ IF items = <<>> THEN Finish
     ELSE Take(Head(items), Marked(Head(items).chars, ItemChars), rest)

(* _load_attachment_excerpts: a file that is too large, cannot be read, is *)
(* of no kind that is known, or comes when the budget is used up has a     *)
(* notice for a content, which is not counted.                             *)
AddFile(readable) ==
  /\ kind = "files" /\ ~ready
  /\ IF items = <<>> THEN Finish
     ELSE IF ~readable \/ rest <= 0 \/ Head(items).chars = 0
          THEN Take(Head(items), 0, rest)
          ELSE LET chars == Marked(Head(items).chars, rest) IN
               Take(Head(items), chars, rest - chars)

(* _render_rag_context.                                                    *)
AddPassage ==
  /\ kind = "passages" /\ ~ready
  /\ IF items = <<>> \/ rest <= 0 THEN Finish
     ELSE LET chars == Least(Head(items).chars, rest) IN
          Take(Head(items), chars, rest - chars)

-----------------------------------------------------------------------------
(* compress: the last `full' steps in full, the first `titles' as a line   *)
(* with their title, those between them cut after `digest' characters.     *)
Line(k, l) ==
  LET step == all[k] IN
  IF k > Len(all) - l.full THEN step.chars
  ELSE IF k <= l.titles THEN step.title + TitleFrame
  ELSE Marked(step.chars, l.digest)

(* estimate_chars: the lines and the ends of lines between them.           *)
Chars(l) == FoldLeft(LAMBDA n, k : n + Line(k, l), Len(all) - 1,
                     [k \in DOMAIN all |-> k])

Half(n) == IF n \div 2 > 1 THEN n \div 2 ELSE 1

ShorterRecentFirst(l) ==
  IF l.full > 0 THEN [l EXCEPT !.full = @ - 1]
  ELSE IF l.digest > 1 THEN [l EXCEPT !.digest = Half(@)]
  ELSE [l EXCEPT !.titles = @ + 1]

(* While it is too long: one more title, else shorter digests, else one    *)
(* step less in full, else nothing can be done.                            *)
Shorter(l) ==
  IF l.titles < Len(all) - l.full THEN [l EXCEPT !.titles = @ + 1]
  ELSE IF l.digest > 1 THEN [l EXCEPT !.digest = Half(@)]
  ELSE [l EXCEPT !.full = @ - 1]

Shortest(l) == l.titles = Len(all) /\ l.digest = 1 /\ l.full = 0

Compress ==
  /\ kind = "history" /\ ~ready
  /\ IF Chars(layers) <= HistoryChars \/ Shortest(layers) THEN Finish
     ELSE /\ layers' = Shorter(layers)
          /\ UNCHANGED <<kind, items, all, taken, linked, rest, ready>>

Next ==
  \/ Gather
  \/ AddMemory \/ FinishMemories \/ AddMessage \/ AddPassage \/ Compress
  \/ \E k \in DOMAIN taken, m \in Items : AddLinked(k, m)
  \/ \E readable \in BOOLEAN : AddFile(readable)

Spec == Init /\ [][Next]_vars

-----------------------------------------------------------------------------
(* Memories and passages never exceed their budget, however they are cut,  *)
(* and files by one mark at most; what comes in for its own sake is        *)
(* relevant, and what is as relevant and is left out found no place.  A    *)
(* memory that comes in for a link takes the place of none that would have *)
(* come in for its own sake, and there are at most MaxLinks of them.  A    *)
(* history fits unless nothing but titles is left of it, and a recent step *)
(* is not shortened while it is enough to forget older ones.               *)
Sum(entries) == FoldLeft(LAMBDA n, t : n + t.chars, 0, entries)

ContextBounded ==
  /\ kind \in {"memories", "passages", "files"} =>
       Sum(taken) + Sum(linked) <= MaxChars + IF kind = "files" THEN Mark ELSE 0
  /\ kind \in {"memories", "passages"} =>
       /\ \A k \in DOMAIN taken :
            /\ Eligible(taken[k].item)
            /\ \A j \in DOMAIN items : items[j].score <= taken[k].item.score
       /\ ready /\ items # <<>> =>
            Len(taken) = Limit \/ Sum(taken) + Sum(linked) = MaxChars
  /\ kind = "memories" => Len(taken) <= Limit /\ Len(linked) <= MaxLinks
  /\ linked # <<>> => kind = "memories" /\ (items = <<>> \/ Len(taken) = Limit)
  /\ \A l \in DOMAIN linked : linked[l].by \in DOMAIN taken
  /\ kind = "history" =>
       /\ ready => Chars(layers) <= HistoryChars \/ Shortest(layers)
       /\ layers.full < Least(Recent, Len(all)) =>
            Chars([titles |-> Len(all) - layers.full - 1, digest |-> 1,
                   full |-> layers.full + 1]) > HistoryChars
=============================================================================
