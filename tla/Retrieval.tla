------------------------------ MODULE Retrieval ------------------------------
(***************************************************************************)
(* A question to a knowledge base (RagService.query): it is asked in       *)
(* several wordings, the lists of chunks that come back are fused, chunks  *)
(* that cannot be used are dropped, the rest is ranked again by a model or *)
(* by words, and the best are put into a context of limited length, each   *)
(* widened to the passage it belongs to.  Whether wordings and marks come  *)
(* from the model or, when it fails, from rules makes no difference here.  *)
(*                                                                         *)
(* Scores are in hundredths where the code rounds to four places; a score  *)
(* of the final ranking is in thousandths.                                 *)
(***************************************************************************)
EXTENDS Naturals, Sequences, FiniteSets, SequencesExt, PyLists

CONSTANTS
  Chunks,       \* of the knowledge base
  Similar,      \* scores of similarity that a chunk may have
  Overlap,      \* of each chunk: its words in common with the question
  Length,       \* of each chunk: its length
  Passage,      \* of each chunk: the length of the passage it is part of
  MaxVariants,  \* rag_query_expand_variants
  Marked,       \* rag_rerank_top_n
  TopK,         \* limit
  MinScore,     \* threshold
  MaxChars,     \* rag_max_context_chars
  Slack         \* a rest this short is not used for a part of a passage

VARIABLES
  left,      \* wordings still to be looked up
  lists,     \* of each wording: the chunks found, the most similar first
  best,      \* of each chunk: the highest similarity found, 0 if it was not
  scored,    \* candidates in the order of the ranking
  usable,    \* chunks with a row whose document is ready, when they are read
  result,    \* what goes into the context
  phase

vars == <<left, lists, best, scored, usable, result, phase>>

Phases == {"start", "recall", "score", "rerank", "answer", "done"}
Scale == 100
Parts == 1000000
Candidate == [chunk : Chunks, vector : Nat, fusion : 0 .. Scale, mark : Nat, marked : BOOLEAN]

TypeOK ==
  /\ left \in 0 .. MaxVariants + 1
  /\ \A k \in DOMAIN lists : ToSet(lists[k]) \subseteq Chunks /\ IsInjective(lists[k])
  /\ best \in [Chunks -> Similar \cup {0}]
  /\ \A k \in DOMAIN scored : scored[k] \in Candidate
  /\ usable \subseteq Chunks
  /\ \A k \in DOMAIN result : result[k].chunk \in Chunks /\ result[k].chars \in 1 .. MaxChars
  /\ phase \in Phases

Init ==
  /\ left = 0 /\ lists = <<>> /\ scored = <<>> /\ usable = {} /\ result = <<>>
  /\ best = [x \in Chunks |-> 0]
  /\ phase = "start"

-----------------------------------------------------------------------------
(* expand_query: the question itself and some variants, by the model, by   *)
(* rules when it fails, or none.                                           *)
Expand ==
  /\ phase = "start"
  /\ left' \in 1 .. MaxVariants + 1
  /\ phase' = "recall"
  /\ UNCHANGED <<lists, best, scored, usable, result>>

(* The store answers with the most similar chunks; equal ones in any order.*)
Ranked(s) ==
  {q \in SetToSeqs({x \in Chunks : s[x] > 0}) :
     \A i, j \in DOMAIN q : i < j => s[q[i]] >= s[q[j]]}

Recall(s) ==
  /\ phase = "recall" /\ left > 0
  /\ \E found \in Ranked(s) : lists' = Append(lists, found)
  /\ best' = [x \in Chunks |-> IF s[x] > best[x] THEN s[x] ELSE best[x]]
  /\ left' = left - 1
  /\ phase' = IF left = 1 THEN "score" ELSE "recall"
  /\ UNCHANGED <<scored, usable, result>>

(* reciprocal_rank_fuse: a chunk has 1 / (60 + rank) of each list it is    *)
(* in, here in parts of a million.                                         *)
Share(q, x) ==
  IF Contains(q, x) THEN Parts \div (60 + SelectInSeq(q, LAMBDA y : y = x)) ELSE 0

Rrf(x) == FoldLeft(LAMBDA sum, q : sum + Share(q, x), 0, lists)

Found == FoldLeft(LAMBDA seen, x : IF Contains(seen, x) THEN seen ELSE Append(seen, x),
                  <<>>, FlattenSeq(lists))

Fused == Sorted(Found, [x \in Chunks |-> Rrf(x)])

(* fuse_recall_scores: as a part of the highest.                           *)
Fusion(x) == (Rrf(x) * Scale) \div Rrf(Fused[1])

(* score_retrieval_candidates: a chunk whose row or document is gone, or   *)
(* whose document is not ready, is skipped.                                *)
Score(u) ==
  /\ phase = "score"
  /\ usable' = u
  /\ scored' = LET kept == Filtered(Fused, u) IN
       [k \in DOMAIN kept |->
          [chunk |-> kept[k], vector |-> best[kept[k]], fusion |-> Fusion(kept[k]),
           mark |-> 0, marked |-> FALSE]]
  /\ phase' = "rerank"
  /\ UNCHANGED <<left, lists, best, result>>

(* rerank_chunks: the first candidates are marked by the model, or by      *)
(* words when it fails, and sorted by their marks; one without a mark has  *)
(* none of the score.                                                      *)
First(n) == SubSeq(scored, 1, n)
Rest(n) == SubSeq(scored, n + 1, Len(scored))

ByMark(items, marks) ==
  LET marked == [k \in DOMAIN items |->
                   [items[k] EXCEPT !.mark = marks[k], !.marked = TRUE]]
  IN  Sorted(marked, [i \in ToSet(marked) |-> i.mark])

RerankHeadOnly(marks) == scored' = ByMark(First(Len(marks)), marks)

RerankAll(marks) ==
  scored' = ByMark(First(Len(marks)), marks) \o Rest(Len(marks))

Rerank ==
  /\ phase = "rerank"
  /\ LET n == IF Len(scored) < Marked THEN Len(scored) ELSE Marked IN
     \/ \E marks \in [1 .. n -> {0, Scale}] : RerankAll(marks)
     \/ UNCHANGED scored
  /\ phase' = "answer"
  /\ UNCHANGED <<left, lists, best, usable, result>>

-----------------------------------------------------------------------------
(* vector_component_of and blend_final_score.                              *)
Component(i) == IF Len(lists) > 1 THEN (i.vector + i.fusion) \div 2 ELSE i.vector

Final(i) ==
  IF i.marked THEN 5 * Component(i) + 3 * Overlap[i.chunk] + 2 * i.mark
              ELSE 7 * Component(i) + 3 * Overlap[i.chunk]

Qualified == Sorted(Filtered(scored, {i \in ToSet(scored) : Final(i) >= MinScore}),
                    [i \in ToSet(scored) |-> Final(i)])

(* expand_to_parent_context, of those that may be used.                    *)
Widened(k, i) == IF k <= TopK THEN Passage[i.chunk] ELSE Length[i.chunk]

(* The best are taken until there are enough or the context is full; the   *)
(* last may be cut.                                                        *)
Chars(items) == FoldLeft(LAMBDA n, i : n + i.chars, 0, items)

Include(acc, k) ==
  LET i == Qualified[k]
      rest == MaxChars - Chars(acc.items)
      size == Widened(k, i)
  IN IF acc.full \/ Len(acc.items) = TopK \/ rest = 0 \/ (size > rest /\ rest <= Slack)
     THEN [acc EXCEPT !.full = TRUE]
     ELSE [acc EXCEPT !.items = Append(@, [chunk |-> i.chunk, score |-> Final(i),
             chars |-> IF size > rest THEN rest - 1 ELSE size])]

Included ==
  FoldLeft(Include, [items |-> <<>>, full |-> FALSE], [k \in DOMAIN Qualified |-> k]).items

Answer ==
  /\ phase = "answer"
  /\ result' = Included
  /\ phase' = "done"
  /\ UNCHANGED <<left, lists, best, scored, usable>>

Next ==
  \/ Expand
  \/ phase = "recall" /\ \E s \in [Chunks -> Similar \cup {0}] : Recall(s)
  \/ phase = "score" /\ \E u \in SUBSET Chunks : Score(u)
  \/ Rerank \/ Answer

Spec == Init /\ [][Next]_vars

-----------------------------------------------------------------------------
(* Whatever the store, the model and the rules answer: the context stays   *)
(* within its length, every chunk in it was found and is usable and stands *)
(* in it once, better ones first; a chunk that was found, is usable and    *)
(* scores enough is missing only when there are enough or the context is   *)
(* full, so neither fusion nor marks lose one; and scores are shares.      *)
Scores == [x \in {scored[k].chunk : k \in DOMAIN scored} |->
             Final(scored[CHOOSE k \in DOMAIN scored : scored[k].chunk = x])]

RetrievalSound ==
  phase = "done" =>
    /\ Len(result) <= TopK /\ Chars(result) <= MaxChars
    /\ \A i, j \in DOMAIN result :
         i < j => result[i].chunk # result[j].chunk /\ result[i].score >= result[j].score
    /\ \A i \in DOMAIN result :
         /\ result[i].chunk \in usable /\ best[result[i].chunk] > 0
         /\ result[i].score <= 10 * Scale
    /\ \A x \in usable : best[x] > 0 /\ x \notin {result[i].chunk : i \in DOMAIN result} =>
         \/ Len(result) = TopK \/ MaxChars - Chars(result) <= Slack
         \/ x \in DOMAIN Scores /\ Scores[x] < MinScore
=============================================================================
