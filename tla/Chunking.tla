------------------------------ MODULE Chunking ------------------------------
(***************************************************************************)
(* How a document is split before it is indexed (split_text): paragraphs,  *)
(* long ones into sentences, long sentences into windows, small pieces     *)
(* packed together, and each chunk extended backwards by the overlap.      *)
(*                                                                         *)
(* A text is a sequence of characters of four kinds.  A span of it is what *)
(* a TextSpan is: the range it claims, as the number of characters before  *)
(* its first and up to its last one, and its content, here the positions   *)
(* of the text its characters come from.                                   *)
(***************************************************************************)
EXTENDS Integers, Sequences, FiniteSets, FiniteSetsExt, SequencesExt, PyLists

CONSTANTS
  MaxLength,  \* bound: characters of a text
  Sizes,      \* chunk sizes
  Overlaps    \* chunk overlaps

VARIABLES
  text,    \* the document of the last call of split_text
  config,  \* its chunk_size and chunk_overlap
  chunks   \* what it has returned

vars == <<text, config, chunks>>

\* A letter, a sentence end, white space, and a blank line.
Kinds == {"letter", "end", "space", "break"}
Texts == UNION {[1..n -> Kinds] : n \in 1..MaxLength}
Configs == {c \in [size : Sizes, overlap : Overlaps] : c.overlap < c.size}

Span(from, to) == [from |-> from, to |-> to, at |-> (from + 1)..to]
Spans == [from : 0..MaxLength, to : 0..MaxLength, at : SUBSET (1..MaxLength)]

TypeOK ==
  /\ text \in Seq(Kinds) /\ Len(text) <= MaxLength
  /\ config \in Configs
  /\ chunks \in Seq(Spans)

Init ==
  /\ text = <<>>
  /\ config = CHOOSE c \in Configs : TRUE
  /\ chunks = <<>>

-----------------------------------------------------------------------------
(* The positions of S between a and b, in order.                           *)
InOrder(S, a, b) == Filtered([i \in 1..(b - a) |-> a + i - 1], S)

(* _split_paragraphs: the stretches between blank lines, trimmed.          *)
Paragraphs(t) ==
  LET blankUpTo(a) == \A i \in 1..a : t[i] = "space" \/ \E j \in i..a : t[j] = "break"
      starts == {a \in 0..(Len(t) - 1) : t[a + 1] \notin {"space", "break"} /\ blankUpTo(a)}
      end(a) == Max({b \in (a + 1)..Len(t) :
                       t[b] # "space" /\ \A i \in (a + 1)..b : t[i] # "break"})
      froms == InOrder(starts, 0, Len(t))
  IN  [k \in DOMAIN froms |-> Span(froms[k], end(froms[k]))]

(* The split at sentence ends: the white space that follows one belongs to *)
(* no part.                                                                *)
Parts(t, p) ==
  LET follows(a) == \E j \in (p.from + 1)..a :
                      t[j] = "end" /\ \A i \in (j + 1)..a : t[i] = "space"
      starts == {a \in p.from..(p.to - 1) : t[a + 1] # "space" /\ (a = p.from \/ follows(a))}
      end(a) == Min({b \in (a + 1)..p.to : t[b] = "end" \/ b = p.to})
      froms == InOrder(starts, p.from, p.to)
  IN  [k \in DOMAIN froms |-> Span(froms[k], end(froms[k]))]

(* The sentences: the range of each follows the one before, as if nothing  *)
(* was between their parts.                                                *)
Sentences(t, p) ==
  LET parts == Parts(t, p)
      cursor[k \in 0..Len(parts)] ==
        IF k = 0 THEN p.from ELSE cursor[k - 1] + (parts[k].to - parts[k].from)
  IN  [k \in DOMAIN parts |->
        [from |-> cursor[k - 1], to |-> cursor[k], at |-> parts[k].at]]

(* A sentence that is too long is cut into windows.                        *)
WindowsDroppingTail(s, size) ==
  IF Cardinality(s.at) <= size THEN <<s>>
  ELSE LET first == Min(s.at) IN
       [k \in 1..(Cardinality(s.at) \div size) |->
         [from |-> s.from + (k - 1) * size, to |-> s.from + k * size,
          at |-> (first + (k - 1) * size)..(first + k * size - 1)]]

Windows(s, size) ==
  IF Cardinality(s.at) <= size THEN <<s>>
  ELSE LET first == Min(s.at)
           length == Cardinality(s.at)
           end(k) == Min({k * size, length}) IN
       [k \in 1..((length + size - 1) \div size) |->
         [from |-> s.from + (k - 1) * size, to |-> s.from + end(k),
          at |-> (first + (k - 1) * size)..(first + end(k) - 1)]]

(* _split_long_span.                                                       *)
SplitLong(t, p, size) ==
  LET sentences == Sentences(t, p)
  IN  FlattenSeq([k \in DOMAIN sentences |-> Windows(sentences[k], size)])

Pieces(t, size) ==
  LET paragraphs == Paragraphs(t)
  IN  FlattenSeq([k \in DOMAIN paragraphs |->
        IF Cardinality(paragraphs[k].at) <= size THEN <<paragraphs[k]>>
        ELSE SplitLong(t, paragraphs[k], size)])

(* _pack_spans: the content of a merged span is read from the text again.  *)
Pack(pieces, size) ==
  FoldLeft(LAMBDA packed, s :
             IF packed # <<>> /\ s.to - Last(packed).from <= size
             THEN Append(Front(packed), Span(Last(packed).from, s.to))
             ELSE Append(packed, s),
           <<>>, pieces)

(* _apply_overlap: every chunk but the first starts earlier.               *)
ApplyOverlap(spans, overlap) ==
  IF overlap = 0 THEN spans
  ELSE [k \in DOMAIN spans |->
         IF k = 1 THEN spans[k]
         ELSE Span(IF spans[k].from > overlap THEN spans[k].from - overlap ELSE 0,
                   spans[k].to)]

(* split_text.                                                             *)
SplitText(t, size, overlap) == ApplyOverlap(Pack(Pieces(t, size), size), overlap)

Call ==
  /\ text = <<>>
  /\ text' \in Texts
  /\ config' \in Configs
  /\ UNCHANGED chunks

Return ==
  /\ text # <<>> /\ chunks = <<>>
  /\ chunks' = SplitText(text, config.size, config.overlap)
  /\ UNCHANGED <<text, config>>

Next == Call \/ Return

Spec == Init /\ [][Next]_vars

-----------------------------------------------------------------------------
Gaps(t) == {i \in DOMAIN t : i > 1 /\ t[i - 1] = "end" /\ t[i] = "space"}

(* No chunk is longer than the size and the overlap together, whatever the *)
(* text is packed from.  A text in which no white space follows a sentence *)
(* end is indexed in full: no letter is lost between paragraphs, sentences,*)
(* windows and chunks.                                                     *)
ChunksFaithful ==
  /\ \A k \in DOMAIN chunks : Cardinality(chunks[k].at) <= config.size + config.overlap
  /\ Gaps(text) = {} /\ chunks # <<>> =>
       \A i \in DOMAIN text : text[i] \in {"letter", "end"} => \E k \in DOMAIN chunks : i \in chunks[k].at

(* test_char_ranges_point_back_to_source: the range of a chunk is where    *)
(* its content stands in the text.                                         *)
RangesPointBack ==
  \A k \in DOMAIN chunks : chunks[k].at = (chunks[k].from + 1)..chunks[k].to
=============================================================================
