------------------------------ MODULE PyLists -------------------------------
(***************************************************************************)
(* What Python does with a list, where the provers see no definition of    *)
(* the operator of the library (SelectSeq, SortSeq) that says the same.    *)
(***************************************************************************)
EXTENDS Naturals, Sequences, FiniteSets

(* [x for x in s if x in S].                                               *)
Filtered(s, S) ==
  LET kept[n \in 0..Len(s)] ==
        IF n = 0 THEN << >>
        ELSE IF s[n] \in S THEN Append(kept[n - 1], s[n]) ELSE kept[n - 1]
  IN  kept[Len(s)]

(* sorted(items, key=key, reverse=True): the highest first, and equal ones *)
(* in the order they had; here key is a function on the items.             *)
Precedes(items, key, i, j) ==
  \/ key[items[i]] > key[items[j]]
  \/ key[items[i]] = key[items[j]] /\ i < j

Place(items, key, i) ==
  1 + Cardinality({j \in DOMAIN items : Precedes(items, key, j, i)})

Sorted(items, key) ==
  [k \in DOMAIN items |->
     items[CHOOSE i \in DOMAIN items : Place(items, key, i) = k]]
=============================================================================
