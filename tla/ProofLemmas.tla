----------------------------- MODULE ProofLemmas -----------------------------
(***************************************************************************)
(* Facts about numbers, positions of a log, folds, and filtered and sorted *)
(* sequences that the proofs of several components need.                   *)
(***************************************************************************)
EXTENDS Integers, Sequences, FiniteSets, FiniteSetTheorems, WellFoundedInduction,
        TLAPS, PyLists

(* A set of natural numbers that is not empty has a least one.             *)
LEMMA LeastNumber ==
  ASSUME NEW T \in SUBSET Nat, T # {}
  PROVE  \E x \in T : \A y \in T : x <= y
  <1> DEFINE I == {1..k : k \in T}
             R == StrictSubsetOrdering(Nat)
  <1>1. I \subseteq FiniteSubsetsOf(Nat) /\ I # {}
    <2>1. \A k \in T : IsFiniteSet(1..k) /\ 1..k \subseteq Nat
      BY FS_Interval
    <2> QED  BY <2>1 DEF FiniteSubsetsOf
  <1>2. IsWellFoundedOn(R, FiniteSubsetsOf(Nat))
    BY FS_StrictSubsetOrderingWellFounded
  <1>3. \E X \in I : \A Y \in I : ~(<<Y, X>> \in R)
    <2> HIDE DEF I, R
    <2> QED  BY <1>1, <1>2, WFMin
  <1>4. PICK x \in T : \A y \in T : ~(<<1..y, 1..x>> \in R)
    BY <1>3
  <1>5. ASSUME NEW y \in T, y < x
        PROVE  <<1..y, 1..x>> \in R
    <2>1. 1..y \subseteq 1..x /\ x \in 1..x /\ x \notin 1..y
      BY <1>5
    <2>2. 1..y \in SUBSET Nat /\ 1..x \in SUBSET Nat
      OBVIOUS
    <2> QED  BY <2>1, <2>2 DEF StrictSubsetOrdering
  <1>6. \A y \in T : ~(y < x)
    BY <1>4, <1>5, Zenon
  <1>7. \A y \in T : x <= y
    BY <1>6
  <1> QED  BY <1>7

(* A set of positions up to n that is not empty has a last one.            *)
LEMMA LastPosition ==
  ASSUME NEW n \in Nat, NEW S \in SUBSET (1..n), S # {}
  PROVE  \E x \in S : \A y \in S : y <= x
  <1> DEFINE T == {n - x : x \in S}
  <1>1. T \in SUBSET Nat /\ T # {}
    <2>1. PICK z \in S : TRUE
      OBVIOUS
    <2>2. n - z \in T
      BY <2>1
    <2>3. \A x \in S : n - x \in Nat
      OBVIOUS
    <2> QED  BY <2>2, <2>3
  <1>2. PICK t \in T : \A u \in T : t <= u
    BY <1>1, LeastNumber
  <1>3. PICK x \in S : t = n - x
    BY <1>2
  <1>4. ASSUME NEW y \in S
        PROVE  y <= x
    <2>1. n - y \in T
      OBVIOUS
    <2>2. n - x <= n - y
      BY <1>2, <1>3, <2>1
    <2> QED  BY <2>2
  <1> QED  BY <1>4

(* Two sequences, one after the other.                                     *)
LEMMA JoinIsSeq ==
  ASSUME NEW S, NEW a \in Seq(S), NEW b \in Seq(S)
  PROVE  a \o b \in Seq(S) /\ Len(a \o b) = Len(a) + Len(b)
OBVIOUS

(* Selecting positions of a log: one more entry selects at most one more.  *)
LEMMA SelectionGrows ==
  ASSUME NEW n \in Nat, NEW I \in SUBSET (1..n),
         NEW J, J = I \/ J = I \cup {n + 1}
  PROVE  /\ Cardinality(I) \in Nat /\ Cardinality(I) <= n
         /\ Cardinality(J) \in Nat /\ Cardinality(J) <= Cardinality(I) + 1
         /\ J = I => Cardinality(J) = Cardinality(I)
  <1>1. IsFiniteSet(1..n) /\ Cardinality(1..n) = n
    <2>1. 1 \in Int /\ n \in Int
      OBVIOUS
    <2>2. /\ IsFiniteSet(1..n)
          /\ Cardinality(1..n) = IF 1 > n THEN 0 ELSE n - 1 + 1
      BY <2>1, FS_Interval
    <2>3. CASE n = 0
      BY <2>2, <2>3
    <2>4. CASE n > 0
      <3>1. ~(1 > n) /\ n - 1 + 1 = n
        BY <2>4
      <3> QED  BY <2>2, <3>1
    <2> QED  BY <2>3, <2>4
  <1>2. IsFiniteSet(I) /\ Cardinality(I) <= n
    <2>1. IsFiniteSet(I) /\ Cardinality(I) <= Cardinality(1..n)
      BY ONLY <1>1, I \in SUBSET (1..n), FS_Subset
    <2> QED  BY <1>1, <2>1
  <1>3. Cardinality(I) \in Nat
    BY <1>2, FS_CardinalityType
  <1>4. CASE J = I
    BY <1>2, <1>3, <1>4
  <1>5. CASE J = I \cup {n + 1}
    <2>1. n + 1 \notin I
      OBVIOUS
    <2>2. Cardinality(J) = Cardinality(I) + 1
      BY <1>2, <1>5, <2>1, FS_AddElement
    <2> QED  BY <1>2, <1>3, <2>1, <2>2, <1>5
  <1> QED  BY <1>4, <1>5

(* Induction up to a bound, for a set of numbers in place of a predicate.  *)
LEMMA CountUp ==
  ASSUME NEW n \in Nat, NEW G, 0 \in G,
         \A k \in Nat : k + 1 <= n /\ k \in G => k + 1 \in G
  PROVE  \A k \in 0..n : k \in G
<1> SUFFICES ASSUME (0..n) \ G # {} PROVE FALSE
  OBVIOUS
<1>1. PICK k \in (0..n) \ G : \A j \in (0..n) \ G : k <= j
  <2>1. (0..n) \ G \in SUBSET Nat
    OBVIOUS
  <2> QED
    BY <2>1, LeastNumber
<1>2. k - 1 \in 0..n /\ k - 1 \in Nat /\ ~(k <= k - 1) /\ (k - 1) + 1 = k
  OBVIOUS
<1>3. k - 1 \in G
  BY <1>1, <1>2
<1> QED
  BY <1>2, <1>3

(* g[n] is what a filter keeps of the first n elements of a sequence.      *)
Unfolds(g, s, S) ==
  /\ Filtered(s, S) = g[Len(s)]
  /\ g[0] = << >>
  /\ \A n \in 1..Len(s) :
       g[n] = IF s[n] \in S THEN Append(g[n - 1], s[n]) ELSE g[n - 1]

(* A filter keeps a sequence of each prefix.                               *)
LEMMA FilterUnfolds ==
  ASSUME NEW A, NEW s \in Seq(A), NEW S
  PROVE  \E g \in [0..Len(s) -> Seq(A)] : Unfolds(g, s, S)
<1> DEFINE Step(g, n) == IF n = 0 THEN << >>
                         ELSE IF s[n] \in S THEN Append(g[n - 1], s[n]) ELSE g[n - 1]
           Upto(k) == \E g \in [0..k -> Seq(A)] : \A n \in 0..k : g[n] = Step(g, n)
<1>1. Len(s) \in Nat /\ \A n \in 1..Len(s) : s[n] \in A
  OBVIOUS
<1>2. Upto(0)
  <2>1. [n \in 0..0 |-> << >>] \in [0..0 -> Seq(A)]
    OBVIOUS
  <2>2. \A n \in 0..0 : n = 0
    OBVIOUS
  <2> QED
    BY <2>1, <2>2
<1>3. ASSUME NEW k \in Nat, k + 1 <= Len(s), Upto(k) PROVE Upto(k + 1)
  <2>1. PICK g \in [0..k -> Seq(A)] : \A n \in 0..k : g[n] = Step(g, n)
    BY <1>3
  <2> DEFINE next == IF s[k + 1] \in S THEN Append(g[k], s[k + 1]) ELSE g[k]
             h == [n \in 0..(k + 1) |-> IF n = k + 1 THEN next ELSE g[n]]
  <2>2. next \in Seq(A)
    BY <1>1, <1>3
  <2>3. h \in [0..(k + 1) -> Seq(A)]
    BY <2>2
  <2>4. ASSUME NEW n \in 0..k PROVE h[n] = Step(h, n)
    <3>1. /\ n \in 0..(k + 1) /\ n # k + 1
          /\ n # 0 => n - 1 \in 0..k /\ n - 1 \in 0..(k + 1) /\ n - 1 # k + 1
      OBVIOUS
    <3>2. h[n] = g[n] /\ (n # 0 => h[n - 1] = g[n - 1])
      BY <3>1
    <3>3. g[n] = Step(g, n)
      BY <2>1
    <3> HIDE DEF h
    <3> QED
      BY <3>2, <3>3
  <2>5. h[k + 1] = Step(h, k + 1)
    BY <1>3
  <2>6. \A n \in 0..(k + 1) : n \in 0..k \/ n = k + 1
    OBVIOUS
  <2> HIDE DEF h, Step
  <2> QED
    BY <2>3, <2>4, <2>5, <2>6
<1>4. Upto(Len(s))
  <2> DEFINE G == {k \in Nat : Upto(k)}
  <2>1. 0 \in G /\ \A k \in Nat : k + 1 <= Len(s) /\ k \in G => k + 1 \in G
    <3> HIDE DEF Upto
    <3> QED
      BY <1>2, <1>3
  <2> HIDE DEF G
  <2>2. \A k \in 0..Len(s) : k \in G
    BY <1>1, <2>1, CountUp
  <2>3. Len(s) \in G
    BY <1>1, <2>2
  <2> USE DEF G
  <2> QED
    BY <2>3
<1>5. PICK g \in [0..Len(s) -> Seq(A)] : \A n \in 0..Len(s) : g[n] = Step(g, n)
  BY <1>4
<1> DEFINE kept == CHOOSE h : h = [n \in 0..Len(s) |-> Step(h, n)]
<1>6. g = [n \in 0..Len(s) |-> Step(g, n)]
  <2> HIDE DEF Step
  <2> QED
    BY <1>5
<1>7. kept = [n \in 0..Len(s) |-> Step(kept, n)]
  <2> HIDE DEF Step
  <2> QED
    BY <1>6
<1>8. Filtered(s, S) = kept[Len(s)]
  BY DEF Filtered
<1> DEFINE G == {n \in Nat : kept[n] = g[n]}
<1>9. \A n \in 0..Len(s) : n \in G
  <2>1. \A n \in 0..Len(s) : kept[n] = Step(kept, n) /\ g[n] = Step(g, n)
    <3> HIDE DEF Step
    <3> QED
      BY <1>5, <1>7
  <2> HIDE DEF kept
  <2>2. 0 \in G
    BY <1>1, <2>1
  <2>3. ASSUME NEW k \in Nat, k + 1 <= Len(s), k \in G PROVE k + 1 \in G
    <3>1. k + 1 \in 0..Len(s) /\ k + 1 # 0 /\ (k + 1) - 1 = k
      BY <1>1, <2>3
    <3>2. kept[k] = g[k]
      BY <2>3
    <3>3. kept[k + 1] = g[k + 1]
      <4>1. kept[k + 1] = Step(kept, k + 1) /\ g[k + 1] = Step(g, k + 1)
        BY <2>1, <3>1
      <4> QED
        BY <3>1, <3>2, <4>1
    <3> QED
      BY <3>3
  <2> HIDE DEF G
  <2> QED
    BY <1>1, <2>2, <2>3, CountUp
<1> HIDE DEF kept
<1>10. Len(s) \in 0..Len(s) /\ 0 \in 0..Len(s)
  BY <1>1
<1>11. Filtered(s, S) = g[Len(s)]
  BY <1>8, <1>9, <1>10
<1>12. g[0] = << >>
  BY <1>5, <1>10
<1>13. \A n \in 1..Len(s) : n \in 0..Len(s) /\ n # 0
  BY <1>1
<1>14. \A n \in 1..Len(s) : g[n] = IF s[n] \in S THEN Append(g[n - 1], s[n]) ELSE g[n - 1]
  BY <1>5, <1>13
<1> QED
  BY <1>11, <1>12, <1>14 DEF Unfolds

(* A filter keeps the elements of a sequence that are in the set, each as  *)
(* often as it is there.                                                   *)
LEMMA FilterKeeps ==
  ASSUME NEW A, NEW s \in Seq(A), NEW S
  PROVE  /\ Filtered(s, S) \in Seq(A)
         /\ \A j \in 1..Len(Filtered(s, S)) :
              Filtered(s, S)[j] \in S /\ \E m \in 1..Len(s) : s[m] = Filtered(s, S)[j]
         /\ \A m \in 1..Len(s) : s[m] \in S =>
              \E j \in 1..Len(Filtered(s, S)) : Filtered(s, S)[j] = s[m]
         /\ (\A i, j \in 1..Len(s) : s[i] = s[j] => i = j) =>
              \A i, j \in 1..Len(Filtered(s, S)) : Filtered(s, S)[i] = Filtered(s, S)[j] => i = j
<1>0. PICK g \in [0..Len(s) -> Seq(A)] : Unfolds(g, s, S)
  BY FilterUnfolds
<1>1. /\ Filtered(s, S) = g[Len(s)] /\ g[0] = << >>
      /\ \A n \in 1..Len(s) :
           g[n] = IF s[n] \in S THEN Append(g[n - 1], s[n]) ELSE g[n - 1]
  BY <1>0 DEF Unfolds
<1> DEFINE Only(n) == \A j \in 1..Len(g[n]) : g[n][j] \in S /\ \E m \in 1..n : s[m] = g[n][j]
           All(n) == \A m \in 1..n : s[m] \in S => \E j \in 1..Len(g[n]) : g[n][j] = s[m]
           Once(n) == \A i, j \in 1..Len(g[n]) : g[n][i] = g[n][j] => i = j
           Inj == \A i, j \in 1..Len(s) : s[i] = s[j] => i = j
           G == {n \in Nat : Only(n) /\ All(n) /\ (Inj => Once(n))}
<1>2. Len(s) \in Nat /\ \A n \in 1..Len(s) : s[n] \in A
  OBVIOUS
<1>3. 0 \in G
  <2>1. 1..Len(g[0]) = {} /\ 1..0 = {}
    BY <1>1
  <2> QED
    BY <2>1
<1>4. ASSUME NEW k \in Nat, k + 1 <= Len(s), k \in G PROVE k + 1 \in G
  <2>1. /\ k + 1 \in 1..Len(s) /\ k \in 0..Len(s) /\ (k + 1) - 1 = k
        /\ g[k] \in Seq(A) /\ s[k + 1] \in A
    BY <1>2, <1>4
  <2>2. Only(k) /\ All(k) /\ (Inj => Once(k))
    BY <1>4
  <2>3. 1..(k + 1) = 1..k \cup {k + 1}
    OBVIOUS
  <2>4. CASE s[k + 1] \notin S
    <3>1. g[k + 1] = g[k]
      BY <1>1, <2>1, <2>4
    <3>2. Only(k + 1)
      BY <2>2, <2>3, <3>1
    <3>3. All(k + 1)
      BY <2>2, <2>3, <2>4, <3>1
    <3>4. Inj => Once(k + 1)
      BY <2>2, <3>1
    <3> QED
      BY <3>2, <3>3, <3>4
  <2>5. CASE s[k + 1] \in S
    <3> DEFINE q == g[k]
    <3>1. /\ g[k + 1] = Append(q, s[k + 1]) /\ q \in Seq(A)
          /\ Len(g[k + 1]) = Len(q) + 1
          /\ g[k + 1][Len(q) + 1] = s[k + 1]
          /\ \A j \in 1..Len(q) : g[k + 1][j] = q[j]
          /\ 1..Len(g[k + 1]) = 1..Len(q) \cup {Len(q) + 1}
      <4>1. g[k + 1] = Append(q, s[k + 1]) /\ q \in Seq(A)
        BY <1>1, <2>1, <2>5
      <4> HIDE DEF q
      <4> QED
        BY <2>1, <4>1
    <3>2. Only(k + 1)
      BY <2>2, <2>3, <2>5, <3>1
    <3>3. All(k + 1)
      BY <2>2, <2>3, <3>1
    <3>4. ASSUME Inj PROVE Once(k + 1)
      <4>1. ASSUME NEW j \in 1..Len(q) PROVE q[j] # s[k + 1]
        <5>1. PICK m \in 1..k : s[m] = q[j]
          BY <2>2
        <5>2. m \in 1..Len(s) /\ m # k + 1
          BY <1>2, <2>1
        <5> QED
          BY <2>1, <3>4, <5>1, <5>2
      <4> QED
        BY <2>2, <3>1, <3>4, <4>1
    <3> QED
      BY <3>2, <3>3, <3>4
  <2> QED
    BY <2>4, <2>5
<1>5. Len(s) \in G
  <2> HIDE DEF G
  <2>1. \A k \in Nat : k + 1 <= Len(s) /\ k \in G => k + 1 \in G
    BY <1>4
  <2>2. \A k \in 0..Len(s) : k \in G
    BY <1>2, <1>3, <2>1, CountUp
  <2> QED
    BY <1>2, <2>2
<1>6. Filtered(s, S) = g[Len(s)] /\ g[Len(s)] \in Seq(A)
  BY <1>1, <1>2
<1> QED
  BY <1>5, <1>6

(* h is defined by recursion: n is the step from an argument to the next.  *)
Recurses(h, X, n, stop, nought, gain) ==
  h = [x \in X |-> IF x \in stop THEN nought ELSE gain[x][h[n[x]]]]

(* A function may be defined by recursion along steps that bring a measure *)
(* down, for functions in place of operators.                              *)
LEMMA DescentDefines ==
  ASSUME NEW X, NEW R, NEW N \in Nat, NEW m \in [X -> 0..N], NEW n \in [X -> X],
         NEW stop \in SUBSET X, NEW nought \in R, NEW gain \in [X \ stop -> [R -> R]],
         \A x \in X \ stop : m[n[x]] < m[x]
  PROVE  \E h \in [X -> R] : Recurses(h, X, n, stop, nought, gain)
<1> DEFINE Upto(k) == \E h \in [X -> R] : \A x \in X : m[x] <= k =>
                        h[x] = IF x \in stop THEN nought ELSE gain[x][h[n[x]]]
           G == {k \in Nat : Upto(k)}
<1>1. 0 \in G
  <2> DEFINE h == [x \in X |-> nought]
  <2>1. h \in [X -> R]
    OBVIOUS
  <2>2. ASSUME NEW x \in X, m[x] <= 0 PROVE x \in stop
    <3>1. n[x] \in X /\ m[x] \in 0..N /\ m[n[x]] \in 0..N
      OBVIOUS
    <3> QED
      BY <2>2, <3>1
  <2>3. \A x \in X : m[x] <= 0 => h[x] = IF x \in stop THEN nought ELSE gain[x][h[n[x]]]
    BY <2>2
  <2> HIDE DEF h
  <2> QED
    BY <2>1, <2>3
<1>2. ASSUME NEW k \in Nat, k \in G PROVE k + 1 \in G
  <2>1. PICK h \in [X -> R] : \A x \in X : m[x] <= k =>
          h[x] = IF x \in stop THEN nought ELSE gain[x][h[n[x]]]
    BY <1>2
  <2> DEFINE g == [x \in X |-> IF x \in stop THEN nought ELSE gain[x][h[n[x]]]]
  <2>2. g \in [X -> R]
    <3>1. ASSUME NEW x \in X \ stop PROVE gain[x][h[n[x]]] \in R
      <4>1. gain[x] \in [R -> R] /\ n[x] \in X
        OBVIOUS
      <4>2. h[n[x]] \in R
        BY <4>1
      <4> QED
        BY <4>1, <4>2
    <3> QED
      BY <3>1
  <2>3. ASSUME NEW x \in X, m[x] <= k PROVE g[x] = h[x]
    BY <2>1, <2>3
  <2>4. ASSUME NEW x \in X, m[x] <= k + 1
        PROVE  g[x] = IF x \in stop THEN nought ELSE gain[x][g[n[x]]]
    <3>1. CASE x \in stop
      BY <3>1
    <3>2. CASE x \notin stop
      <4>1. n[x] \in X /\ m[n[x]] \in 0..N /\ m[x] \in 0..N /\ m[n[x]] < m[x]
        BY <3>2
      <4>2. m[n[x]] <= k
        BY <2>4, <4>1
      <4>3. g[n[x]] = h[n[x]]
        BY <2>3, <4>1, <4>2
      <4>4. g[x] = gain[x][h[n[x]]]
        BY <3>2
      <4> HIDE DEF g
      <4> QED
        BY <3>2, <4>3, <4>4
    <3> QED
      BY <3>1, <3>2
  <2> HIDE DEF g
  <2> QED
    BY <2>2, <2>4
<1>3. N \in G
  <2> HIDE DEF G
  <2>1. \A k \in 0..N : k \in G
    BY <1>1, <1>2, CountUp
  <2> QED
    BY <2>1
<1>4. PICK h \in [X -> R] : \A x \in X : m[x] <= N =>
        h[x] = IF x \in stop THEN nought ELSE gain[x][h[n[x]]]
  BY <1>3
<1>5. \A x \in X : m[x] <= N
  OBVIOUS
<1>6. h = [x \in X |-> h[x]]
  OBVIOUS
<1>7. \A x \in X : h[x] = IF x \in stop THEN nought ELSE gain[x][h[n[x]]]
  BY <1>4, <1>5
<1>8. h = [x \in X |-> IF x \in stop THEN nought ELSE gain[x][h[n[x]]]]
  BY <1>6, <1>7
<1> QED
  BY <1>8 DEF Recurses

(* A filter and one more element.                                          *)
LEMMA FilterAppends ==
  ASSUME NEW A, NEW s \in Seq(A), NEW x \in A, NEW S
  PROVE  /\ Filtered(s, S) \in Seq(A)
         /\ Filtered(Append(s, x), S)
              = IF x \in S THEN Append(Filtered(s, S), x) ELSE Filtered(s, S)
<1> DEFINE t == Append(s, x)
<1>1. /\ t \in Seq(A) /\ Len(s) \in Nat /\ Len(t) = Len(s) + 1 /\ t[Len(s) + 1] = x
      /\ \A n \in 1..Len(s) : t[n] = s[n]
  OBVIOUS
<1> HIDE DEF t
<1>2. PICK g \in [0..Len(s) -> Seq(A)] : Unfolds(g, s, S)
  BY FilterUnfolds
<1>3. PICK h \in [0..Len(t) -> Seq(A)] : Unfolds(h, t, S)
  BY <1>1, FilterUnfolds
<1>4. /\ Filtered(s, S) = g[Len(s)] /\ g[0] = << >>
      /\ \A n \in 1..Len(s) : g[n] = IF s[n] \in S THEN Append(g[n - 1], s[n]) ELSE g[n - 1]
  BY <1>2 DEF Unfolds
<1>5. /\ Filtered(t, S) = h[Len(t)] /\ h[0] = << >>
      /\ \A n \in 1..Len(t) : h[n] = IF t[n] \in S THEN Append(h[n - 1], t[n]) ELSE h[n - 1]
  BY <1>3 DEF Unfolds
<1> DEFINE G == {k \in Nat : g[k] = h[k]}
<1>6. \A k \in 0..Len(s) : k \in G
  <2>1. 0 \in G
    BY <1>4, <1>5
  <2>2. ASSUME NEW k \in Nat, k + 1 <= Len(s), k \in G PROVE k + 1 \in G
    <3>1. k + 1 \in 1..Len(s) /\ k + 1 \in 1..Len(t) /\ (k + 1) - 1 = k
      BY <1>1, <2>2
    <3>2. t[k + 1] = s[k + 1] /\ g[k] = h[k]
      BY <1>1, <2>2, <3>1
    <3>3. /\ g[k + 1] = IF s[k + 1] \in S THEN Append(g[k], s[k + 1]) ELSE g[k]
          /\ h[k + 1] = IF t[k + 1] \in S THEN Append(h[k], t[k + 1]) ELSE h[k]
      BY <1>4, <1>5, <3>1
    <3> QED
      BY <3>2, <3>3
  <2> HIDE DEF G
  <2> QED
    BY <1>1, <2>1, <2>2, CountUp
<1>7. g[Len(s)] = h[Len(s)] /\ g[Len(s)] \in Seq(A)
  <2>1. Len(s) \in 0..Len(s)
    BY <1>1
  <2> QED
    BY <1>6, <2>1
<1>8. h[Len(t)] = IF x \in S THEN Append(h[Len(s)], x) ELSE h[Len(s)]
  <2>1. Len(t) \in 1..Len(t) /\ Len(t) - 1 = Len(s)
    BY <1>1
  <2> QED
    BY <1>1, <1>5, <2>1
<1> QED
  BY <1>4, <1>5, <1>7, <1>8 DEF t

(* A filter of nothing keeps nothing.                                      *)
LEMMA FilterOfNothing ==
  ASSUME NEW S
  PROVE  Filtered(<< >>, S) = << >>
<1>1. << >> \in Seq({}) /\ Len(<< >>) = 0
  OBVIOUS
<1>2. PICK g : Unfolds(g, << >>, S)
  BY <1>1, FilterUnfolds
<1> QED
  BY <1>1, <1>2 DEF Unfolds

(* A fold over a sequence, the last element first: `gain' of a position is *)
(* what its element does to the result of the elements before it.          *)
Top(S) == CHOOSE x \in S : \A y \in S : x >= y

FoldsTo(h, n, nought, gain) ==
  h = [S \in SUBSET (1..n) |-> IF S = {} THEN nought ELSE gain[Top(S)][h[S \ {Top(S)}]]]

Advances(g, n, nought, gain) == g[0] = nought /\ \A k \in 1..n : g[k] = gain[k][g[k - 1]]

(* The last of some positions is one of them.                              *)
LEMMA TopIsLast ==
  ASSUME NEW n \in Nat, NEW S \in SUBSET (1..n), S # {}
  PROVE  Top(S) \in S /\ \A y \in S : y <= Top(S)
<1>1. PICK x \in S : \A y \in S : y <= x
  BY LastPosition
<1>2. \A y \in S : x >= y
  BY <1>1
<1> QED
  BY <1>2 DEF Top

(* A fold is defined.                                                      *)
LEMMA FoldDefines ==
  ASSUME NEW n \in Nat, NEW R, NEW nought \in R, NEW gain \in [1..n -> [R -> R]]
  PROVE  \E h \in [SUBSET (1..n) -> R] : FoldsTo(h, n, nought, gain)
<1> DEFINE X == SUBSET (1..n)
           m == [S \in X |-> Cardinality(S)]
           next == [S \in X |-> S \ {Top(S)}]
           more == [S \in X \ {{}} |-> gain[Top(S)]]
<1>1. ASSUME NEW S \in X PROVE IsFiniteSet(S) /\ Cardinality(S) \in 0..n
  <2>1. IsFiniteSet(1..n)
    BY FS_Interval
  <2>2. IsFiniteSet(S)
    BY <2>1, FS_Subset
  <2>3. Cardinality(S) \in Nat /\ Cardinality(S) <= n
    BY SelectionGrows
  <2> QED
    BY <2>2, <2>3
<1>2. \A S \in X \ {{}} : Top(S) \in S /\ Top(S) \in 1..n
  BY TopIsLast
<1>3. m \in [X -> 0..n] /\ next \in [X -> X]
  BY <1>1
<1>4. more \in [X \ {{}} -> [R -> R]]
  BY <1>2
<1>5. \A S \in X \ {{}} : m[next[S]] < m[S]
  <2> SUFFICES ASSUME NEW S \in X \ {{}} PROVE m[next[S]] < m[S]
    OBVIOUS
  <2>1. m[S] = Cardinality(S) /\ m[next[S]] = Cardinality(S \ {Top(S)})
    OBVIOUS
  <2>2. Cardinality(S \ {Top(S)}) = Cardinality(S) - 1
    BY <1>1, <1>2, FS_RemoveElement
  <2> QED
    BY <1>1, <2>1, <2>2
<1>6. PICK h \in [X -> R] : Recurses(h, X, next, {{}}, nought, more)
  <2>1. {{}} \in SUBSET X
    OBVIOUS
  <2> HIDE DEF X, m, next, more
  <2> QED
    BY <1>3, <1>4, <1>5, <2>1, DescentDefines
<1>7. ASSUME NEW S \in X, S # {}
      PROVE  more[S][h[next[S]]] = gain[Top(S)][h[S \ {Top(S)}]]
  BY <1>7
<1>8. h = [S \in X |-> IF S \in {{}} THEN nought ELSE more[S][h[next[S]]]]
  BY <1>6 DEF Recurses
<1>9. h = [S \in X |-> IF S = {} THEN nought ELSE gain[Top(S)][h[S \ {Top(S)}]]]
  <2> HIDE DEF more, next
  <2> QED
    BY <1>7, <1>8
<1> QED
  BY <1>9 DEF FoldsTo

Alike(f, g, S) == \A k \in S : f[k] = g[k]

(* Two folds that do the same to as many elements have the same result.    *)
LEMMA RunsAgree ==
  ASSUME NEW n \in Nat, NEW nought, NEW gain, NEW other, NEW g, NEW h,
         Advances(g, n, nought, gain), Advances(h, n, nought, other),
         Alike(gain, other, 1..n)
  PROVE  Alike(g, h, 0..n)
<1> DEFINE G == {k \in Nat : g[k] = h[k]}
<1>1. 0 \in G
  BY DEF Advances
<1>2. ASSUME NEW k \in Nat, k + 1 <= n, k \in G PROVE k + 1 \in G
  <2>1. k + 1 \in 1..n /\ (k + 1) - 1 = k
    BY <1>2
  <2>2. g[k + 1] = gain[k + 1][g[k]] /\ h[k + 1] = other[k + 1][h[k]] /\ g[k] = h[k]
    BY <1>2, <2>1 DEF Advances
  <2> QED
    BY <2>1, <2>2 DEF Alike
<1>3. \A k \in 0..n : k \in G
  <2> HIDE DEF G
  <2> QED
    BY <1>1, <1>2, CountUp
<1> QED
  BY <1>3 DEF Alike

(* The sum of the lengths of what a sequence lists.                        *)
Summed(q) ==
  LET sum[S \in SUBSET DOMAIN q] ==
        IF S = {} THEN 0 ELSE sum[S \ {Top(S)}] + q[Top(S)].chars
  IN  sum[DOMAIN q]

Chars(q) == [k \in 1..Len(q) |-> [r \in Nat |-> r + q[k].chars]]

(* It is reached by adding one length after the other.                     *)
LEMMA SummedRuns ==
  ASSUME NEW A, \A a \in A : a.chars \in Nat, NEW q \in Seq(A)
  PROVE  \E g \in [0..Len(q) -> Nat] : Advances(g, Len(q), 0, Chars(q)) /\ Summed(q) = g[Len(q)]
<1> DEFINE n == Len(q)
           gain == Chars(q)
           Is(h) == h = [S \in SUBSET DOMAIN q |->
                          IF S = {} THEN 0 ELSE h[S \ {Top(S)}] + q[Top(S)].chars]
           sum == CHOOSE h : Is(h)
<1>1. n \in Nat /\ DOMAIN q = 1..n /\ \A k \in 1..n : q[k].chars \in Nat
  OBVIOUS
<1>2. gain \in [1..n -> [Nat -> Nat]]
  BY <1>1 DEF Chars
<1>3. \A k \in 1..n, r \in Nat : gain[k][r] = r + q[k].chars
  BY DEF Chars
<1>4. \A S \in SUBSET (1..n) : S # {} => Top(S) \in 1..n
  BY <1>1, TopIsLast
<1> HIDE DEF n, gain
<1>5. PICK h \in [SUBSET (1..n) -> Nat] : FoldsTo(h, n, 0, gain)
  BY ONLY <1>1, <1>2, 0 \in Nat, FoldDefines
<1>6. Is(h)
  <2>1. \A S \in SUBSET (1..n) : S # {} => gain[Top(S)][h[S \ {Top(S)}]] = h[S \ {Top(S)}] + q[Top(S)].chars
    <3> SUFFICES ASSUME NEW S \in SUBSET (1..n), S # {}
                 PROVE  gain[Top(S)][h[S \ {Top(S)}]] = h[S \ {Top(S)}] + q[Top(S)].chars
      OBVIOUS
    <3>1. PICK r \in Nat : r = h[S \ {Top(S)}]
      OBVIOUS
    <3> QED
      BY <1>3, <1>4, <3>1
  <2>2. h = [S \in SUBSET (1..n) |-> IF S = {} THEN 0 ELSE h[S \ {Top(S)}] + q[Top(S)].chars]
    BY <1>5, <2>1 DEF FoldsTo
  <2> QED
    BY <1>1, <2>2
<1>7. Is(sum)
  <2> HIDE DEF Is
  <2> QED
    BY <1>6
<1>8. Summed(q) = sum[1..n]
  BY <1>1 DEF Summed
<1> HIDE DEF sum
<1> DEFINE g == [k \in 0..n |-> sum[1..k]]
           G == {k \in Nat : g[k] \in Nat /\ (k > 0 => g[k] = gain[k][g[k - 1]])}
<1>9. /\ sum[{}] = 0
      /\ \A S \in SUBSET (1..n) : S # {} => sum[S] = sum[S \ {Top(S)}] + q[Top(S)].chars
  BY <1>1, <1>7
<1>10. g[0] = 0
  <2>1. 1..0 = {} /\ 0 \in 0..n
    BY <1>1
  <2> QED
    BY <1>9, <2>1
<1>11. ASSUME NEW k \in 1..n PROVE g[k] = g[k - 1] + q[k].chars
  <2>1. 1..k \in SUBSET (1..n) /\ k \in 1..k /\ (1..k) \ {k} = 1..(k - 1) /\ k - 1 \in 0..n /\ k \in 0..n
    BY <1>1
  <2>2. Top(1..k) \in 1..k /\ \A y \in 1..k : y <= Top(1..k)
    BY <1>1, <2>1, TopIsLast
  <2>3. Top(1..k) = k
    BY <2>1, <2>2
  <2>4. sum[1..k] = sum[1..(k - 1)] + q[k].chars
    BY <1>9, <2>1, <2>3
  <2> QED
    BY <2>1, <2>4
<1>12. \A k \in 0..n : k \in G
  <2> HIDE DEF g
  <2>1. 0 \in G
    BY <1>10
  <2>2. ASSUME NEW k \in Nat, k + 1 <= n, k \in G PROVE k + 1 \in G
    <3>1. k + 1 \in 1..n /\ (k + 1) - 1 = k
      BY <1>1, <2>2
    <3>2. g[k + 1] = g[k] + q[k + 1].chars /\ g[k] \in Nat /\ q[k + 1].chars \in Nat
      BY <1>1, <1>11, <2>2, <3>1
    <3>3. gain[k + 1][g[k]] = g[k] + q[k + 1].chars
      BY <1>3, <3>1, <3>2
    <3> QED
      BY <3>1, <3>2, <3>3
  <2> HIDE DEF G
  <2> QED
    BY <1>1, <2>1, <2>2, CountUp
<1>13. g \in [0..n -> Nat]
  BY <1>12
<1>14. g[n] = sum[1..n]
  BY <1>1
<1>15. \A k \in 1..n : g[k] = gain[k][g[k - 1]]
  <2> HIDE DEF g
  <2>1. \A k \in 1..n : k \in 0..n /\ k > 0
    BY <1>1
  <2> QED
    BY <1>12, <2>1
<1> HIDE DEF g
<1> QED
  BY <1>8, <1>10, <1>13, <1>14, <1>15 DEF Advances, n, gain

(* Nothing has no length, and one more element adds its own.               *)
LEMMA SummedAppends ==
  ASSUME NEW A, \A a \in A : a.chars \in Nat, NEW q \in Seq(A), NEW t \in A
  PROVE  /\ Summed(<< >>) = 0 /\ Summed(q) \in Nat
         /\ Summed(Append(q, t)) = Summed(q) + t.chars
<1>1. Summed(<< >>) = 0
  <2>1. << >> \in Seq(A) /\ Len(<< >>) = 0
    OBVIOUS
  <2>2. PICK g \in [0..0 -> Nat] : Advances(g, 0, 0, Chars(<< >>)) /\ Summed(<< >>) = g[0]
    BY <2>1, SummedRuns
  <2> QED
    BY <2>2 DEF Advances
<1> DEFINE p == Append(q, t)
           n == Len(q)
<1>2. p \in Seq(A) /\ n \in Nat /\ Len(p) = n + 1 /\ p[n + 1] = t /\ \A k \in 1..n : p[k] = q[k]
  OBVIOUS
<1> HIDE DEF p, n
<1>3. PICK g \in [0..n -> Nat] : Advances(g, n, 0, Chars(q)) /\ Summed(q) = g[n]
  BY SummedRuns DEF n
<1>4. PICK h \in [0..(n + 1) -> Nat] : Advances(h, n + 1, 0, Chars(p)) /\ Summed(p) = h[n + 1]
  BY <1>2, SummedRuns
<1>5. Advances(h, n, 0, Chars(p))
  BY <1>2, <1>4 DEF Advances
<1>6. ASSUME NEW k \in 1..n PROVE Chars(q)[k] = Chars(p)[k]
  <2>1. k \in 1..Len(q) /\ k \in 1..Len(p) /\ p[k] = q[k]
    BY <1>2 DEF n
  <2>2. Chars(q)[k] = [r \in Nat |-> r + q[k].chars]
    BY <2>1 DEF Chars
  <2>3. Chars(p)[k] = [r \in Nat |-> r + p[k].chars]
    BY <2>1 DEF Chars
  <2> QED
    BY <2>1, <2>2, <2>3
<1>7. g[n] = h[n] /\ g[n] \in Nat
  <2>1. Alike(g, h, 0..n)
    <3>1. PICK a, b : a = Chars(q) /\ b = Chars(p)
      OBVIOUS
    <3>2. n \in Nat /\ Advances(g, n, 0, a) /\ Advances(h, n, 0, b) /\ Alike(a, b, 1..n)
      BY <1>2, <1>3, <1>5, <1>6, <3>1 DEF Alike
    <3> QED
      BY ONLY <3>2, RunsAgree
  <2>2. n \in 0..n
    BY <1>2
  <2> QED
    BY <2>1, <2>2 DEF Alike
<1>8. h[n + 1] = h[n] + t.chars
  <2>1. n + 1 \in 1..(n + 1) /\ (n + 1) - 1 = n
    BY <1>2
  <2>2. h[n + 1] = Chars(p)[n + 1][h[n]]
    BY <1>4, <2>1 DEF Advances
  <2>3. Chars(p)[n + 1] = [r \in Nat |-> r + t.chars]
    BY <1>2, <2>1 DEF Chars
  <2>4. PICK r \in Nat : r = h[n]
    BY <1>7
  <2> QED
    BY <2>2, <2>3, <2>4
<1> QED
  BY <1>1, <1>3, <1>4, <1>7, <1>8 DEF p

(* q sorted is q in another order, in which higher keys come first.        *)
Orders(p, q, key) ==
  /\ p \in [1..Len(q) -> 1..Len(q)]
  /\ \A i, j \in 1..Len(q) : p[i] = p[j] => i = j
  /\ \A i \in 1..Len(q) : \E k \in 1..Len(q) : p[k] = i
  /\ \A i, j \in 1..Len(q) : i < j => Precedes(q, key, p[i], p[j])
  /\ Sorted(q, key) = [k \in 1..Len(q) |-> q[p[k]]]

(* Sorting only changes the order.                                         *)
LEMMA SortedIsOrdered ==
  ASSUME NEW A, NEW q \in Seq(A), NEW key \in [A -> Int]
  PROVE  \E p : Orders(p, q, key)
<1> DEFINE n == Len(q)
           D == 1..n
           Below(i) == {j \in D : Precedes(q, key, j, i)}
           rank == [i \in D |-> 1 + Cardinality(Below(i))]
           p == [k \in D |-> CHOOSE i \in D : Place(q, key, i) = k]
<1>1. n \in Nat /\ DOMAIN q = D /\ \A i \in D : q[i] \in A /\ key[q[i]] \in Int
  OBVIOUS
<1>2. \A i \in D : ~Precedes(q, key, i, i)
  BY <1>1 DEF Precedes
<1>3. \A i, j \in D : i = j \/ Precedes(q, key, i, j) \/ Precedes(q, key, j, i)
  BY <1>1 DEF Precedes
<1>4. \A i, j, k \in D : Precedes(q, key, i, j) /\ Precedes(q, key, j, k) => Precedes(q, key, i, k)
  <2> SUFFICES ASSUME NEW i \in D, NEW j \in D, NEW k \in D,
                      Precedes(q, key, i, j), Precedes(q, key, j, k)
               PROVE  Precedes(q, key, i, k)
    OBVIOUS
  <2>1. PICK x \in Int, y \in Int, z \in Int : x = key[q[i]] /\ y = key[q[j]] /\ z = key[q[k]]
    BY <1>1
  <2>2. x > y \/ (x = y /\ i < j)
    BY <2>1 DEF Precedes
  <2>3. y > z \/ (y = z /\ j < k)
    BY <2>1 DEF Precedes
  <2>4. i \in Int /\ j \in Int /\ k \in Int
    OBVIOUS
  <2>5. x > z \/ (x = z /\ i < k)
    BY ONLY <2>2, <2>3, <2>4, x \in Int, y \in Int, z \in Int
  <2> QED
    BY <2>1, <2>5 DEF Precedes
<1>5. IsFiniteSet(D) /\ Cardinality(D) = n
  <2>1. 1 \in Int /\ n \in Int /\ (IF 1 > n THEN 0 ELSE n - 1 + 1) = n
    BY <1>1
  <2> HIDE DEF n
  <2> QED
    BY <2>1, FS_Interval
<1>6. ASSUME NEW i \in D
      PROVE  IsFiniteSet(Below(i)) /\ Cardinality(Below(i)) \in Nat /\ Cardinality(Below(i)) < n
  <2>1. Below(i) \subseteq D /\ i \notin Below(i)
    BY <1>2
  <2> HIDE DEF D, Below, n
  <2>2. IsFiniteSet(Below(i)) /\ Cardinality(Below(i)) <= Cardinality(D) /\ Cardinality(Below(i)) # Cardinality(D)
    BY <1>5, <1>6, <2>1, FS_Subset
  <2>3. Cardinality(Below(i)) \in Nat
    BY <2>2, FS_CardinalityType
  <2> QED
    BY <1>1, <1>5, <2>2, <2>3
<1>7. rank \in [D -> D]
  <2> HIDE DEF Below
  <2>1. \A i \in D : 1 + Cardinality(Below(i)) \in D
    BY <1>1, <1>6
  <2> QED
    BY <2>1
<1>8. \A i \in D : Place(q, key, i) = rank[i]
  BY <1>1 DEF Place
<1>9. ASSUME NEW i \in D, NEW j \in D, Precedes(q, key, i, j) PROVE rank[i] < rank[j]
  <2>1. Below(i) \subseteq Below(j) /\ i \in Below(j) /\ i \notin Below(i)
    BY <1>2, <1>4, <1>9
  <2>2. rank[i] = 1 + Cardinality(Below(i)) /\ rank[j] = 1 + Cardinality(Below(j))
    OBVIOUS
  <2> HIDE DEF rank, Below, D
  <2>3. Cardinality(Below(i)) <= Cardinality(Below(j)) /\ Cardinality(Below(i)) # Cardinality(Below(j))
    BY <1>6, <2>1, FS_Subset
  <2> QED
    BY <1>6, <2>2, <2>3
<1> HIDE DEF rank
<1>10. \A i, j \in D : rank[i] = rank[j] => i = j
  BY <1>3, <1>7, <1>9
<1>11. \A k \in D : \E i \in D : rank[i] = k
  <2> HIDE DEF D
  <2>1. rank \in Injection(D, D)
    BY <1>7, <1>10 DEF Injection, IsInjective
  <2>2. rank \in Surjection(D, D)
    BY <1>5, <2>1, FS_Injection
  <2> QED
    BY <2>2 DEF Surjection
<1>12. \A k \in D : p[k] \in D /\ rank[p[k]] = k
  BY <1>8, <1>11
<1>13. Sorted(q, key) = [k \in D |-> q[p[k]]]
  BY <1>1 DEF Sorted
<1>14. p \in [D -> D]
  BY <1>12
<1> HIDE DEF p
<1>15. \A i, j \in D : p[i] = p[j] => i = j
  BY <1>12
<1>16. \A i \in D : \E k \in D : p[k] = i
  BY <1>7, <1>10, <1>12
<1>17. \A i, j \in D : i < j => Precedes(q, key, p[i], p[j])
  <2> SUFFICES ASSUME NEW i \in D, NEW j \in D, i < j PROVE Precedes(q, key, p[i], p[j])
    OBVIOUS
  <2>1. p[i] # p[j] /\ ~(rank[p[j]] < rank[p[i]])
    BY <1>12, <1>15
  <2> QED
    BY <1>3, <1>9, <1>12, <2>1
<1> QED
  BY <1>13, <1>14, <1>15, <1>16, <1>17 DEF Orders

(* A sorted sequence has the elements of the other, higher keys first, and *)
(* each once if the other has.                                             *)
Arranges(s, q, key, A) ==
  /\ s \in Seq(A) /\ Len(s) = Len(q)
  /\ \A i, j \in 1..Len(q) : i < j => key[s[i]] >= key[s[j]]
  /\ \A i \in 1..Len(q) : \E k \in 1..Len(q) : s[i] = q[k]
  /\ \A k \in 1..Len(q) : \E i \in 1..Len(q) : s[i] = q[k]
  /\ (\A i, j \in 1..Len(q) : q[i] = q[j] => i = j) =>
       \A i, j \in 1..Len(q) : s[i] = s[j] => i = j

(* So it is for any sequence and keys that are numbers.                    *)
LEMMA SortedKeeps ==
  ASSUME NEW A, NEW q \in Seq(A), NEW key \in [A -> Int]
  PROVE  Arranges(Sorted(q, key), q, key, A)
<1>1. PICK p : Orders(p, q, key)
  BY SortedIsOrdered
<1> DEFINE s == Sorted(q, key)
           n == Len(q)
<1>2. /\ p \in [1..n -> 1..n] /\ \A i, j \in 1..n : p[i] = p[j] => i = j
      /\ \A i \in 1..n : \E k \in 1..n : p[k] = i
      /\ \A i, j \in 1..n : i < j => Precedes(q, key, p[i], p[j])
      /\ s = [k \in 1..n |-> q[p[k]]]
  BY <1>1 DEF Orders
<1>3. n \in Nat /\ \A i \in 1..n : q[i] \in A /\ key[q[i]] \in Int
  OBVIOUS
<1> HIDE DEF n, s
<1>4. \A i \in 1..n : s[i] = q[p[i]] /\ p[i] \in 1..n
  BY <1>2
<1>5. s \in Seq(A) /\ Len(s) = n
  BY <1>2, <1>3, <1>4
<1>6. ASSUME NEW i \in 1..n, NEW j \in 1..n, i < j PROVE key[s[i]] >= key[s[j]]
  <2>1. Precedes(q, key, p[i], p[j])
    BY <1>2, <1>6
  <2>2. PICK x \in Int, y \in Int : x = key[q[p[i]]] /\ y = key[q[p[j]]]
    BY <1>3, <1>4
  <2>3. x >= y
    BY <2>1, <2>2 DEF Precedes
  <2> QED
    BY <1>4, <2>2, <2>3
<1>7. \A i \in 1..n : \E k \in 1..n : s[i] = q[k]
  BY <1>4
<1>8. \A k \in 1..n : \E i \in 1..n : s[i] = q[k]
  BY <1>2, <1>4
<1>9. (\A i, j \in 1..n : q[i] = q[j] => i = j) =>
        \A i, j \in 1..n : s[i] = s[j] => i = j
  <2> SUFFICES ASSUME \A i, j \in 1..n : q[i] = q[j] => i = j,
                      NEW i \in 1..n, NEW j \in 1..n, s[i] = s[j]
               PROVE  i = j
    OBVIOUS
  <2>1. p[i] = p[j]
    BY <1>4
  <2> QED
    BY <1>2, <2>1
<1> QED
  BY <1>5, <1>6, <1>7, <1>8, <1>9 DEF s, n, Arranges

(* A function that adds up numbers, the last one first.                    *)
Adds(f, n, nought, add) ==
  f = [S \in SUBSET (1..n) |-> IF S = {} THEN nought ELSE f[S \ {Top(S)}] + add[Top(S)]]

(* There is such a function, and its sum is a number.                      *)
LEMMA AddsUp ==
  ASSUME NEW n \in Nat, NEW nought \in Int, NEW add \in [1..n -> Int]
  PROVE  /\ \E f : Adds(f, n, nought, add)
         /\ \A f : Adds(f, n, nought, add) => f[1..n] \in Int
<1> DEFINE gain == [k \in 1..n |-> [r \in Int |-> r + add[k]]]
<1>1. gain \in [1..n -> [Int -> Int]]
  OBVIOUS
<1>2. \A k \in 1..n, r \in Int : gain[k][r] = r + add[k]
  OBVIOUS
<1>3. \A S \in SUBSET (1..n) : S # {} => Top(S) \in 1..n
  BY TopIsLast
<1> HIDE DEF gain
<1>4. PICK h \in [SUBSET (1..n) -> Int] : FoldsTo(h, n, nought, gain)
  BY ONLY <1>1, n \in Nat, nought \in Int, FoldDefines
<1>5. Adds(h, n, nought, add)
  <2>1. ASSUME NEW S \in SUBSET (1..n), S # {}
        PROVE  gain[Top(S)][h[S \ {Top(S)}]] = h[S \ {Top(S)}] + add[Top(S)]
    <3>1. PICK r \in Int : r = h[S \ {Top(S)}]
      OBVIOUS
    <3> QED
      BY <1>2, <1>3, <2>1, <3>1
  <2> QED
    BY <1>4, <2>1 DEF FoldsTo, Adds
<1>6. ASSUME NEW f, Adds(f, n, nought, add) PROVE f[1..n] \in Int
  <2> DEFINE G == {k \in Nat : f[1..k] \in Int}
  <2>1. /\ f[{}] = nought
        /\ \A S \in SUBSET (1..n) : S # {} => f[S] = f[S \ {Top(S)}] + add[Top(S)]
    BY <1>6 DEF Adds
  <2>2. 0 \in G
    <3>1. 1..0 = {}
      OBVIOUS
    <3> QED
      BY <2>1, <3>1
  <2>3. ASSUME NEW k \in Nat, k + 1 <= n, k \in G PROVE k + 1 \in G
    <3>1. /\ 1..(k + 1) \in SUBSET (1..n) /\ k + 1 \in 1..(k + 1) /\ k + 1 \in 1..n
          /\ (1..(k + 1)) \ {k + 1} = 1..k
      BY <2>3
    <3>2. Top(1..(k + 1)) \in 1..(k + 1) /\ \A y \in 1..(k + 1) : y <= Top(1..(k + 1))
      BY <3>1, TopIsLast
    <3>3. Top(1..(k + 1)) = k + 1
      BY <3>1, <3>2
    <3>4. f[1..(k + 1)] = f[1..k] + add[k + 1]
      BY <2>1, <3>1, <3>3
    <3> QED
      BY <2>3, <3>1, <3>4
  <2> HIDE DEF G
  <2>4. \A k \in 0..n : k \in G
    BY <2>2, <2>3, CountUp
  <2> QED
    BY <2>4 DEF G
<1> QED
  BY <1>5, <1>6

Seen(q, x) == \E i \in 1..Len(q) : q[i] = x

(* What a filter keeps of rising numbers rises.                            *)
LEMMA FilterRises ==
  ASSUME NEW s \in Seq(Int), NEW S, \A i, j \in 1..Len(s) : i < j => s[i] < s[j]
  PROVE  \A i, j \in 1..Len(Filtered(s, S)) : i < j => Filtered(s, S)[i] < Filtered(s, S)[j]
<1>1. PICK g \in [0..Len(s) -> Seq(Int)] : Unfolds(g, s, S)
  BY FilterUnfolds
<1>2. /\ Filtered(s, S) = g[Len(s)] /\ g[0] = << >>
      /\ \A n \in 1..Len(s) :
           g[n] = IF s[n] \in S THEN Append(g[n - 1], s[n]) ELSE g[n - 1]
  BY <1>1 DEF Unfolds
<1> DEFINE Old(n) == \A j \in 1..Len(g[n]) : \E m \in 1..n : s[m] = g[n][j]
           Rises(n) == \A i, j \in 1..Len(g[n]) : i < j => g[n][i] < g[n][j]
           G == {n \in Nat : Old(n) /\ Rises(n)}
<1>3. Len(s) \in Nat /\ \A n \in 1..Len(s) : s[n] \in Int
  OBVIOUS
<1>4. 0 \in G
  <2>1. 1..Len(g[0]) = {}
    BY <1>2
  <2> QED
    BY <2>1
<1>5. ASSUME NEW k \in Nat, k + 1 <= Len(s), k \in G PROVE k + 1 \in G
  <2>1. /\ k + 1 \in 1..Len(s) /\ k \in 0..Len(s) /\ (k + 1) - 1 = k
        /\ g[k] \in Seq(Int) /\ s[k + 1] \in Int
    BY ONLY <1>3, k \in Nat, k + 1 <= Len(s), g \in [0..Len(s) -> Seq(Int)]
  <2>2. Old(k) /\ Rises(k)
    BY <1>5
  <2>3. 1..(k + 1) = 1..k \cup {k + 1}
    OBVIOUS
  <2>4. CASE s[k + 1] \notin S
    <3>1. g[k + 1] = g[k]
      BY <1>2, <2>1, <2>4
    <3>2. Old(k + 1)
      BY <2>2, <2>3, <3>1
    <3>3. Rises(k + 1)
      BY <2>2, <3>1
    <3> QED
      BY <3>2, <3>3
  <2>5. CASE s[k + 1] \in S
    <3> DEFINE q == g[k]
    <3>1. /\ g[k + 1] = Append(q, s[k + 1]) /\ q \in Seq(Int)
          /\ Len(q) \in Nat /\ Len(g[k + 1]) = Len(q) + 1
          /\ g[k + 1][Len(q) + 1] = s[k + 1]
          /\ \A j \in 1..Len(q) : g[k + 1][j] = q[j] /\ q[j] \in Int
          /\ 1..Len(g[k + 1]) = 1..Len(q) \cup {Len(q) + 1}
      <4>1. g[k + 1] = Append(q, s[k + 1]) /\ q \in Seq(Int)
        BY <1>2, <2>1, <2>5
      <4> HIDE DEF q
      <4> QED
        BY <2>1, <4>1
    <3>2. Old(k + 1)
      BY <2>2, <2>3, <2>5, <3>1
    <3>3. \A j \in 1..Len(q) : q[j] < s[k + 1]
      <4> SUFFICES ASSUME NEW j \in 1..Len(q) PROVE q[j] < s[k + 1]
        OBVIOUS
      <4>1. PICK m \in 1..k : s[m] = q[j]
        BY <2>2
      <4>2. m \in 1..Len(s) /\ m < k + 1
        BY <1>3, <2>1
      <4> QED
        BY <2>1, <4>1, <4>2
    <3>4. Rises(k + 1)
      <4> SUFFICES ASSUME NEW i \in 1..Len(g[k + 1]), NEW j \in 1..Len(g[k + 1]), i < j
                   PROVE  g[k + 1][i] < g[k + 1][j]
        OBVIOUS
      <4>1. i \in 1..Len(q) /\ (j \in 1..Len(q) \/ j = Len(q) + 1)
        BY <3>1
      <4> QED
        BY <2>2, <3>1, <3>3, <4>1
    <3> QED
      BY <3>2, <3>4
  <2> QED
    BY <2>4, <2>5
<1>6. Len(s) \in G
  <2> HIDE DEF G
  <2>1. \A k \in 0..Len(s) : k \in G
    BY <1>3, <1>4, <1>5, CountUp
  <2> QED
    BY <1>3, <2>1
<1> QED
  BY <1>2, <1>6

(* q lists the positions of S from a up to b, in order.                    *)
Lists(q, S, a, b) ==
  /\ q \in Seq(Int)
  /\ \A k \in 1..Len(q) : q[k] \in S /\ a <= q[k] /\ q[k] < b
  /\ \A x \in S : x \in Int /\ a <= x /\ x < b => Seen(q, x)
  /\ \A i, j \in 1..Len(q) : i < j => q[i] < q[j]

(* So does a filter of the positions.                                      *)
LEMMA FilterLists ==
  ASSUME NEW a \in Int, NEW b \in Int, a <= b, NEW S
  PROVE  Lists(Filtered([i \in 1..(b - a) |-> a + i - 1], S), S, a, b)
<1> DEFINE s == [i \in 1..(b - a) |-> a + i - 1]
           q == Filtered(s, S)
<1>1. s \in Seq(Int) /\ Len(s) = b - a /\ b - a \in Nat
  OBVIOUS
<1>2. \A i \in 1..Len(s) : s[i] = a + i - 1
  BY <1>1
<1> HIDE DEF s
<1>3. /\ q \in Seq(Int)
      /\ \A j \in 1..Len(q) : q[j] \in S /\ \E m \in 1..Len(s) : s[m] = q[j]
      /\ \A m \in 1..Len(s) : s[m] \in S => \E j \in 1..Len(q) : q[j] = s[m]
  BY <1>1, FilterKeeps
<1>4. \A i, j \in 1..Len(s) : i < j => s[i] < s[j]
  BY <1>1, <1>2
<1>5. \A i, j \in 1..Len(q) : i < j => q[i] < q[j]
  BY <1>1, <1>4, FilterRises
<1> HIDE DEF q
<1>6. \A k \in 1..Len(q) : a <= q[k] /\ q[k] < b
  BY <1>1, <1>2, <1>3
<1>7. ASSUME NEW x \in S, x \in Int, a <= x, x < b PROVE Seen(q, x)
  <2>1. x - a + 1 \in 1..Len(s) /\ s[x - a + 1] = x
    BY <1>1, <1>2, <1>7
  <2> QED
    BY <1>3, <2>1 DEF Seen
<1>8. Lists(q, S, a, b)
  BY <1>3, <1>5, <1>6, <1>7 DEF Lists
<1> QED
  BY <1>8 DEF q, s

(* The sequences of a sequence, one after the other.                       *)
Joined(s) ==
  IF Len(s) = 0 THEN s
  ELSE LET flatten[i \in 1..Len(s)] == IF i = 1 THEN s[i] ELSE flatten[i - 1] \o s[i]
       IN  flatten[Len(s)]

Joins(f, s) == f[1] = s[1] /\ \A i \in 1..Len(s) : i # 1 => f[i] = f[i - 1] \o s[i]

(* They are joined step by step.                                           *)
LEMMA JoinedRuns ==
  ASSUME NEW A, NEW s \in Seq(Seq(A)), s # << >>
  PROVE  \E f : Joins(f, s) /\ Joined(s) = f[Len(s)]
<1> DEFINE n == Len(s)
           Is(f) == f = [i \in 1..n |-> IF i = 1 THEN s[i] ELSE f[i - 1] \o s[i]]
           X == 1..n
           m == [i \in X |-> i]
           next == [i \in X |-> IF i = 1 THEN 1 ELSE i - 1]
           gain == [i \in X \ {1} |-> [r \in Seq(A) |-> r \o s[i]]]
<1>1. n \in Nat /\ n > 0 /\ \A i \in 1..n : s[i] \in Seq(A)
  OBVIOUS
<1>2. Joined(s) = (CHOOSE f : Is(f))[n]
  BY <1>1 DEF Joined
<1>3. \E h \in [X -> Seq(A)] : Recurses(h, X, next, {1}, s[1], gain)
  <2>1. m \in [X -> 0..n] /\ next \in [X -> X] /\ {1} \in SUBSET X /\ s[1] \in Seq(A)
    BY <1>1
  <2>2. gain \in [X \ {1} -> [Seq(A) -> Seq(A)]]
    <3> SUFFICES ASSUME NEW i \in X \ {1}, NEW r \in Seq(A) PROVE r \o s[i] \in Seq(A)
      OBVIOUS
    <3> QED
      BY <1>1
  <2>3. \A i \in X \ {1} : m[next[i]] < m[i]
    BY <1>1
  <2> HIDE DEF X, m, next, gain, n
  <2> QED
    BY <1>1, <2>1, <2>2, <2>3, DescentDefines
<1>4. PICK h \in [X -> Seq(A)] : Recurses(h, X, next, {1}, s[1], gain)
  BY <1>3
<1>5. Is(h)
  <2>1. h = [i \in X |-> IF i \in {1} THEN s[1] ELSE gain[i][h[next[i]]]]
    BY <1>4 DEF Recurses
  <2>2. ASSUME NEW i \in X, i # 1 PROVE gain[i][h[next[i]]] = h[i - 1] \o s[i]
    <3>1. next[i] = i - 1 /\ i - 1 \in X
      BY <1>1, <2>2
    <3>2. PICK r \in Seq(A) : r = h[i - 1]
      BY <3>1
    <3> QED
      BY <2>2, <3>1, <3>2
  <2> HIDE DEF gain, next
  <2> QED
    BY <2>1, <2>2
<1>6. PICK f : f = (CHOOSE e : Is(e)) /\ Is(f)
  <2> HIDE DEF Is
  <2> QED
    BY <1>5
<1>7. f[1] = s[1] /\ \A i \in 1..n : i # 1 => f[i] = f[i - 1] \o s[i]
  <2>1. 1 \in 1..n
    BY <1>1
  <2>2. f = [i \in 1..n |-> IF i = 1 THEN s[i] ELSE f[i - 1] \o s[i]]
    BY <1>6
  <2> HIDE DEF n
  <2>3. \A i \in 1..n : f[i] = IF i = 1 THEN s[i] ELSE f[i - 1] \o s[i]
    BY ONLY <2>2
  <2> QED
    BY ONLY <2>1, <2>3
<1> QED
  BY <1>2, <1>6, <1>7 DEF Joins

(* Two sequences one after the other have the elements of both, in order.  *)
LEMMA JoinKeeps ==
  ASSUME NEW A, NEW p \in Seq(A), NEW q \in Seq(A)
  PROVE  /\ p \o q \in Seq(A) /\ Len(p) \in Nat /\ Len(q) \in Nat
         /\ Len(p \o q) = Len(p) + Len(q)
         /\ \A i \in 1..Len(p) : (p \o q)[i] = p[i]
         /\ \A i \in 1..Len(q) : (p \o q)[Len(p) + i] = q[i]
         /\ \A i \in 1..Len(p \o q) : i \in 1..Len(p) \/ i - Len(p) \in 1..Len(q)
         /\ \A x : Seen(p \o q, x) <=> Seen(p, x) \/ Seen(q, x)
<1>1. /\ p \o q \in Seq(A) /\ Len(p \o q) = Len(p) + Len(q)
      /\ Len(p) \in Nat /\ Len(q) \in Nat
  OBVIOUS
<1>2. \A i \in 1..Len(p) : (p \o q)[i] = p[i] /\ i \in 1..Len(p \o q)
  BY <1>1
<1>3. \A i \in 1..Len(q) : (p \o q)[Len(p) + i] = q[i] /\ Len(p) + i \in 1..Len(p \o q)
  BY <1>1
<1>4. \A i \in 1..Len(p \o q) :
        i \in 1..Len(p) \/ (i - Len(p) \in 1..Len(q) /\ i = Len(p) + (i - Len(p)))
  BY <1>1
<1>5. \A x : Seen(p \o q, x) <=> Seen(p, x) \/ Seen(q, x)
  <2> DEFINE r == p \o q
  <2> HIDE DEF r
  <2> SUFFICES ASSUME NEW x PROVE Seen(r, x) <=> Seen(p, x) \/ Seen(q, x)
    BY DEF r
  <2>1. ASSUME NEW i \in 1..Len(r), r[i] = x PROVE Seen(p, x) \/ Seen(q, x)
    <3>1. CASE i \in 1..Len(p)
      BY <1>2, <2>1, <3>1 DEF Seen, r
    <3>2. CASE i - Len(p) \in 1..Len(q) /\ i = Len(p) + (i - Len(p))
      <4>1. r[i] = q[i - Len(p)]
        BY <1>3, <3>2 DEF r
      <4> QED
        BY <2>1, <3>2, <4>1 DEF Seen
    <3> QED
      BY <1>4, <3>1, <3>2 DEF r
  <2>2. ASSUME NEW i \in 1..Len(p), p[i] = x PROVE Seen(r, x)
    BY <1>2, <2>2 DEF Seen, r
  <2>3. ASSUME NEW i \in 1..Len(q), q[i] = x PROVE Seen(r, x)
    <3>1. r[Len(p) + i] = x /\ Len(p) + i \in 1..Len(r)
      BY <1>3, <2>3 DEF r
    <3> QED
      BY <3>1 DEF Seen
  <2> QED
    BY <2>1, <2>2, <2>3 DEF Seen
<1> QED
  BY <1>1, <1>2, <1>3, <1>4, <1>5

(* So have many sequences; and if all the elements of a sequence are in a  *)
(* relation with those after them, there and in later sequences, they      *)
(* still are.                                                              *)
LEMMA JoinedKeeps ==
  ASSUME NEW A, NEW s \in Seq(Seq(A)), NEW R
  PROVE  /\ Joined(s) \in Seq(A)
         /\ \A x : Seen(Joined(s), x) <=> \E k \in 1..Len(s) : Seen(s[k], x)
         /\ /\ \A k \in 1..Len(s) : \A i, j \in 1..Len(s[k]) :
                 i < j => <<s[k][i], s[k][j]>> \in R
            /\ \A k, l \in 1..Len(s) : k < l =>
                 \A x, y : Seen(s[k], x) /\ Seen(s[l], y) => <<x, y>> \in R
            => \A i, j \in 1..Len(Joined(s)) : i < j => <<Joined(s)[i], Joined(s)[j]>> \in R
<1> DEFINE n == Len(s)
           Rising(q) == \A i, j \in 1..Len(q) : i < j => <<q[i], q[j]>> \in R
           Fine == /\ \A k \in 1..n : Rising(s[k])
                   /\ \A k, l \in 1..n : k < l =>
                        \A x, y : Seen(s[k], x) /\ Seen(s[l], y) => <<x, y>> \in R
<1>1. n \in Nat /\ \A i \in 1..n : s[i] \in Seq(A)
  OBVIOUS
<1>2. CASE n = 0
  <2>1. Joined(s) = << >> /\ Len(<< >>) = 0 /\ << >> \in Seq(A)
    BY <1>2 DEF Joined
  <2> QED
    BY <1>2, <2>1 DEF Seen
<1>3. CASE n > 0
  <2>1. PICK f : Joins(f, s) /\ Joined(s) = f[n]
    BY <1>3, JoinedRuns
  <2>2. f[1] = s[1] /\ \A i \in 1..n : i # 1 => f[i] = f[i - 1] \o s[i]
    BY <2>1 DEF Joins
  <2> DEFINE K(k) == /\ f[k] \in Seq(A)
                     /\ \A x : Seen(f[k], x) <=> \E i \in 1..k : Seen(s[i], x)
                     /\ Fine => Rising(f[k])
             G == {k \in Nat : k <= n - 1 => K(k + 1)}
  <2> HIDE DEF n, Fine
  <2>3. 0 \in G
    <3>1. 0 + 1 = 1 /\ 1..1 = {1} /\ 1 \in 1..n
      BY <1>1, <1>3
    <3>2. Fine => Rising(s[1])
      BY <3>1 DEF Fine
    <3>3. f[1] \in Seq(A) /\ \A x : Seen(f[1], x) <=> \E i \in 1..1 : Seen(s[i], x)
      BY <1>1, <2>2, <3>1
    <3> HIDE DEF Rising
    <3>4. K(0 + 1)
      BY <2>2, <3>1, <3>2, <3>3
    <3> QED
      BY <3>4
  <2>4. ASSUME NEW k \in Nat, k + 1 <= n - 1, k \in G PROVE k + 1 \in G
    <3>1. /\ K(k + 1) /\ k + 1 \in 1..n /\ (k + 1) + 1 \in 1..n /\ (k + 1) + 1 # 1
          /\ ((k + 1) + 1) - 1 = k + 1
      <4>1. K(k + 1)
        BY <2>4, <1>1
      <4> HIDE DEF K, G
      <4> QED
        BY <4>1, <1>1, <2>4
    <3>2. PICK p \in Seq(A), q \in Seq(A) : p = f[k + 1] /\ q = s[(k + 1) + 1]
      BY <1>1, <3>1
    <3>3. f[(k + 1) + 1] = p \o q
      BY <2>2, <3>1, <3>2
    <3>4. \A i \in 1..((k + 1) + 1) : i \in 1..(k + 1) \/ i = (k + 1) + 1
      OBVIOUS
    <3>5. PICK r : r = p \o q
      OBVIOUS
    <3>6. /\ r \in Seq(A) /\ Len(p) \in Nat /\ Len(q) \in Nat
          /\ Len(r) = Len(p) + Len(q)
          /\ \A i \in 1..Len(p) : r[i] = p[i]
          /\ \A i \in 1..Len(q) : r[Len(p) + i] = q[i]
          /\ \A i \in 1..Len(r) : i \in 1..Len(p) \/ i - Len(p) \in 1..Len(q)
          /\ \A x : Seen(r, x) <=> Seen(p, x) \/ Seen(q, x)
      BY ONLY <3>5, p \in Seq(A), q \in Seq(A), JoinKeeps
    <3>7. \A x : Seen(r, x) <=> \E i \in 1..((k + 1) + 1) : Seen(s[i], x)
      <4>1. \A x : Seen(p, x) <=> \E i \in 1..(k + 1) : Seen(s[i], x)
        BY <3>1, <3>2
      <4>2. \A i \in 1..(k + 1) : i \in 1..((k + 1) + 1)
        OBVIOUS
      <4>3. (k + 1) + 1 \in 1..((k + 1) + 1)
        OBVIOUS
      <4> QED
        BY ONLY <3>2, <3>4, <3>6, <4>1, <4>2, <4>3
    <3>8. ASSUME Fine PROVE Rising(r)
      <4>1. Rising(p) /\ Rising(q)
        BY <3>1, <3>2, <3>8 DEF Fine
      <4>2. \A i \in 1..(k + 1) : i \in 1..n /\ i < (k + 1) + 1
        BY <1>1, <3>1
      <4>3. ASSUME NEW x, NEW y, Seen(p, x), Seen(q, y) PROVE <<x, y>> \in R
        <5>1. PICK i \in 1..(k + 1) : Seen(s[i], x)
          BY <3>1, <3>2, <4>3
        <5> QED
          BY <3>1, <3>2, <3>8, <4>2, <4>3, <5>1 DEF Fine
      <4>4. ASSUME NEW i \in 1..Len(r), NEW j \in 1..Len(r), i < j
            PROVE  <<r[i], r[j]>> \in R
        <5>1. CASE j \in 1..Len(p)
          <6>1. i \in 1..Len(p)
            BY <3>6, <4>4, <5>1
          <6> QED
            BY <3>6, <4>1, <4>4, <5>1, <6>1
        <5>2. CASE i \in 1..Len(p) /\ j - Len(p) \in 1..Len(q)
          <6>1. r[i] = p[i] /\ r[j] = q[j - Len(p)]
            <7>1. j = Len(p) + (j - Len(p))
              BY <3>6, <5>2
            <7> QED
              BY <3>6, <5>2, <7>1
          <6>2. Seen(p, r[i]) /\ Seen(q, r[j])
            BY <5>2, <6>1 DEF Seen
          <6> QED
            BY <4>3, <6>2
        <5>3. CASE i - Len(p) \in 1..Len(q) /\ j - Len(p) \in 1..Len(q)
          <6>1. i = Len(p) + (i - Len(p)) /\ j = Len(p) + (j - Len(p)) /\ i - Len(p) < j - Len(p)
            BY <3>6, <4>4, <5>3
          <6>2. r[i] = q[i - Len(p)] /\ r[j] = q[j - Len(p)]
            BY <3>6, <5>3, <6>1
          <6> QED
            BY <4>1, <5>3, <6>1, <6>2
        <5> QED
          BY <3>6, <4>4, <5>1, <5>2, <5>3
      <4> QED
        BY <4>4
    <3> HIDE DEF Rising
    <3>9. K((k + 1) + 1)
      BY <3>3, <3>5, <3>6, <3>7, <3>8
    <3> HIDE DEF K
    <3> QED
      BY <3>9
  <2> HIDE DEF G, K
  <2>5. \A k \in 0..(n - 1) : k \in G
    <3>1. n - 1 \in Nat
      BY <1>1, <1>3
    <3> QED
      BY <2>3, <2>4, <3>1, CountUp
  <2>6. K(n)
    <3>1. n - 1 \in 0..(n - 1) /\ (n - 1) + 1 = n /\ n - 1 <= n - 1
      BY <1>1, <1>3
    <3>2. n - 1 \in G
      BY <2>5, <3>1
    <3> QED
      BY <3>1, <3>2 DEF G
  <2> QED
    BY <2>1, <2>6 DEF K, Fine, n
<1> QED
  BY <1>1, <1>2, <1>3

(* f gives every part of 1..n what its last number makes of the rest.      *)
Follows(f, n, nought, gain, R) ==
  /\ f[{}] = nought /\ nought \in R /\ gain \in [1..n -> [R -> R]]
  /\ \A S \in SUBSET (1..n) : S # {} /\ f[S \ {Top(S)}] \in R =>
       f[S] = gain[Top(S)][f[S \ {Top(S)}]]

(* A fold has the values of its steps, one element after the other.        *)
LEMMA FoldAdvances ==
  ASSUME NEW n \in Nat, NEW R, NEW nought, NEW gain, NEW f, Follows(f, n, nought, gain, R)
  PROVE  \E g \in [0..n -> R] : Advances(g, n, nought, gain) /\ f[1..n] = g[n]
<1>0. /\ f[{}] = nought /\ nought \in R /\ gain \in [1..n -> [R -> R]]
      /\ \A S \in SUBSET (1..n) : S # {} /\ f[S \ {Top(S)}] \in R =>
           f[S] = gain[Top(S)][f[S \ {Top(S)}]]
  BY DEF Follows
<1> DEFINE g == [k \in 0..n |-> f[1..k]]
           G == {k \in Nat : g[k] \in R /\ (k > 0 => g[k] = gain[k][g[k - 1]])}
<1>1. g[0] = nought
  <2>1. 1..0 = {} /\ 0 \in 0..n
    OBVIOUS
  <2> QED
    BY <1>0, <2>1
<1>2. ASSUME NEW k \in 1..n, g[k - 1] \in R PROVE g[k] = gain[k][g[k - 1]] /\ g[k] \in R
  <2>1. 1..k \in SUBSET (1..n) /\ k \in 1..k /\ (1..k) \ {k} = 1..(k - 1) /\ k - 1 \in 0..n /\ k \in 0..n
    OBVIOUS
  <2>2. Top(1..k) \in 1..k /\ \A y \in 1..k : y <= Top(1..k)
    BY <2>1, TopIsLast
  <2>3. Top(1..k) = k
    BY <2>1, <2>2
  <2>4. g[k] = f[1..k] /\ g[k - 1] = f[1..(k - 1)]
    BY <2>1
  <2> HIDE DEF g
  <2>5. f[(1..k) \ {k}] \in R /\ f[(1..k) \ {k}] = g[k - 1] /\ 1..k # {}
    BY <1>2, <2>1, <2>4
  <2>6. f[1..k] = gain[k][f[(1..k) \ {k}]]
    BY <1>0, <2>1, <2>3, <2>5
  <2>7. g[k] = gain[k][g[k - 1]]
    BY <2>4, <2>5, <2>6
  <2> QED
    BY <1>0, <1>2, <2>1, <2>7
<1>3. \A k \in 0..n : k \in G
  <2> HIDE DEF g
  <2>1. 0 \in G
    BY <1>0, <1>1
  <2>2. ASSUME NEW k \in Nat, k + 1 <= n, k \in G PROVE k + 1 \in G
    <3>1. k + 1 \in 1..n /\ (k + 1) - 1 = k
      BY <2>2
    <3> QED
      BY <1>2, <2>2, <3>1
  <2> HIDE DEF G
  <2> QED
    BY <2>1, <2>2, CountUp
<1>4. g \in [0..n -> R]
  BY <1>3
<1>5. g[n] = f[1..n]
  OBVIOUS
<1>6. \A k \in 1..n : g[k] = gain[k][g[k - 1]]
  <2> HIDE DEF g
  <2>1. \A k \in 1..n : k \in 0..n /\ k > 0
    OBVIOUS
  <2> QED
    BY <1>3, <2>1
<1> HIDE DEF g
<1> QED
  BY <1>1, <1>4, <1>5, <1>6 DEF Advances
=============================================================================
