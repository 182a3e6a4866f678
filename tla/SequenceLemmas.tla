--------------------------- MODULE SequenceLemmas ---------------------------
(***************************************************************************)
(* Facts about naturals, recursive functions and sequences that the proofs *)
(* about the collectors need.  Induction is over sets: a set of naturals   *)
(* that has 0, and n + 1 if it has n, has all.                             *)
(***************************************************************************)
EXTENDS Integers, Sequences, FiniteSets, Functions, SequencesExt, FiniteSetsExt,
        FiniteSetTheorems, SequenceTheorems, WellFoundedInduction, TLAPS

LEMMA LeastNatural ==
    ASSUME NEW S, S \subseteq Nat, S # {}
    PROVE  \E m \in S : \A k \in S : m <= k
<1> DEFINE R == OpToRel(<, Nat)
<1>1. IsWellFoundedOn(R, Nat)
  BY NatLessThanWellFounded
<1>2. \A x, y \in Nat : <<y, x>> \in R <=> y < x
  BY DEF OpToRel
<1> HIDE DEF R
<1>3. PICK m \in S : \A y \in S : ~(<<y, m>> \in R)
  BY <1>1, WFMin
<1>4. \A y \in S : ~(y < m)
  BY <1>2, <1>3, Zenon
<1> QED
  BY <1>4

LEMMA Induction ==
    ASSUME NEW S, 0 \in S, \A n \in Nat : n \in S => n + 1 \in S
    PROVE  \A n \in Nat : n \in S
<1> SUFFICES ASSUME Nat \ S # {}
             PROVE  FALSE
  OBVIOUS
<1>1. PICK m \in Nat \ S : \A k \in Nat \ S : m <= k
  BY LeastNatural
<1>2. m # 0 /\ m - 1 \in Nat
  BY <1>1
<1>3. m - 1 \in S
  BY <1>1, <1>2
<1> QED
  BY <1>2, <1>3

LEMMA MinIsLeast ==
    ASSUME NEW S, S \subseteq Nat, S # {}
    PROVE  Min(S) \in S /\ \A k \in S : Min(S) <= k
<1>1. \E m \in S : \A k \in S : m <= k
  BY LeastNatural
<1> QED
  BY <1>1 DEF Min

LEMMA MaxIsGreatest ==
    ASSUME NEW n \in Nat, NEW S, S \subseteq 0..n, S # {}
    PROVE  Max(S) \in S /\ \A k \in S : k <= Max(S)
<1> DEFINE Below == {i \in 0..n : \A k \in S : k <= i}
<1>1. n \in Below
  OBVIOUS
<1>2. PICK m \in Below : \A i \in Below : m <= i
  <2>1. Below \subseteq Nat /\ Below # {}
    BY <1>1
  <2> HIDE DEF Below
  <2> QED
    BY <2>1, LeastNatural
<1>3. m \in S
  <2> SUFFICES ASSUME m \notin S
               PROVE  FALSE
    OBVIOUS
  <2>1. \A k \in S : k <= m - 1 /\ k \in Nat
    BY <1>2
  <2>2. m - 1 \in 0..n
    <3>1. PICK k : k \in S
      OBVIOUS
    <3>2. k <= m - 1 /\ k \in Nat /\ m \in 0..n
      BY <2>1, <3>1
    <3> QED
      BY <3>2
  <2>3. m - 1 \in Below
    BY <2>1, <2>2
  <2> QED
    BY <1>2, <2>3
<1>4. \E x \in S : \A y \in S : x >= y
  BY <1>2, <1>3
<1>5. Max(S) \in S /\ \A y \in S : Max(S) >= y
  BY <1>4 DEF Max
<1> QED
  BY <1>5

LEMMA MaxOfTwo ==
    ASSUME NEW a \in Nat, NEW b \in Nat
    PROVE  Max({a, b}) = IF b > a THEN b ELSE a
<1> DEFINE Largest(x) == x \in {a, b} /\ \A y \in {a, b} : x >= y
<1>1. \E x : Largest(x)
  OBVIOUS
<1>2. Max({a, b}) = CHOOSE x : Largest(x)
  BY DEF Max
<1>3. Largest(Max({a, b}))
  BY <1>1, <1>2, Zenon
<1> QED
  BY <1>3

\* m is the greatest number in S.
Greatest(m, S) == m \in S /\ \A x \in S : x <= m

LEMMA MaxIs ==
    ASSUME NEW S, S \subseteq Nat, NEW m, Greatest(m, S)
    PROVE  Max(S) = m
<1>1. m \in S /\ \A y \in S : m >= y
  BY DEF Greatest
<1>2. Max(S) \in S /\ \A y \in S : Max(S) >= y
  <2>1. \E x \in S : \A y \in S : x >= y
    BY <1>1
  <2> QED
    BY <2>1 DEF Max
<1>3. Max(S) >= m /\ m >= Max(S) /\ m \in Nat /\ Max(S) \in Nat
  BY <1>1, <1>2
<1> HIDE <1>1, <1>2
<1> QED
  BY <1>3

\* The greater of the greatest and one number more.
LEMMA GreatestOfMore ==
    ASSUME NEW S, S \subseteq Nat, NEW m, Greatest(m, S), NEW x \in Nat
    PROVE  Greatest(Max({m, x}), S \cup {x})
<1>1. m \in Nat
  BY DEF Greatest
<1>2. Max({m, x}) = IF x > m THEN x ELSE m
  BY <1>1, MaxOfTwo
<1> QED
  BY <1>1, <1>2 DEF Greatest

LEMMA MinIs ==
    ASSUME NEW S, S \subseteq Nat, NEW m \in S, \A x \in S : m <= x
    PROVE  Min(S) = m
<1>1. Min(S) \in S /\ \A y \in S : Min(S) <= y
  BY MinIsLeast
<1>2. Min(S) <= m /\ m <= Min(S) /\ m \in Nat /\ Min(S) \in Nat
  BY <1>1
<1> HIDE <1>1
<1> QED
  BY <1>2

-----------------------------------------------------------------------------
(* Recursive functions.                                                    *)

\* f goes from base as h says, step by step up to n, inside V.
Solves(f, V, base, n, h) ==
    /\ f \in [0..n -> V]
    /\ f[0] = base
    /\ \A i \in 1..n : f[i] = h[i][f[i - 1]]

\* Every recursion over 0..n has a solution.
LEMMA Recursion ==
    ASSUME NEW V, NEW base \in V, NEW n \in Nat, NEW h \in [1..n -> [V -> V]]
    PROVE  \E f : Solves(f, V, base, n, h)
<1> DEFINE S == {k \in Nat : k <= n => \E f : Solves(f, V, base, k, h)}
<1>1. 0 \in S
  <2>1. Solves([i \in 0..0 |-> base], V, base, 0, h)
    BY DEF Solves
  <2> QED
    BY <2>1
<1>2. ASSUME NEW k \in Nat, k \in S
      PROVE  k + 1 \in S
  <2> SUFFICES ASSUME k + 1 <= n
               PROVE  \E f : Solves(f, V, base, k + 1, h)
    OBVIOUS
  <2>1. PICK f : Solves(f, V, base, k, h)
    BY <1>2
  <2> DEFINE g == [i \in 0..(k + 1) |-> IF i = k + 1 THEN h[i][f[k]] ELSE f[i]]
  <2>2. f[k] \in V /\ h[k + 1] \in [V -> V]
    BY <2>1 DEF Solves
  <2>3. g \in [0..(k + 1) -> V] /\ g[0] = base
    BY <2>1, <2>2 DEF Solves
  <2>4. ASSUME NEW i \in 1..(k + 1)
        PROVE  g[i] = h[i][g[i - 1]]
    <3>1. CASE i = k + 1
      BY <3>1, <2>2
    <3>2. CASE i \in 1..k
      BY <3>2, <2>1 DEF Solves
    <3> QED
      BY <3>1, <3>2
  <2>5. Solves(g, V, base, k + 1, h)
    BY <2>3, <2>4 DEF Solves
  <2> QED
    BY <2>5
<1> HIDE DEF S
<1>3. n \in S
  BY <1>1, <1>2, Induction
<1> QED
  BY <1>3 DEF S

\* g goes over the sets of positions, the greatest first, inside W.
FoldsTo(g, W, base, n, h) ==
    /\ g \in [SUBSET (1..n) -> W]
    /\ g[{}] = base
    /\ \A s \in SUBSET (1..n) : s # {} => g[s] = h[Max(s)][g[s \ {Max(s)}]]

\* The recursion of FoldLeft has a solution.
LEMMA FoldExists ==
    ASSUME NEW W, NEW base \in W, NEW n \in Nat, NEW h \in [1..n -> [W -> W]]
    PROVE  \E g : FoldsTo(g, W, base, n, h)
<1> DEFINE P == SUBSET (1..n)
           V == [P -> W]
           start == [s \in P |-> base]
           hh == [k \in 1..n |-> [G \in V |->
                   [s \in P |-> IF k \in s THEN h[k][G[s \ {k}]] ELSE G[s]]]]
<1>1. start \in V
  OBVIOUS
<1>2. hh \in [1..n -> [V -> V]]
  <2>1. ASSUME NEW k \in 1..n, NEW G \in V
        PROVE  [s \in P |-> IF k \in s THEN h[k][G[s \ {k}]] ELSE G[s]] \in V
    <3> SUFFICES ASSUME NEW s \in P
                 PROVE  (IF k \in s THEN h[k][G[s \ {k}]] ELSE G[s]) \in W
      OBVIOUS
    <3>1. s \ {k} \in P
      OBVIOUS
    <3>2. G[s \ {k}] \in W /\ G[s] \in W /\ h[k] \in [W -> W]
      BY <3>1
    <3> QED
      BY <3>2
  <2> HIDE DEF V
  <2> QED
    BY <2>1
<1> HIDE DEF start, hh
<1>3. PICK f : Solves(f, V, start, n, hh)
  BY <1>1, <1>2, Recursion, Zenon
<1>4. ASSUME NEW k \in 1..n, NEW s \in P
      PROVE  f[k][s] = IF k \in s THEN h[k][f[k - 1][s \ {k}]] ELSE f[k - 1][s]
  <2> HIDE DEF V
  <2>1. f[k - 1] \in V /\ f[k] = hh[k][f[k - 1]]
    BY <1>3 DEF Solves
  <2>2. f[k] = [t \in P |-> IF k \in t THEN h[k][f[k - 1][t \ {k}]] ELSE f[k - 1][t]]
    BY <2>1 DEF hh
  <2> QED
    BY <2>2
\* What a set has no positions for changes nothing.
<1>5. \A k \in 0..n : \A j \in 0..k : \A s \in SUBSET (1..j) : f[k][s] = f[j][s]
  <2> DEFINE T == {k \in Nat : k <= n =>
                     \A j \in 0..k : \A s \in SUBSET (1..j) : f[k][s] = f[j][s]}
  <2>1. 0 \in T
    OBVIOUS
  <2>2. ASSUME NEW k \in Nat, k \in T
        PROVE  k + 1 \in T
    <3> SUFFICES ASSUME k + 1 <= n, NEW j \in 0..(k + 1), NEW s \in SUBSET (1..j)
                 PROVE  f[k + 1][s] = f[j][s]
      OBVIOUS
    <3>1. CASE j = k + 1
      BY <3>1
    <3>2. CASE j \in 0..k
      <4>1. k + 1 \in 1..n /\ s \in P /\ k + 1 \notin s /\ (k + 1) - 1 = k
        BY <3>2
      <4>2. f[k + 1][s] = f[k][s]
        BY <1>4, <4>1
      <4>3. f[k][s] = f[j][s]
        BY <2>2, <3>2
      <4> QED
        BY <4>2, <4>3
    <3> QED
      BY <3>1, <3>2
  <2> HIDE DEF T
  <2>3. \A k \in Nat : k \in T
    BY <2>1, <2>2, Induction
  <2> QED
    BY <2>3 DEF T
<1>6. f[n] \in V
  <2> HIDE DEF V
  <2> QED
    BY <1>3 DEF Solves
<1>7. f[n][{}] = base
  <2>1. f[n][{}] = f[0][{}]
    BY <1>5
  <2> QED
    BY <1>3, <2>1 DEF Solves, start
<1>8. ASSUME NEW s \in P, s # {}
      PROVE  f[n][s] = h[Max(s)][f[n][s \ {Max(s)}]]
  <2> DEFINE m == Max(s)
             r == s \ {m}
  <2>1. m \in s /\ \A k \in s : k <= m
    <3>1. s \subseteq 0..n
      OBVIOUS
    <3> QED
      BY <1>8, <3>1, MaxIsGreatest
  <2> HIDE DEF m
  <2>2. m \in 1..n /\ s \in SUBSET (1..m) /\ r \in SUBSET (1..(m - 1)) /\ m - 1 \in 0..n
    BY <2>1
  <2>3. f[n][s] = f[m][s] /\ f[n][r] = f[m - 1][r]
    BY <1>5, <2>2
  <2>4. f[m][s] = h[m][f[m - 1][r]]
    BY <1>4, <2>1, <2>2
  <2> QED
    BY <2>3, <2>4 DEF m
<1> QED
  BY <1>6, <1>7, <1>8 DEF FoldsTo

\* The recursion of FlattenSeq: its value is that of any function that goes
\* the same way.
LEMMA FlattenIs ==
    ASSUME NEW S, NEW ss \in Seq(Seq(S)),
           NEW f \in [0..Len(ss) -> Seq(S)], f[0] = <<>>,
           \A i \in 1..Len(ss) : f[i] = f[i - 1] \o ss[i]
    PROVE  FlattenSeq(ss) = f[Len(ss)]
<1> DEFINE n == Len(ss)
           Goes(g) == g = [i \in 1..n |-> IF i = 1 THEN ss[i] ELSE g[i - 1] \o ss[i]]
           flatten == CHOOSE g : Goes(g)
<1>1. CASE n = 0
  BY <1>1 DEF FlattenSeq
<1>2. CASE n # 0
  <2>1. FlattenSeq(ss) = flatten[n]
    BY <1>2 DEF FlattenSeq
  <2>2. n \in Nat \ {0}
    BY <1>2
  <2> DEFINE e == [i \in 1..n |-> f[i]]
  <2>3. ASSUME NEW i \in 1..n
        PROVE  e[i] = IF i = 1 THEN ss[i] ELSE e[i - 1] \o ss[i]
    <3>1. CASE i = 1
      <4>1. 1 \in 1..n /\ 1 - 1 = 0
        BY <2>2
      <4>2. ss[1] \in Seq(S)
        BY <4>1, ElementOfSeq
      <4>3. f[1] = <<>> \o ss[1]
        BY <4>1
      <4>4. f[1] = ss[1]
        BY <4>2, <4>3
      <4> QED
        BY <3>1, <4>4
    <3>2. CASE i # 1
      <4>1. i - 1 \in 1..n
        BY <2>2, <3>2
      <4>2. f[i] = f[i - 1] \o ss[i]
        OBVIOUS
      <4> QED
        BY <3>2, <4>1, <4>2
    <3> QED
      BY <3>1, <3>2
  <2>4. Goes(e)
    BY <2>3
  <2>5. Goes(flatten)
    BY <2>4
  <2> HIDE DEF flatten
  <2>6. \A i \in 1..n : flatten[i] = IF i = 1 THEN ss[i] ELSE flatten[i - 1] \o ss[i]
    BY <2>5
  <2>7. \A i \in 1..n : e[i] = IF i = 1 THEN ss[i] ELSE e[i - 1] \o ss[i]
    BY <2>3
  <2>8. e[n] = f[n]
    BY <2>2
  <2> HIDE DEF e
  <2> DEFINE T == {k \in Nat : k \in 1..n => flatten[k] = e[k]}
  <2>9. 0 \in T
    OBVIOUS
  <2>10. ASSUME NEW k \in Nat, k \in T
         PROVE  k + 1 \in T
    BY <2>2, <2>6, <2>7, <2>10
  <2> HIDE DEF T
  <2>11. n \in T
    BY <2>2, <2>9, <2>10, Induction
  <2> QED
    BY <2>1, <2>2, <2>8, <2>11 DEF T
<1> QED
  BY <1>1, <1>2

LEMMA FlattenEmpty == FlattenSeq(<<>>) = <<>>
  BY DEF FlattenSeq

\* A sequence more at the end.
LEMMA FlattenAppend ==
    ASSUME NEW S, NEW ss \in Seq(Seq(S)), NEW t \in Seq(S)
    PROVE  /\ FlattenSeq(ss) \in Seq(S)
           /\ FlattenSeq(Append(ss, t)) = FlattenSeq(ss) \o t
<1> DEFINE n == Len(ss)
           tt == Append(ss, t)
           h == [i \in 1..(n + 1) |-> [v \in Seq(S) |-> v \o tt[i]]]
<1>1. /\ tt \in Seq(Seq(S)) /\ Len(tt) = n + 1 /\ n \in Nat
      /\ tt[n + 1] = t /\ \A i \in 1..n : tt[i] = ss[i]
  OBVIOUS
<1>2. h \in [1..(n + 1) -> [Seq(S) -> Seq(S)]]
  BY <1>1
<1>3. <<>> \in Seq(S)
  OBVIOUS
<1> HIDE DEF tt, n, h
<1>4. PICK f : Solves(f, Seq(S), <<>>, n + 1, h)
  <2>1. n + 1 \in Nat
    BY <1>1
  <2> QED
    BY <1>2, <1>3, <2>1, Recursion, Zenon
<1>5. \A i \in 1..(n + 1) : f[i] = f[i - 1] \o tt[i]
  <2> SUFFICES ASSUME NEW i \in 1..(n + 1)
               PROVE  f[i] = f[i - 1] \o tt[i]
    OBVIOUS
  <2>1. f[i - 1] \in Seq(S)
    BY <1>1, <1>4 DEF Solves
  <2> QED
    BY <1>4, <2>1 DEF Solves, h
<1>6. FlattenSeq(tt) = f[n + 1]
  <2>1. f \in [0..Len(tt) -> Seq(S)] /\ \A i \in 1..Len(tt) : f[i] = f[i - 1] \o tt[i]
    BY <1>1, <1>4, <1>5 DEF Solves
  <2>2. FlattenSeq(tt) = f[Len(tt)]
    BY <1>1, <1>4, <2>1, FlattenIs, Zenon DEF Solves
  <2> QED
    BY <1>1, <2>2
<1>7. FlattenSeq(ss) = f[n]
  <2> DEFINE e == [i \in 0..n |-> f[i]]
  <2>1. e \in [0..n -> Seq(S)] /\ e[0] = <<>>
    BY <1>1, <1>4 DEF Solves
  <2>2. ASSUME NEW i \in 1..n
        PROVE  e[i] = e[i - 1] \o ss[i]
    <3>1. i \in 1..(n + 1) /\ i - 1 \in 0..n /\ i \in 0..n
      BY <1>1
    <3>2. f[i] = f[i - 1] \o tt[i] /\ tt[i] = ss[i]
      BY <1>1, <1>5, <3>1
    <3> QED
      BY <3>1, <3>2
  <2> HIDE DEF e
  <2>3. FlattenSeq(ss) = e[n]
    BY <2>1, <2>2, FlattenIs DEF n
  <2> QED
    BY <1>1, <2>3 DEF e
<1>8. f[n + 1] = f[n] \o t
  <2>1. n + 1 \in 1..(n + 1) /\ (n + 1) - 1 = n
    BY <1>1
  <2>2. f[n + 1] = f[(n + 1) - 1] \o tt[n + 1]
    BY <1>5, <2>1
  <2> QED
    BY <1>1, <2>1, <2>2
<1>9. f[n] \in Seq(S)
  BY <1>1, <1>4 DEF Solves
<1> QED
  BY <1>6, <1>7, <1>8, <1>9 DEF tt

-----------------------------------------------------------------------------
(* A finite set of naturals in order.                                      *)

\* s is the members of S, each once, from the least to the greatest.
Enumerates(s, S) ==
    /\ s \in [1..Cardinality(S) -> S]
    /\ \A i, j \in 1..Cardinality(S) : i < j => s[i] < s[j]

LEMMA EnumerationExists ==
    ASSUME NEW S \in SUBSET Nat, IsFiniteSet(S)
    PROVE  \E s : Enumerates(s, S)
<1> DEFINE T == {n \in Nat : \A X \in SUBSET Nat :
                   IsFiniteSet(X) /\ Cardinality(X) = n => \E s : Enumerates(s, X)}
<1>1. 0 \in T
  <2> SUFFICES ASSUME NEW X \in SUBSET Nat, IsFiniteSet(X), Cardinality(X) = 0
               PROVE  \E s : Enumerates(s, X)
    OBVIOUS
  <2>1. Enumerates([i \in 1..0 |-> 0], X)
    BY DEF Enumerates
  <2> QED
    BY <2>1
<1>2. ASSUME NEW n \in Nat, n \in T
      PROVE  n + 1 \in T
  <2> SUFFICES ASSUME NEW X \in SUBSET Nat, IsFiniteSet(X), Cardinality(X) = n + 1
               PROVE  \E s : Enumerates(s, X)
    OBVIOUS
  <2>1. X # {}
    BY FS_EmptySet
  <2>2. PICK m \in X : \A k \in X : m <= k
    BY <2>1, LeastNatural
  <2>3. IsFiniteSet(X \ {m}) /\ Cardinality(X \ {m}) = n
    <3>1. IsFiniteSet(X \ {m}) /\ Cardinality(X \ {m}) = Cardinality(X) - 1
      BY FS_RemoveElement
    <3> QED
      BY <3>1
  <2>4. PICK r : Enumerates(r, X \ {m})
    BY <1>2, <2>3
  <2>5. /\ r \in [1..n -> X \ {m}]
        /\ \A i, j \in 1..n : i < j => r[i] < r[j]
    BY <2>3, <2>4 DEF Enumerates
  <2> DEFINE s == [i \in 1..(n + 1) |-> IF i = 1 THEN m ELSE r[i - 1]]
  <2>6. s \in [1..(n + 1) -> X]
    BY <2>5
  <2>7. ASSUME NEW i \in 1..(n + 1), NEW j \in 1..(n + 1), i < j
        PROVE  s[i] < s[j]
    <3>1. j - 1 \in 1..n /\ s[j] = r[j - 1] /\ r[j - 1] \in X \ {m}
      BY <2>5, <2>7
    <3>2. CASE i = 1
      <4>1. s[i] = m /\ m <= s[j] /\ m # s[j] /\ m \in Nat /\ s[j] \in Nat
        BY <2>2, <3>1, <3>2
      <4> HIDE DEF s
      <4> QED
        BY <4>1
    <3>3. CASE i # 1
      <4>1. i - 1 \in 1..n /\ s[i] = r[i - 1] /\ i - 1 < j - 1
        BY <2>7, <3>3
      <4> QED
        BY <2>5, <3>1, <4>1
    <3> QED
      BY <3>2, <3>3
  <2> HIDE DEF s
  <2>8. Enumerates(s, X)
    BY <2>6, <2>7 DEF Enumerates
  <2> QED
    BY <2>8
<1> HIDE DEF T
<1>3. Cardinality(S) \in Nat
  BY FS_CardinalityType
<1>4. Cardinality(S) \in T
  BY <1>1, <1>2, <1>3, Induction
<1> QED
  BY <1>4 DEF T

LEMMA EnumerationCovers ==
    ASSUME NEW S \in SUBSET Nat, IsFiniteSet(S), NEW s, Enumerates(s, S)
    PROVE  /\ s \in Seq(S)
           /\ Len(s) = Cardinality(S)
           /\ \A i, j \in 1..Len(s) : s[i] = s[j] => i = j
           /\ \A x \in S : \E i \in 1..Len(s) : s[i] = x
<1> DEFINE n == Cardinality(S)
<1>1. n \in Nat /\ IsFiniteSet(1..n) /\ Cardinality(1..n) = n
  BY FS_CardinalityType, FS_Interval
<1> HIDE DEF n
<1>2. /\ s \in [1..n -> S]
      /\ \A i, j \in 1..n : i < j => s[i] < s[j]
  BY DEF Enumerates, n
<1>3. ASSUME NEW i \in 1..n, NEW j \in 1..n, s[i] = s[j]
      PROVE  i = j
  <2>1. s[i] \in Nat /\ s[j] \in Nat
    BY <1>2
  <2>2. ~(i < j) /\ ~(j < i)
    BY <1>2, <1>3, <2>1
  <2> QED
    BY <1>1, <2>2
<1>4. s \in Injection(1..n, S)
  BY <1>2, <1>3 DEF Injection, IsInjective
<1>5. s \in Surjection(1..n, S)
  BY <1>1, <1>4, FS_Injection DEF n
<1>6. \A x \in S : \E i \in 1..n : s[i] = x
  BY <1>5 DEF Surjection
<1>7. s \in Seq(S) /\ Len(s) = n
  BY <1>1, <1>2
<1> QED
  BY <1>3, <1>6, <1>7 DEF n
=============================================================================
