----------------------------- MODULE DataLemmas -----------------------------
(***************************************************************************)
(* What the proofs need to know of numbers, finite sets and sequences: that *)
(* the functions exist by which the library's folds are defined, and what   *)
(* sums, greatest elements and sequences laid end to end are.  Induction is *)
(* over sets of numbers, or of sets, of which something holds.              *)
(***************************************************************************)
EXTENDS Integers, Sequences, FiniteSets, FiniteSetsExt, SequencesExt,
        FiniteSetTheorems, SequenceTheorems, NaturalsInduction, WellFoundedInduction, TLAPS

-----------------------------------------------------------------------------
(* Induction                                                                *)

LEMMA LeastIsIn ==
    ASSUME NEW I, I \subseteq Nat, I # {}
    PROVE  Min(I) \in I /\ \A j \in I : Min(I) <= j
<1> DEFINE Less == OpToRel(<, Nat)
<1>1. PICK x \in I : \A y \in I : ~ (<<y, x>> \in Less)
  BY WFMin, NatLessThanWellFounded
<1>2. \A y \in Nat, z \in Nat : y < z => <<y, z>> \in Less
  BY Zenon DEF OpToRel
<1>3. \A y \in I : ~ (y < x)
  BY <1>1, <1>2, Zenon
<1>4. \A y \in I : x <= y
  BY <1>3
<1> QED BY <1>4 DEF Min

LEMMA ByInduction ==
    ASSUME NEW S, S \subseteq Nat, 0 \in S, \A n \in Nat : n \in S => n + 1 \in S
    PROVE  \A n \in Nat : n \in S
<1> DEFINE bad == {n \in Nat : n \notin S}
<1> SUFFICES ASSUME bad # {} PROVE FALSE
  OBVIOUS
<1> DEFINE m == Min(bad)
<1>1. m \in bad /\ \A j \in bad : m <= j
  <2>1. bad \subseteq Nat
    OBVIOUS
  <2> HIDE DEF bad
  <2> QED BY <2>1, LeastIsIn
<1> HIDE DEF m
<1>2. m \in Nat /\ m # 0
  BY <1>1
<1>3. m - 1 \in Nat /\ m - 1 \in S
  BY <1>1, <1>2
<1>4. m - 1 + 1 = m
  BY <1>2
<1> QED BY <1>1, <1>3, <1>4

\* f begins with v, and g makes each of its values from the one before.
Recurs(V, v, g, f) == f \in [Nat -> V] /\ f[0] = v /\ \A n \in Nat \ {0} : f[n] = g[n - 1][f[n - 1]]

\* It exists, as the limit of the functions on 0 .. n that do so.
LEMMA RecursionExists ==
    ASSUME NEW V, NEW v, v \in V, NEW g, g \in [Nat -> [V -> V]]
    PROVE  \E f : Recurs(V, v, g, f)
<1> DEFINE A(n) == {h \in [0 .. n -> V] : h[0] = v /\ \A i \in Nat : i < n => h[i + 1] = g[i][h[i]]}
           E == {n \in Nat : \E h : h \in A(n)}
           U == {n \in Nat : \A j \in Nat, k \in Nat : \A h, l : h \in A(j) /\ l \in A(k) /\ n <= j /\ n <= k => h[n] = l[n]}
<1>0. \A n \in Nat : \A h : h \in A(n) <=> h \in [0 .. n -> V] /\ h[0] = v /\ \A i \in Nat : i < n => h[i + 1] = g[i][h[i]]
  OBVIOUS
<1> HIDE DEF A
<1>1. \A n \in Nat : n \in E
  <2>1. 0 \in E
    <3> DEFINE z == [i \in 0 .. 0 |-> v]
    <3>1. z \in [0 .. 0 -> V] /\ z[0] = v /\ \A i \in Nat : ~ (i < 0)
      OBVIOUS
    <3> HIDE DEF z
    <3>2. z \in A(0)
      BY <1>0, <3>1
    <3> QED BY <3>2
  <2>2. ASSUME NEW n \in Nat, n \in E PROVE n + 1 \in E
    <3>1. PICK h : h \in A(n)
      BY <2>2
    <3> DEFINE l == [i \in 0 .. n + 1 |-> IF i = n + 1 THEN g[n][h[n]] ELSE h[i]]
    <3>2. h \in [0 .. n -> V] /\ h[0] = v /\ (\A i \in Nat : i < n => h[i + 1] = g[i][h[i]])
      BY <1>0, <3>1
    <3>3. l \in [0 .. n + 1 -> V] /\ l[0] = v
      <4>1. \A i \in 0 .. n + 1 : i = n + 1 \/ i \in 0 .. n
        OBVIOUS
      <4>2. g[n][h[n]] \in V
        BY <3>2
      <4>3. 0 \in 0 .. n + 1 /\ 0 # n + 1
        OBVIOUS
      <4> QED BY <3>2, <4>1, <4>2, <4>3
    <3>4. \A i \in Nat : i < n + 1 => l[i + 1] = g[i][l[i]]
      <4> SUFFICES ASSUME NEW i \in Nat, i < n + 1 PROVE l[i + 1] = g[i][l[i]]
        OBVIOUS
      <4>1. CASE i = n
        BY <4>1
      <4>2. CASE i # n
        <5>1. i < n /\ i \in 0 .. n + 1 /\ i + 1 \in 0 .. n + 1 /\ i # n + 1 /\ i + 1 # n + 1
          BY <4>2
        <5>2. l[i + 1] = h[i + 1] /\ l[i] = h[i]
          BY <5>1
        <5> QED BY <3>2, <5>1, <5>2
      <4> QED BY <4>1, <4>2
    <3> HIDE DEF l
    <3>5. n + 1 \in Nat
      OBVIOUS
    <3>6. l \in A(n + 1)
      BY <1>0, <3>3, <3>4, <3>5
    <3> QED BY <3>5, <3>6
  <2> HIDE DEF E
  <2>3. E \subseteq Nat
    BY DEF E
  <2> QED BY <2>1, <2>2, <2>3, ByInduction
<1>2. \A n \in Nat : n \in U
  <2>1. 0 \in U
    BY <1>0
  <2>2. ASSUME NEW n \in Nat, n \in U PROVE n + 1 \in U
    <3> SUFFICES ASSUME NEW j \in Nat, NEW k \in Nat, NEW h, NEW l, h \in A(j), l \in A(k), n + 1 <= j, n + 1 <= k
                 PROVE  h[n + 1] = l[n + 1]
      OBVIOUS
    <3>1. n \in Nat /\ n <= j /\ n <= k /\ n < j /\ n < k
      OBVIOUS
    <3>2. h[n] = l[n]
      BY <2>2, <3>1
    <3>3. /\ \A i \in Nat : i < j => h[i + 1] = g[i][h[i]]
          /\ \A i \in Nat : i < k => l[i + 1] = g[i][l[i]]
      BY <1>0
    <3>4. h[n + 1] = g[n][h[n]] /\ l[n + 1] = g[n][l[n]]
      BY <3>1, <3>3
    <3> QED BY <3>2, <3>4
  <2> HIDE DEF U
  <2>3. U \subseteq Nat
    BY DEF U
  <2> QED BY <2>1, <2>2, <2>3, ByInduction
<1> DEFINE c(n) == CHOOSE h : h \in A(n)
           f == [n \in Nat |-> c(n)[n]]
<1>3. \A n \in Nat : c(n) \in A(n)
  BY <1>1
<1> HIDE DEF c, E
<1>4. \A n \in Nat : f[n] \in V
  <2> TAKE n \in Nat
  <2>1. c(n) \in [0 .. n -> V] /\ n \in 0 .. n
    BY <1>0, <1>3
  <2> QED BY <2>1
<1>5. \A n \in Nat : /\ n = 0 => f[n] = v
                     /\ n # 0 => f[n] = g[n - 1][f[n - 1]]
  <2> TAKE n \in Nat
  <2>1. CASE n = 0
    BY <1>0, <1>3, <2>1
  <2>2. CASE n # 0
    <3>1. n - 1 \in Nat /\ n - 1 < n /\ n - 1 <= n /\ n - 1 <= n - 1 /\ n - 1 + 1 = n
      BY <2>2
    <3>2. c(n)[n - 1 + 1] = g[n - 1][c(n)[n - 1]]
      BY <1>0, <1>3, <3>1
    <3>3. c(n)[n - 1] = c(n - 1)[n - 1]
      <4>1. n - 1 \in U
        BY <1>2, <3>1
      <4>2. c(n) \in A(n) /\ c(n - 1) \in A(n - 1)
        BY <1>3, <3>1
      <4> HIDE DEF c
      <4> QED BY <3>1, <4>1, <4>2
    <3> QED BY <2>2, <3>1, <3>2, <3>3
  <2> QED BY <2>1, <2>2
<1>6. f \in [Nat -> V]
  BY <1>4
<1> HIDE DEF f
<1>7. f[0] = v /\ \A n \in Nat \ {0} : f[n] = g[n - 1][f[n - 1]]
  BY <1>5
<1> QED BY <1>6, <1>7 DEF Recurs

-----------------------------------------------------------------------------
(* Finite sets and folds over them                                          *)

\* What a set has lost one element of is smaller by one.
LEMMA OneLess ==
    ASSUME NEW s, IsFiniteSet(s), NEW x \in s
    PROVE  IsFiniteSet(s \ {x}) /\ Cardinality(s) \in Nat \ {0} /\ Cardinality(s \ {x}) = Cardinality(s) - 1
<1>1. Cardinality(s) \in Nat /\ IsFiniteSet(s \ {x}) /\ Cardinality(s \ {x}) = Cardinality(s) - 1
  BY FS_CardinalityType, FS_RemoveElement
<1>2. Cardinality(s) # 0
  BY FS_EmptySet
<1> QED BY <1>1, <1>2

LEMMA AtLeast ==
    ASSUME NEW m \in Nat, NEW n \in Nat, NEW S \in SUBSET (1 .. m), 1 .. n \subseteq S
    PROVE  Cardinality(S) >= n
<1>1. IsFiniteSet(1 .. m) /\ IsFiniteSet(1 .. n) /\ Cardinality(1 .. n) = n
  BY FS_Interval
<1>2a. IsFiniteSet(S)
  BY <1>1, FS_Subset
<1>2. Cardinality(1 .. n) <= Cardinality(S) /\ Cardinality(S) \in Nat
  BY <1>1, <1>2a, FS_Subset, FS_CardinalityType
<1> QED BY <1>1, <1>2

\* Induction over the subsets of a finite set.
LEMMA SetInduction ==
    ASSUME NEW U, IsFiniteSet(U), NEW G, {} \in G,
           \A s \in SUBSET U : s # {} /\ (\A x \in s : s \ {x} \in G) => s \in G
    PROVE  \A s \in SUBSET U : s \in G
<1> DEFINE E == {n \in Nat : \A s \in SUBSET U : Cardinality(s) = n => s \in G}
<1>1. Cardinality({}) = 0
  BY FS_EmptySet
<1>2. \A s \in SUBSET U : IsFiniteSet(s) /\ Cardinality(s) \in Nat /\ (Cardinality(s) = 0 <=> s = {})
  BY FS_Subset, FS_CardinalityType, FS_EmptySet
<1>3. 0 \in E
  BY <1>2
<1>4. ASSUME NEW n \in Nat, n \in E PROVE n + 1 \in E
  <2> SUFFICES ASSUME NEW s \in SUBSET U, Cardinality(s) = n + 1 PROVE s \in G
    OBVIOUS
  <2>1. s # {}
    BY <1>2
  <2>2. ASSUME NEW x \in s PROVE s \ {x} \in G
    <3>1. Cardinality(s \ {x}) = Cardinality(s) - 1
      BY <1>2, OneLess
    <3>2. Cardinality(s \ {x}) = n /\ s \ {x} \in SUBSET U
      BY <3>1
    <3> QED BY <1>4, <3>2
  <2> QED BY <2>1, <2>2
<1> HIDE DEF E
<1>5. E \subseteq Nat
  BY DEF E
<1>6. \A n \in Nat : n \in E
  BY <1>3, <1>4, <1>5, ByInduction
<1> QED BY <1>2, <1>6 DEF E

\* A function of finitely many arguments has finitely many values.
LEMMA FiniteValues ==
    ASSUME NEW S, IsFiniteSet(S), NEW f, DOMAIN f = S, f = [x \in S |-> f[x]]
    PROVE  IsFiniteSet({f[x] : x \in S})
<1> DEFINE T == {f[x] : x \in S}
<1>1. f \in Surjection(S, T)
  <2>1. f \in [S -> T]
    OBVIOUS
  <2>2. \A t \in T : \E s \in S : f[s] = t
    OBVIOUS
  <2> HIDE DEF T
  <2> QED BY <2>1, <2>2 DEF Surjection
<1> HIDE DEF T
<1>2. IsFiniteSet(T)
  BY <1>1, FS_Surjection
<1> QED BY <1>2 DEF T

\* A finite set of numbers has a greatest one.
LEMMA GreatestIs ==
    ASSUME NEW I, IsFiniteSet(I), I \subseteq Nat, I # {}
    PROVE  Max(I) \in I /\ \A x \in I : x <= Max(I)
<1> DEFINE G == {s \in SUBSET I : s # {} => \E m \in s : \A x \in s : m >= x}
<1>1. {} \in G
  OBVIOUS
<1>2. ASSUME NEW s \in SUBSET I, s # {}, \A x \in s : s \ {x} \in G PROVE s \in G
  <2>1. PICK x \in s : TRUE
    BY <1>2
  <2>2. CASE s \ {x} = {}
    <3>1. \A y \in s : x >= y
      BY <2>2
    <3> QED BY <1>2, <3>1
  <2>3. CASE s \ {x} # {}
    <3>1. PICK m \in s \ {x} : \A y \in s \ {x} : m >= y
      BY <1>2, <2>3
    <3>2. m \in Nat /\ x \in Nat
      OBVIOUS
    <3>3. CASE m >= x
      BY <1>2, <3>1, <3>2, <3>3
    <3>4. CASE x >= m
      <4>1. \A y \in s : y = x \/ (y \in Nat /\ m >= y)
        BY <3>1
      <4>2. \A y \in s : x >= y
        BY <3>2, <3>4, <4>1
      <4> QED BY <1>2, <4>2
    <3> QED BY <3>2, <3>3, <3>4
  <2> QED BY <2>2, <2>3
<1> HIDE DEF G
<1>3. I \in G
  BY <1>1, <1>2, SetInduction
<1>4. \E m \in I : \A x \in I : m >= x
  BY <1>3 DEF G
<1>5. Max(I) \in I /\ \A x \in I : Max(I) >= x
  BY <1>4 DEF Max
<1> QED BY <1>5

\* A finite set in some order has each of its elements at one place.
LEMMA OrderIs ==
    ASSUME NEW S, IsFiniteSet(S)
    PROVE  /\ SetToSeq(S) \in [1 .. Cardinality(S) -> S]
           /\ \A x \in S : \E i \in 1 .. Cardinality(S) : SetToSeq(S)[i] = x
           /\ \A i \in 1 .. Cardinality(S), j \in 1 .. Cardinality(S) : SetToSeq(S)[i] = SetToSeq(S)[j] => i = j
<1> DEFINE n == Cardinality(S)
           f == SetToSeq(S)
<1>1. n \in Nat /\ ExistsBijection(1 .. n, S)
  BY FS_CardinalityType
<1>2. PICK b : b \in Bijection(1 .. n, S)
  BY <1>1 DEF ExistsBijection
<1>3. b \in [1 .. n -> S] /\ IsInjective(b)
  BY <1>2 DEF Bijection, Injection
<1>4. f \in [1 .. n -> S] /\ IsInjective(f)
  BY <1>3 DEF SetToSeq
<1>5. f \in Injection(1 .. n, S)
  BY <1>4 DEF Injection
<1>6. IsFiniteSet(1 .. n) /\ Cardinality(1 .. n) = n
  BY <1>1, FS_Interval
<1> HIDE DEF f, n
<1>7. f \in Surjection(1 .. n, S)
  BY <1>5, <1>6, FS_Injection DEF n
<1>8. \A x \in S : \E i \in 1 .. n : f[i] = x
  BY <1>7 DEF Surjection
<1>9. \A i \in 1 .. n, j \in 1 .. n : f[i] = f[j] => i = j
  BY <1>4 DEF IsInjective
<1> QED BY <1>4, <1>8, <1>9 DEF f, n

\* f is the function of which MapThenFoldSet() takes the value, when it chooses
\* elements with c and goes on with g from b.
Folds(S, V, b, g, c, f) ==
  /\ f \in [SUBSET S -> V]
  /\ f = [s \in SUBSET S |-> IF s = {} THEN b ELSE g[c[s]][f[s \ {c[s]}]]]

LEMMA FoldExists ==
    ASSUME NEW S, IsFiniteSet(S), NEW V, NEW b \in V, NEW g \in [S -> [V -> V]],
           NEW c, \A s \in SUBSET S : s # {} => c[s] \in s
    PROVE  \E f : Folds(S, V, b, g, c, f)
<1> DEFINE W == [SUBSET S -> V]
           base == [s \in SUBSET S |-> b]
           next(w) == [s \in SUBSET S |-> IF s = {} THEN b ELSE g[c[s]][w[s \ {c[s]}]]]
           step == [n \in Nat |-> [w \in W |-> next(w)]]
<1>1. base \in W
  OBVIOUS
<1>2. \A w \in W : next(w) \in W
  <2> TAKE w \in W
  <2>1. ASSUME NEW s \in SUBSET S PROVE (IF s = {} THEN b ELSE g[c[s]][w[s \ {c[s]}]]) \in V
    <3>1. CASE s = {}
      BY <3>1
    <3>2. CASE s # {}
      <4>1. c[s] \in S /\ s \ {c[s]} \in SUBSET S
        BY <3>2
      <4>2. w[s \ {c[s]}] \in V /\ g[c[s]] \in [V -> V]
        BY <4>1
      <4> QED BY <3>2, <4>2
    <3> QED BY <3>1, <3>2
  <2> QED BY <2>1
<1>3. step \in [Nat -> [W -> W]] /\ \A n \in Nat : \A w \in W : step[n][w] = next(w)
  BY <1>2
<1>4. \A w : \A s \in SUBSET S : next(w)[s] = IF s = {} THEN b ELSE g[c[s]][w[s \ {c[s]}]]
  OBVIOUS
<1> HIDE DEF W, base, next, step
<1>5. PICK F : Recurs(W, base, step, F)
  <2>1. base \in W /\ step \in [Nat -> [W -> W]]
    BY <1>1, <1>3
  <2> QED BY <2>1, RecursionExists
<1>6. F \in [Nat -> W] /\ F[0] = base /\ \A n \in Nat \ {0} : F[n] = step[n - 1][F[n - 1]]
  BY <1>5 DEF Recurs
<1> DEFINE f == [s \in SUBSET S |-> F[Cardinality(s)][s]]
<1>7. \A s \in SUBSET S : IsFiniteSet(s) /\ Cardinality(s) \in Nat
  BY FS_Subset, FS_CardinalityType
<1>8. f \in [SUBSET S -> V]
  BY <1>6, <1>7 DEF W
<1>9. ASSUME NEW s \in SUBSET S PROVE f[s] = IF s = {} THEN b ELSE g[c[s]][f[s \ {c[s]}]]
  <2>1. CASE s = {}
    <3>1. Cardinality(s) = 0
      BY <2>1, FS_EmptySet
    <3> QED BY <1>6, <2>1, <3>1 DEF base
  <2>2. CASE s # {}
    <3> DEFINE r == s \ {c[s]}
               n == Cardinality(r)
    <3>1. c[s] \in s
      BY <2>2
    <3>2. r \in SUBSET S /\ n \in Nat /\ Cardinality(s) = n + 1
      <4>1. r \in SUBSET S
        OBVIOUS
      <4>2. n = Cardinality(s) - 1
        BY <1>7, <3>1, OneLess
      <4>3. n \in Nat /\ Cardinality(s) \in Nat
        BY <1>7, <4>1
      <4> HIDE DEF n
      <4> QED BY <4>1, <4>2, <4>3
    <3>3. f[s] = F[n + 1][s] /\ f[r] = F[n][r]
      BY <3>2
    <3> HIDE DEF n
    <3>4. F[n + 1] = next(F[n])
      <4> DEFINE m == n + 1
      <4>1. m \in Nat \ {0} /\ m - 1 = n
        BY <3>2
      <4> HIDE DEF m
      <4>2. F[m] = step[n][F[n]]
        BY <1>6, <4>1
      <4> QED BY <1>3, <1>6, <3>2, <4>2 DEF m
    <3>5. next(F[n])[s] = g[c[s]][F[n][r]]
      BY <1>4, <2>2
    <3> QED BY <2>2, <3>3, <3>4, <3>5
  <2> QED BY <2>1, <2>2
<1>10. f = [s \in SUBSET S |-> IF s = {} THEN b ELSE g[c[s]][f[s \ {c[s]}]]]
  <2>1. f = [s \in SUBSET S |-> f[s]]
    BY <1>8
  <2> HIDE DEF f
  <2> QED BY <1>9, <2>1
<1> HIDE DEF f
<1> QED BY <1>8, <1>10 DEF Folds

-----------------------------------------------------------------------------
(* Sums                                                                     *)

\* What MapThenSumSet() is of f's values on S.
SumOf(f, S) == MapThenSumSet(LAMBDA i : f[i], S)

\* p is the function of all its partial sums.
Sums(a, S, p) ==
  /\ p \in [SUBSET S -> Nat]
  /\ p[{}] = 0
  /\ \A s \in SUBSET S : s # {} => p[s] = a[CHOOSE x \in s : TRUE] + p[s \ {CHOOSE x \in s : TRUE}]

LEMMA SumIs ==
    ASSUME NEW S, IsFiniteSet(S), NEW a, \A x \in S : a[x] \in Nat
    PROVE  \E p : Sums(a, S, p) /\ SumOf(a, S) = p[S]
<1> DEFINE c == [s \in SUBSET S |-> CHOOSE x \in s : TRUE]
           g == [x \in S |-> [y \in Nat |-> a[x] + y]]
           h == CHOOSE h : h = [s \in SUBSET S |-> IF s = {} THEN 0
                                  ELSE a[CHOOSE x \in s : TRUE] + h[s \ {CHOOSE x \in s : TRUE}]]
<1>1. \A s \in SUBSET S : s # {} => c[s] \in s /\ c[s] = CHOOSE x \in s : TRUE
  OBVIOUS
<1>2. g \in [S -> [Nat -> Nat]] /\ \A x \in S : \A y \in Nat : g[x][y] = a[x] + y
  OBVIOUS
<1>3. PICK p : Folds(S, Nat, 0, g, c, p)
  <2> HIDE DEF c, g
  <2> QED BY <1>1, <1>2, FoldExists
<1>4. p \in [SUBSET S -> Nat] /\ p = [s \in SUBSET S |-> IF s = {} THEN 0 ELSE g[c[s]][p[s \ {c[s]}]]]
  BY <1>3 DEF Folds
<1> HIDE DEF g
<1>5. p[{}] = 0
  BY <1>4
<1>6. ASSUME NEW s \in SUBSET S, s # {}
      PROVE  p[s] = a[CHOOSE x \in s : TRUE] + p[s \ {CHOOSE x \in s : TRUE}]
  <2>1. c[s] \in S /\ s \ {c[s]} \in SUBSET S
    BY <1>1, <1>6
  <2>2. p[s \ {c[s]}] \in Nat
    BY <1>4, <2>1
  <2>3. p[s] = g[c[s]][p[s \ {c[s]}]]
    BY <1>4, <1>6
  <2>4. p[s] = a[c[s]] + p[s \ {c[s]}]
    BY <1>2, <2>1, <2>2, <2>3
  <2> QED BY <1>1, <1>6, <2>4
<1>7. p = [s \in SUBSET S |-> IF s = {} THEN 0 ELSE a[CHOOSE x \in s : TRUE] + p[s \ {CHOOSE x \in s : TRUE}]]
  <2>1. p = [s \in SUBSET S |-> p[s]]
    BY <1>4
  <2> QED BY <1>5, <1>6, <2>1
<1>8. h = [s \in SUBSET S |-> IF s = {} THEN 0 ELSE a[CHOOSE x \in s : TRUE] + h[s \ {CHOOSE x \in s : TRUE}]]
  BY <1>7, Zenon
<1>9. SumOf(a, S) = h[S]
  BY DEF SumOf, MapThenSumSet, MapThenFoldSet
<1> HIDE DEF h
<1>10. h[S] = p[S]
  <2> DEFINE G == {s \in SUBSET S : h[s] = p[s]}
  <2>1. {} \in G
    BY <1>5, <1>8
  <2>2. ASSUME NEW s \in SUBSET S, s # {}, \A x \in s : s \ {x} \in G PROVE s \in G
    <3>1. c[s] \in s /\ c[s] = CHOOSE x \in s : TRUE
      BY <1>1, <2>2
    <3>2. h[s \ {c[s]}] = p[s \ {c[s]}]
      BY <2>2, <3>1
    <3>3. h[s] = a[c[s]] + h[s \ {c[s]}]
      BY <1>8, <2>2, <3>1
    <3> QED BY <1>6, <2>2, <3>1, <3>2, <3>3
  <2> HIDE DEF G
  <2>3. \A s \in SUBSET S : s \in G
    BY <2>1, <2>2, SetInduction
  <2> QED BY <2>3 DEF G
<1> QED BY <1>4, <1>5, <1>6, <1>9, <1>10 DEF Sums

\* A sum is that of one element, any one, and of the rest.
Splits(a, S, p) == \A s \in SUBSET S : \A x \in s : p[s] = a[x] + p[s \ {x}]

LEMMA SumsSplit ==
    ASSUME NEW S, IsFiniteSet(S), NEW a, \A x \in S : a[x] \in Nat, NEW p, Sums(a, S, p)
    PROVE  Splits(a, S, p)
<1> DEFINE G == {s \in SUBSET S : \A x \in s : p[s] = a[x] + p[s \ {x}]}
           c(s) == CHOOSE x \in s : TRUE
<1>1. {} \in G
  OBVIOUS
<1>2. ASSUME NEW s \in SUBSET S, s # {}, \A x \in s : s \ {x} \in G PROVE s \in G
  <2>1. c(s) \in s /\ p[s] = a[c(s)] + p[s \ {c(s)}]
    BY <1>2 DEF Sums
  <2> HIDE DEF c
  <2>2. ASSUME NEW x \in s PROVE p[s] = a[x] + p[s \ {x}]
    <3>1. CASE x = c(s)
      BY <2>1, <3>1
    <3>2. CASE x # c(s)
      <4> DEFINE r == (s \ {c(s)}) \ {x}
      <4>1. r = (s \ {x}) \ {c(s)} /\ r \in SUBSET S /\ x \in s \ {c(s)} /\ c(s) \in s \ {x} /\ x \in S /\ c(s) \in S
        BY <2>1, <3>2
      <4>2. p[s \ {c(s)}] = a[x] + p[r]
        BY <1>2, <2>1, <4>1
      <4>3. p[s \ {x}] = a[c(s)] + p[r]
        BY <1>2, <4>1
      <4>4. p[r] \in Nat /\ a[x] \in Nat /\ a[c(s)] \in Nat
        BY <4>1 DEF Sums
      <4> QED BY <2>1, <4>2, <4>3, <4>4
    <3> QED BY <3>1, <3>2
  <2> QED BY <2>2
<1> HIDE DEF G
<1>3. \A s \in SUBSET S : s \in G
  BY <1>1, <1>2, SetInduction
<1> QED BY <1>3 DEF G, Splits

\* Sums over the same elements of the same values are the same.
LEMMA SumsAgree ==
    ASSUME NEW S, IsFiniteSet(S), NEW T, IsFiniteSet(T), NEW a, NEW b,
           \A x \in S : a[x] \in Nat, \A x \in T : b[x] \in Nat,
           NEW p, NEW q, Sums(a, S, p), Sums(b, T, q),
           NEW U, U \subseteq S, U \subseteq T, \A x \in U : a[x] = b[x]
    PROVE  p[U] = q[U]
<1> DEFINE G == {s \in SUBSET U : p[s] = q[s]}
<1>1. {} \in G
  BY DEF Sums
<1>2. ASSUME NEW s \in SUBSET U, s # {}, \A x \in s : s \ {x} \in G PROVE s \in G
  <2>1. PICK x \in s : TRUE
    BY <1>2
  <2>2. p[s] = a[x] + p[s \ {x}] /\ q[s] = b[x] + q[s \ {x}]
    <3>1. Splits(a, S, p)
      BY SumsSplit
    <3>2. Splits(b, T, q)
      BY SumsSplit
    <3> QED BY <3>1, <3>2 DEF Splits
  <2> QED BY <1>2, <2>2
<1> HIDE DEF G
<1>3. IsFiniteSet(U)
  BY FS_Subset
<1>4. \A s \in SUBSET U : s \in G
  BY <1>1, <1>2, <1>3, SetInduction
<1> QED BY <1>4 DEF G

\* The sum over no element, over one more and over one less.
LEMMA SumOfNone == ASSUME NEW a PROVE SumOf(a, {}) = 0
<1>1. IsFiniteSet({})
  BY FS_EmptySet
<1>2. PICK p : Sums(a, {}, p) /\ SumOf(a, {}) = p[{}]
  BY <1>1, SumIs
<1> QED BY <1>2 DEF Sums

LEMMA SumOfSplit ==
    ASSUME NEW S, IsFiniteSet(S), NEW a, \A x \in S : a[x] \in Nat
    PROVE  SumOf(a, S) \in Nat /\ \A x \in S : SumOf(a, S) = a[x] + SumOf(a, S \ {x})
<1>1. PICK p : Sums(a, S, p) /\ SumOf(a, S) = p[S]
  BY SumIs
<1>2. p[S] \in Nat
  BY <1>1 DEF Sums
<1>3. ASSUME NEW x \in S PROVE SumOf(a, S) = a[x] + SumOf(a, S \ {x})
  <2> DEFINE T == S \ {x}
  <2>1. IsFiniteSet(T) /\ T \subseteq S /\ \A y \in T : a[y] \in Nat
    BY FS_Subset
  <2>2. p[S] = a[x] + p[T]
    BY <1>1, SumsSplit DEF Splits
  <2> HIDE DEF T
  <2>3. PICK q : Sums(a, T, q) /\ SumOf(a, T) = q[T]
    BY <2>1, SumIs
  <2>4. p[T] = q[T]
    BY <1>1, <2>1, <2>3, SumsAgree
  <2> QED BY <1>1, <2>2, <2>3, <2>4 DEF T
<1> QED BY <1>1, <1>2, <1>3

LEMMA SumOfSame ==
    ASSUME NEW S, IsFiniteSet(S), NEW a, \A x \in S : a[x] \in Nat, NEW b, \A x \in S : a[x] = b[x]
    PROVE  SumOf(a, S) = SumOf(b, S)
<1>1. \A x \in S : b[x] \in Nat
  OBVIOUS
<1>2. PICK p : Sums(a, S, p) /\ SumOf(a, S) = p[S]
  BY SumIs
<1>3. PICK q : Sums(b, S, q) /\ SumOf(b, S) = q[S]
  BY <1>1, SumIs
<1> QED BY <1>1, <1>2, <1>3, SumsAgree

\* The sum over some of the elements is not greater.
LEMMA SumOfMore ==
    ASSUME NEW S, IsFiniteSet(S), NEW a, \A x \in S : a[x] \in Nat, NEW T \in SUBSET S
    PROVE  SumOf(a, T) \in Nat /\ SumOf(a, T) <= SumOf(a, S)
<1> DEFINE G == {s \in SUBSET S : T \subseteq s => SumOf(a, T) <= SumOf(a, s)}
<1>1. \A s \in SUBSET S : IsFiniteSet(s) /\ \A x \in s : a[x] \in Nat
  BY FS_Subset
<1>2. \A s \in SUBSET S : SumOf(a, s) \in Nat
  BY <1>1, SumOfSplit
<1>3. {} \in G
  <2>1. T = {} => SumOf(a, T) <= SumOf(a, {})
    BY <1>2
  <2> QED BY <2>1
<1>4. ASSUME NEW s \in SUBSET S, s # {}, \A x \in s : s \ {x} \in G PROVE s \in G
  <2> SUFFICES ASSUME T \subseteq s PROVE SumOf(a, T) <= SumOf(a, s)
    OBVIOUS
  <2>1. CASE T = s
    BY <1>2, <2>1
  <2>2. CASE T # s
    <3>1. PICK x \in s : x \notin T
      BY <2>2
    <3>2. SumOf(a, T) <= SumOf(a, s \ {x})
      BY <1>4, <3>1
    <3>3. SumOf(a, s) = a[x] + SumOf(a, s \ {x})
      BY <1>1, SumOfSplit
    <3>4. a[x] \in Nat /\ SumOf(a, s \ {x}) \in Nat /\ SumOf(a, T) \in Nat
      BY <1>1, <1>2
    <3> QED BY <3>2, <3>3, <3>4
  <2> QED BY <2>1, <2>2
<1> HIDE DEF G
<1>5. S \in G
  BY <1>3, <1>4, SetInduction
<1> QED BY <1>2, <1>5 DEF G

\* The library's other name of the same sum.
LEMMA SumFunctionIs == ASSUME NEW a, NEW S PROVE SumFunctionOnSet(a, S) = SumOf(a, S)
BY DEF SumFunctionOnSet, FoldFunctionOnSet, SumOf, MapThenSumSet, MapThenFoldSet

-----------------------------------------------------------------------------
(* Remainders                                                               *)

LEMMA Quotients ==
    ASSUME NEW N \in Nat \ {0}, NEW c \in Nat
    PROVE  \E k \in Nat, r \in 0 .. N - 1 : c = N * k + r
<1> DEFINE E == {n \in Nat : \E k \in Nat, r \in 0 .. N - 1 : n = N * k + r}
<1>1. 0 \in E
  <2>1. 0 \in 0 .. N - 1 /\ 0 = N * 0 + 0
    OBVIOUS
  <2> QED BY <2>1
<1>2. ASSUME NEW n \in Nat, n \in E PROVE n + 1 \in E
  <2>1. PICK k \in Nat, r \in 0 .. N - 1 : n = N * k + r
    BY <1>2
  <2>2. CASE r = N - 1
    <3>1. N * (k + 1) = N * k + N
      OBVIOUS
    <3> DEFINE m == k + 1
               z == 0
    <3>2. n + 1 = N * m + z /\ m \in Nat /\ z \in 0 .. N - 1
      BY <2>1, <2>2, <3>1
    <3> HIDE DEF m, z
    <3> QED BY <3>2
  <2>3. CASE r # N - 1
    <3>1. n + 1 = N * k + (r + 1) /\ r + 1 \in 0 .. N - 1
      BY <2>1, <2>3
    <3> QED BY <3>1
  <2> QED BY <2>2, <2>3
<1>3. E \subseteq Nat
  OBVIOUS
<1> HIDE DEF E
<1>4. c \in E
  BY <1>1, <1>2, <1>3, ByInduction
<1> QED BY <1>4 DEF E

LEMMA RemainderIs ==
    ASSUME NEW N \in Nat \ {0}, NEW c \in Nat, NEW k \in Nat, NEW r \in 0 .. N - 1, c = N * k + r
    PROVE  c % N = r
OBVIOUS

\* The remainder goes round.
LEMMA RemainderSteps ==
    ASSUME NEW N \in Nat \ {0}, NEW c \in Nat
    PROVE  /\ c % N \in 0 .. N - 1 /\ (c < N => c % N = c)
           /\ (c + 1) % N = IF c % N = N - 1 THEN 0 ELSE (c % N) + 1
<1>1. PICK k \in Nat, r \in 0 .. N - 1 : c = N * k + r
  BY Quotients
<1>2. c % N = r
  BY <1>1, RemainderIs
<1>3. c < N => c % N = c
  OBVIOUS
<1>4. CASE r = N - 1
  <2>1. N * (k + 1) = N * k + N
    OBVIOUS
  <2>2. c + 1 = N * (k + 1) + 0 /\ k + 1 \in Nat /\ 0 \in 0 .. N - 1 /\ c + 1 \in Nat
    BY <1>1, <1>4, <2>1
  <2>3. (c + 1) % N = 0
    BY <2>2, RemainderIs
  <2> QED BY <1>2, <1>3, <1>4, <2>3
<1>5. CASE r # N - 1
  <2>1. c + 1 = N * k + (r + 1) /\ r + 1 \in 0 .. N - 1 /\ c + 1 \in Nat
    BY <1>1, <1>5
  <2>2. (c + 1) % N = r + 1
    BY <2>1, RemainderIs
  <2> QED BY <1>2, <1>3, <1>5, <2>2
<1> QED BY <1>4, <1>5

-----------------------------------------------------------------------------
(* Sequences                                                                *)

LEMMA Appended ==
    ASSUME NEW S, NEW q \in Seq(S), NEW x \in S
    PROVE  /\ Append(q, x) \in Seq(S) /\ Len(Append(q, x)) = Len(q) + 1 /\ Len(q) \in Nat
           /\ \A i \in 1 .. Len(q) : Append(q, x)[i] = q[i]
           /\ Append(q, x)[Len(q) + 1] = x
BY AppendProperties, LenProperties

\* What a sequence is that ends with another.
LEMMA Concats ==
    ASSUME NEW S, NEW s \in Seq(S), NEW t \in Seq(S)
    PROVE  /\ s \o t \in Seq(S) /\ Len(s \o t) = Len(s) + Len(t) /\ Len(s) \in Nat /\ Len(t) \in Nat
           /\ DOMAIN (s \o t) = 1 .. Len(s) + Len(t)
           /\ DOMAIN s = 1 .. Len(s)
           /\ \A j \in 1 .. Len(s) : (s \o t)[j] = s[j] /\ s[j] \in S
           /\ \A j \in Len(s) + 1 .. Len(s) + Len(t) :
                 (s \o t)[j] = t[j - Len(s)] /\ j - Len(s) \in 1 .. Len(t)
<1>1. Len(s) \in Nat /\ Len(t) \in Nat /\ DOMAIN s = 1 .. Len(s) /\ \A j \in 1 .. Len(s) : s[j] \in S
  BY LenProperties, ElementOfSeq
<1>2. /\ s \o t \in Seq(S) /\ Len(s \o t) = Len(s) + Len(t)
      /\ \A j \in 1 .. Len(s) + Len(t) : (s \o t)[j] = IF j <= Len(s) THEN s[j] ELSE t[j - Len(s)]
  BY ConcatProperties
<1> DEFINE u == s \o t
<1>3. DOMAIN u = 1 .. Len(u)
  BY <1>2, LenProperties
<1> HIDE DEF u
<1> QED BY <1>1, <1>2, <1>3 DEF u

LEMMA NatsAssociate ==
    ASSUME NEW s \in Seq(Nat), NEW t \in Seq(Nat), NEW u \in Seq(Nat)
    PROVE  (s \o t) \o u = s \o (t \o u)
BY ConcatAssociative

\* f[k] is the first k sequences of seqs end to end.
Flattens(S, seqs, f) ==
  /\ f \in [0 .. Len(seqs) -> Seq(S)] /\ f[0] = <<>>
  /\ \A k \in 1 .. Len(seqs) : f[k] = f[k - 1] \o seqs[k]

LEMMA FlattenIs ==
    ASSUME NEW S, NEW seqs \in Seq(Seq(S))
    PROVE  \E f : Flattens(S, seqs, f) /\ FlattenSeq(seqs) = f[Len(seqs)]
<1> DEFINE n == Len(seqs)
           V == Seq(S)
           g == [j \in Nat |-> [x \in V |-> IF j < n THEN x \o seqs[j + 1] ELSE x]]
           c == CHOOSE h : h = [i \in 1 .. Len(seqs) |-> IF i = 1 THEN seqs[i] ELSE h[i - 1] \o seqs[i]]
<1>1. n \in Nat /\ \A j \in 1 .. n : seqs[j] \in V
  BY LenProperties, ElementOfSeq
<1>2. <<>> \in V /\ \A x \in V, y \in V : x \o y \in V /\ <<>> \o x = x
  BY EmptySeq, ConcatProperties, ConcatEmptySeq
<1>3. g \in [Nat -> [V -> V]] /\ \A j \in Nat : j < n => \A x \in V : g[j][x] = x \o seqs[j + 1]
  <2> HIDE DEF V, n
  <2>1. \A j \in Nat : j < n => j + 1 \in 1 .. n
    BY <1>1
  <2>2. \A j \in Nat : \A x \in V : (IF j < n THEN x \o seqs[j + 1] ELSE x) \in V
    BY <1>1, <1>2, <2>1
  <2> QED BY <2>2
<1>4. PICK F : Recurs(V, <<>>, g, F)
  <2> HIDE DEF V, g
  <2> QED BY <1>2, <1>3, RecursionExists
<1> DEFINE f == [k \in 0 .. n |-> F[k]]
<1>5. /\ F \in [Nat -> V] /\ F[0] = <<>>
      /\ \A k \in 1 .. n : F[k] = F[k - 1] \o seqs[k]
  <2>1. F \in [Nat -> V] /\ F[0] = <<>> /\ \A k \in Nat \ {0} : F[k] = g[k - 1][F[k - 1]]
    BY <1>4 DEF Recurs
  <2> HIDE DEF V, g, n
  <2>2. ASSUME NEW k \in 1 .. n PROVE F[k] = F[k - 1] \o seqs[k]
    <3>1. k \in Nat \ {0} /\ k - 1 \in Nat /\ k - 1 < n /\ k - 1 + 1 = k
      BY <1>1
    <3>2. g[k - 1][F[k - 1]] = F[k - 1] \o seqs[k - 1 + 1]
      BY <1>3, <2>1, <3>1
    <3> QED BY <2>1, <3>1, <3>2
  <2> QED BY <2>1, <2>2
<1>6. Flattens(S, seqs, f)
  <2> HIDE DEF V, g, n
  <2>1. f \in [0 .. n -> V] /\ f[0] = <<>> /\ \A k \in 1 .. n : f[k] = f[k - 1] \o seqs[k]
    <3>1. 0 .. n \subseteq Nat /\ 0 \in 0 .. n /\ \A k \in 1 .. n : k \in 0 .. n /\ k - 1 \in 0 .. n
      BY <1>1
    <3> QED BY <1>5, <3>1
  <2> HIDE DEF f
  <2> QED BY <2>1 DEF Flattens, V, n
<1>7. CASE n = 0
  <2>1. seqs = <<>>
    BY <1>7, EmptySeq
  <2>2. FlattenSeq(seqs) = seqs
    BY <1>7 DEF FlattenSeq
  <2>3. f[n] = <<>>
    BY <1>5, <1>7
  <2> QED BY <1>6, <2>1, <2>2, <2>3
<1>8. CASE n # 0
  <2>0. F[1] = seqs[1]
    <3>1. 1 \in 1 .. n /\ 1 - 1 = 0
      BY <1>1, <1>8
    <3>2. F[1] = F[1 - 1] \o seqs[1] /\ seqs[1] \in V
      <4> HIDE DEF n, V
      <4> QED BY <1>1, <1>5, <3>1
    <3>3. <<>> \o seqs[1] = seqs[1]
      <4> HIDE DEF V
      <4> QED BY <1>2, <3>2
    <3> QED BY <1>5, <3>1, <3>2, <3>3
  <2> DEFINE h == [i \in 1 .. n |-> F[i]]
  <2>1. FlattenSeq(seqs) = c[n]
    BY <1>8 DEF FlattenSeq
  <2>2. h = [i \in 1 .. Len(seqs) |-> IF i = 1 THEN seqs[i] ELSE h[i - 1] \o seqs[i]]
    <3>1. ASSUME NEW i \in 1 .. n PROVE F[i] = IF i = 1 THEN seqs[i] ELSE h[i - 1] \o seqs[i]
      <4>1. CASE i = 1
        BY <2>0, <4>1
      <4>2. CASE i # 1
        <5>1. i - 1 \in 1 .. n
          BY <1>1, <4>2
        <5>2. h[i - 1] = F[i - 1]
          BY <5>1
        <5> QED BY <1>5, <4>2, <5>2
      <4> QED BY <4>1, <4>2
    <3> QED BY <3>1
  <2>3. c = [i \in 1 .. Len(seqs) |-> IF i = 1 THEN seqs[i] ELSE c[i - 1] \o seqs[i]]
    BY <2>2, Zenon
  <2> DEFINE E == {k \in Nat : k + 1 <= n => c[k + 1] = F[k + 1]}
  <2> HIDE DEF c, h
  <2>4. 0 \in E
    <3>1. 1 \in 1 .. n
      BY <1>1, <1>8
    <3>2. c[1] = seqs[1]
      BY <2>3, <3>1
    <3>3. 0 + 1 = 1
      OBVIOUS
    <3> QED BY <2>0, <3>2, <3>3
  <2>5. ASSUME NEW k \in Nat, k \in E PROVE k + 1 \in E
    <3> SUFFICES ASSUME k + 1 + 1 <= n PROVE c[k + 1 + 1] = F[k + 1 + 1]
      OBVIOUS
    <3> DEFINE i == k + 1 + 1
    <3>1. i \in 1 .. n /\ i # 1 /\ i - 1 = k + 1 /\ k + 1 <= n
      BY <1>1
    <3>2. c[i] = c[i - 1] \o seqs[i]
      <4> HIDE DEF i
      <4> QED BY <2>3, <3>1
    <3>3. F[i] = F[i - 1] \o seqs[i]
      <4> HIDE DEF i
      <4> QED BY <1>5, <3>1
    <3>4. c[k + 1] = F[k + 1]
      BY <2>5, <3>1
    <3> QED BY <3>1, <3>2, <3>3, <3>4
  <2> HIDE DEF E
  <2>6. E \subseteq Nat
    BY DEF E
  <2>7. \A k \in Nat : k \in E
    BY <2>4, <2>5, <2>6, ByInduction
  <2>8. n - 1 \in Nat /\ n - 1 + 1 <= n /\ n - 1 + 1 = n /\ n \in 0 .. n
    BY <1>1, <1>8
  <2>9. n - 1 \in E
    BY <2>7, <2>8
  <2>10. c[n] = F[n]
    BY <2>8, <2>9 DEF E
  <2> QED BY <1>6, <2>1, <2>8, <2>10
<1> QED BY <1>7, <1>8
=============================================================================
