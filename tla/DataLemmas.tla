----------------------------- MODULE DataLemmas -----------------------------
(* Induction over data.  The library's induction theorems are about any    *)
(* operator P(_); here their content is taken from the least element of a  *)
(* set of counterexamples, which needs no operator.                        *)
EXTENDS Integers, Sequences, FiniteSets, Functions, Filter, FiniteSetTheorems,
        WellFoundedInduction, TLAPS

\* Every set of natural numbers that has an element has a least one.
LEMMA LeastNumber ==
  ASSUME NEW T, T \subseteq Nat, T # {}
  PROVE  \E m \in T : \A k \in T : m <= k
<1>1. IsWellFoundedOn(OpToRel(<, Nat), Nat)
  BY NatLessThanWellFounded
<1>2. PICK x \in T : \A y \in T : ~ (<<y, x>> \in OpToRel(<, Nat))
  BY <1>1, WFMin
<1>3. \A y \in T : ~(y < x)
  BY <1>2 DEF OpToRel
<1> QED
  BY <1>3

(* Induction: a set of naturals that has zero, and with each number the    *)
(* next one, has them all.                                                 *)
LEMMA InductiveSet ==
  ASSUME NEW A, 0 \in A, \A n \in Nat : n \in A => n + 1 \in A
  PROVE  Nat \subseteq A
<1> SUFFICES ASSUME Nat \ A # {} PROVE FALSE
  OBVIOUS
<1>1. PICK m \in Nat \ A : \A k \in Nat \ A : m <= k
  BY LeastNumber
<1>2. m # 0 /\ m - 1 \in Nat /\ ~(m <= m - 1)
  BY <1>1
<1>3. m - 1 \in A
  BY <1>1, <1>2
<1>4. (m - 1) + 1 \in A /\ (m - 1) + 1 = m
  BY <1>2, <1>3
<1> QED
  BY <1>4
-----------------------------------------------------------------------------
(* The sum of a function over the finite set S, element by element.        *)
ElementOf(s) == CHOOSE x \in s : TRUE
Summand(f, g, s) == IF s = {} THEN 0 ELSE f[ElementOf(s)] + g[s \ {ElementOf(s)}]

\* g has the sum of f over each subset of S.
IsSum(S, f, g) == g = [s \in SUBSET S |-> Summand(f, g, s)]

LEMMA OneLess ==
  ASSUME NEW s, IsFiniteSet(s), s # {}
  PROVE  /\ ElementOf(s) \in s /\ IsFiniteSet(s \ {ElementOf(s)})
         /\ Cardinality(s) \in Nat
         /\ Cardinality(s \ {ElementOf(s)}) = Cardinality(s) - 1
         /\ Cardinality(s \ {ElementOf(s)}) \in Nat
<1>1. ElementOf(s) \in s
  BY DEF ElementOf
<1>2. IsFiniteSet(s \ {ElementOf(s)}) /\ Cardinality(s \ {ElementOf(s)}) = Cardinality(s) - 1
  BY <1>1, FS_RemoveElement
<1> QED
  BY <1>1, <1>2, FS_CardinalityType

\* There is a function that has the sum of f over each subset of S.
LEMMA SumExists ==
  ASSUME NEW S, IsFiniteSet(S), NEW f \in [S -> Int]
  PROVE  \E g : IsSum(S, f, g)
<1> DEFINE Sub(n) == {s \in SUBSET S : Cardinality(s) <= n}
           Sums(n, g) == g = [s \in Sub(n) |-> Summand(f, g, s)]
           A == {n \in Nat : \E g : Sums(n, g)}
<1>0. \A s \in SUBSET S : IsFiniteSet(s) /\ Cardinality(s) \in Nat /\ Cardinality(s) <= Cardinality(S)
  BY FS_Subset, FS_CardinalityType
<1>1. 0 \in A
  <2> DEFINE g == [s \in Sub(0) |-> 0]
  <2>1. \A s \in Sub(0) : s = {}
    BY <1>0, FS_EmptySet
  <2>2. \A s \in Sub(0) : Summand(f, g, s) = 0
    BY <2>1 DEF Summand
  <2>3. Sums(0, g)
    BY <2>2
  <2> QED
    BY <2>3
<1>2. ASSUME NEW n \in Nat, n \in A PROVE n + 1 \in A
  <2>1. PICK g : Sums(n, g)
    BY <1>2
  <2> DEFINE h == [s \in Sub(n + 1) |-> Summand(f, g, s)]
  <2>2. \A s \in Sub(n + 1) : Summand(f, h, s) = Summand(f, g, s)
    <3> SUFFICES ASSUME NEW s \in Sub(n + 1) PROVE Summand(f, h, s) = Summand(f, g, s)
      OBVIOUS
    <3>0. CASE s = {}
      BY <3>0 DEF Summand
    <3> SUFFICES ASSUME s # {} PROVE h[s \ {ElementOf(s)}] = g[s \ {ElementOf(s)}]
      BY <3>0 DEF Summand
    <3> DEFINE t == s \ {ElementOf(s)}
    <3>1. Cardinality(t) = Cardinality(s) - 1 /\ Cardinality(s) \in Nat
      BY <1>0, OneLess
    <3>2. t \in Sub(n) /\ t \in Sub(n + 1)
      BY <3>1
    <3>3. h[t] = Summand(f, g, t)
      BY <3>2
    <3>4. g[t] = Summand(f, g, t)
      BY <2>1, <3>2
    <3> QED
      BY <3>3, <3>4
  <2> HIDE DEF h
  <2>3. h = [s \in Sub(n + 1) |-> Summand(f, h, s)]
    BY <2>2 DEF h
  <2>4. Sums(n + 1, h)
    BY <2>3
  <2>5. n + 1 \in Nat
    OBVIOUS
  <2> HIDE DEF Sums
  <2> QED
    BY <2>4, <2>5
<1>3. Cardinality(S) \in A
  <2> HIDE DEF A
  <2>1. Nat \subseteq A
    BY <1>1, <1>2, InductiveSet
  <2> QED
    BY <2>1, FS_CardinalityType
<1>4. PICK g : Sums(Cardinality(S), g)
  BY <1>3
<1>5. Sub(Cardinality(S)) = SUBSET S
  BY <1>0
<1> QED
  BY <1>4, <1>5 DEF IsSum

\* SumFunction is such a function at S.
LEMMA SumUnfolds ==
  ASSUME NEW S, IsFiniteSet(S), NEW f \in [S -> Int]
  PROVE  \E g : g = [s \in SUBSET S |-> Summand(f, g, s)] /\ SumFunction(f) = g[S]
<1> DEFINE it == CHOOSE g : g = [s \in SUBSET S |-> Summand(f, g, s)]
<1>1. it = [s \in SUBSET S |-> Summand(f, it, s)]
  BY SumExists DEF IsSum
<1>2. SumFunction(f) = it[S]
  <2>1. DOMAIN f = S
    OBVIOUS
  <2> QED
    BY <2>1 DEF SumFunction, SumFunctionOnSet, FoldFunctionOnSet, MapThenFoldSet, Summand, ElementOf
<1> HIDE DEF it
<1> QED
  BY <1>1, <1>2

LEMMA OnceMore ==
  ASSUME NEW n \in Nat, NEW a \in Int
  PROVE  n * a \in Int /\ (n + 1) * a = n * a + a /\ 0 * a = 0
BY SMTT(20)

\* A sum lies between as many times the least and the greatest summand.
LEMMA SumBounds ==
  ASSUME NEW S, IsFiniteSet(S), NEW f \in [S -> Int], NEW lo \in Int, NEW hi \in Int,
         \A x \in S : lo <= f[x] /\ f[x] <= hi
  PROVE  /\ SumFunction(f) \in Int
         /\ Cardinality(S) * lo <= SumFunction(f) /\ SumFunction(f) <= Cardinality(S) * hi
<1>1. PICK g : g = [s \in SUBSET S |-> Summand(f, g, s)] /\ SumFunction(f) = g[S]
  BY SumUnfolds
<1> DEFINE Low(n) == n * lo
           High(n) == n * hi
           A == {n \in Nat : \A s \in SUBSET S : Cardinality(s) = n =>
                                g[s] \in Int /\ Low(n) <= g[s] /\ g[s] <= High(n)}
<1>2. \A n \in Nat : /\ Low(n) \in Int /\ Low(n + 1) = Low(n) + lo
                     /\ High(n) \in Int /\ High(n + 1) = High(n) + hi
  BY OnceMore
<1>3. Low(0) = 0 /\ High(0) = 0
  BY OnceMore
<1>4. \A s \in SUBSET S : IsFiniteSet(s)
  BY FS_Subset
<1> HIDE DEF Low, High
<1>5. 0 \in A
  <2>1. \A s \in SUBSET S : Cardinality(s) = 0 => s = {}
    BY <1>4, FS_EmptySet
  <2>2. g[{}] = 0
    BY <1>1 DEF Summand
  <2> QED
    BY <1>3, <2>1, <2>2
<1>6. ASSUME NEW n \in Nat, n \in A PROVE n + 1 \in A
  <2> SUFFICES ASSUME NEW s \in SUBSET S, Cardinality(s) = n + 1
               PROVE  g[s] \in Int /\ Low(n + 1) <= g[s] /\ g[s] <= High(n + 1)
    OBVIOUS
  <2> DEFINE x == ElementOf(s)
             t == s \ {x}
  <2>1. s # {}
    <3>1. n + 1 # 0 /\ Cardinality({}) = 0
      BY FS_EmptySet
    <3> QED
      BY <3>1
  <2>2. x \in s /\ Cardinality(t) = n
    BY <1>4, <2>1, OneLess
  <2>3. g[s] = f[x] + g[t]
    BY <1>1, <2>1 DEF Summand
  <2>4. f[x] \in Int /\ lo <= f[x] /\ f[x] <= hi
    BY <2>2
  <2>5. g[t] \in Int /\ Low(n) <= g[t] /\ g[t] <= High(n)
    BY <1>6, <2>2
  <2> HIDE DEF x, t
  <2> QED
    BY <1>2, <2>3, <2>4, <2>5
<1>7. Cardinality(S) \in A
  <2> HIDE DEF A
  <2>1. Nat \subseteq A
    BY <1>5, <1>6, InductiveSet
  <2> QED
    BY <2>1, FS_CardinalityType
<1> QED
  BY <1>1, <1>7 DEF Low, High

\* A sum of naturals is at least each of them.
LEMMA SumCovers ==
  ASSUME NEW S, IsFiniteSet(S), NEW f \in [S -> Nat], NEW g, IsSum(S, f, g)
  PROVE  g[S] \in Nat /\ \A x \in S : f[x] <= g[S]
<1> DEFINE Good(s) == g[s] \in Nat /\ \A x \in s : f[x] <= g[s]
           A == {n \in Nat : \A s \in SUBSET S : Cardinality(s) = n => Good(s)}
<1>1. \A s \in SUBSET S : IsFiniteSet(s)
  BY FS_Subset
<1>2. 0 \in A
  <2>1. \A s \in SUBSET S : Cardinality(s) = 0 => s = {}
    BY <1>1, FS_EmptySet
  <2>2. g[{}] = 0
    BY DEF IsSum, Summand
  <2> QED
    BY <2>1, <2>2
<1>3. ASSUME NEW n \in Nat, n \in A PROVE n + 1 \in A
  <2> SUFFICES ASSUME NEW s \in SUBSET S, Cardinality(s) = n + 1 PROVE Good(s)
    OBVIOUS
  <2> DEFINE x == ElementOf(s)
             t == s \ {x}
  <2>1. s # {}
    <3>1. n + 1 # 0 /\ Cardinality({}) = 0
      BY FS_EmptySet
    <3> QED
      BY <3>1
  <2>2. x \in s /\ Cardinality(t) = n
    BY <1>1, <2>1, OneLess
  <2>3. g[s] = f[x] + g[t]
    BY <2>1 DEF IsSum, Summand
  <2>4. f[x] \in Nat /\ \A y \in t : f[y] \in Nat
    BY <2>2
  <2>5. g[t] \in Nat /\ \A y \in t : f[y] <= g[t]
    BY <1>3, <2>2
  <2>6. \A y \in s : y = x \/ y \in t
    OBVIOUS
  <2> HIDE DEF x, t
  <2> QED
    BY <2>3, <2>4, <2>5, <2>6
<1>4. Cardinality(S) \in A
  <2> HIDE DEF A
  <2>1. Nat \subseteq A
    BY <1>2, <1>3, InductiveSet
  <2> QED
    BY <2>1, FS_CardinalityType
<1> QED
  BY <1>4
-----------------------------------------------------------------------------
\* Floor division by a positive number, as a product.
LEMMA Division ==
  ASSUME NEW x \in Int, NEW n \in Nat \ {0}
  PROVE  /\ x \div n \in Int /\ n * (x \div n) \in Int
         /\ n * (x \div n) <= x /\ x < n * (x \div n) + n
BY SMTT(20)

(* Among finitely many candidates there is a first one of the largest      *)
(* value.                                                                  *)
LEMMA FirstLargest ==
  ASSUME NEW m \in Nat, NEW C, C \subseteq 0..(m - 1), C # {}, NEW f \in [C -> Int]
  PROVE  \E r \in C : \A q \in C : f[q] < f[r] \/ (f[q] = f[r] /\ r <= q)
<1> DEFINE Below(n) == {q \in C : q < n}
           Best(n, r) == \A q \in Below(n) : f[q] < f[r] \/ (f[q] = f[r] /\ r <= q)
           A == {n \in Nat : Below(n) # {} => \E r \in Below(n) : Best(n, r)}
<1>0. \A q \in C : q \in Nat /\ q < m /\ f[q] \in Int
  OBVIOUS
<1>1. 0 \in A
  <2>1. Below(0) = {}
    <3>1. \A q \in C : ~(q < 0)
      BY <1>0
    <3> QED
      BY <3>1
  <2> QED
    BY <2>1
<1>2. ASSUME NEW n \in Nat, n \in A PROVE n + 1 \in A
  <2>1. Below(n + 1) = IF n \in C THEN Below(n) \cup {n} ELSE Below(n)
    <3>1. \A q \in C : q < n + 1 <=> q < n \/ q = n
      BY <1>0
    <3>2. ~(n < n)
      OBVIOUS
    <3> HIDE <1>0
    <3> QED
      BY <3>1, <3>2
  <2>2. CASE n \notin C
    BY <1>2, <2>1, <2>2
  <2>3. CASE n \in C /\ Below(n) = {}
    <3>1. Below(n + 1) = {n}
      BY <2>1, <2>3
    <3>2. Best(n + 1, n)
      BY <1>0, <2>3, <3>1
    <3> QED
      BY <3>1, <3>2
  <2>4. CASE n \in C /\ Below(n) # {}
    <3>1. PICK r \in Below(n) : Best(n, r)
      BY <1>2, <2>4
    <3>2. CASE f[n] > f[r]
      <4>1. Best(n + 1, n)
        BY <1>0, <2>1, <2>4, <3>1, <3>2
      <4> QED
        BY <2>1, <2>4, <4>1
    <3>3. CASE ~(f[n] > f[r])
      <4>1. Best(n + 1, r)
        BY <1>0, <2>1, <2>4, <3>1, <3>3
      <4> QED
        BY <2>1, <3>1, <4>1
    <3> QED
      BY <3>2, <3>3
  <2> QED
    BY <2>2, <2>3, <2>4
<1>3. m \in A
  <2> HIDE DEF A
  <2> QED
    BY <1>1, <1>2, InductiveSet
<1>4. Below(m) = C
  BY <1>0
<1> QED
  BY <1>3, <1>4
-----------------------------------------------------------------------------
(* Only(s, T), by the prefixes of s.                                       *)
Grown(s, T, g, i) ==
  IF i = 0 THEN <<>> ELSE IF s[i] \in T THEN Append(g[i - 1], s[i]) ELSE g[i - 1]

LEMMA OnlyExists ==
  ASSUME NEW s, NEW T, NEW n \in Nat
  PROVE  \E g : g = [i \in 0..n |-> Grown(s, T, g, i)]
<1> DEFINE Is(m, g) == g = [i \in 0..m |-> Grown(s, T, g, i)]
           A == {m \in Nat : \E g : Is(m, g)}
<1>1. 0 \in A
  <2> DEFINE g == [i \in 0..0 |-> <<>>]
  <2>1. \A i \in 0..0 : Grown(s, T, g, i) = <<>>
    BY DEF Grown
  <2>2. Is(0, g)
    BY <2>1
  <2> QED
    BY <2>2
<1>2. ASSUME NEW m \in Nat, m \in A PROVE m + 1 \in A
  <2>1. PICK g : Is(m, g)
    BY <1>2
  <2> DEFINE h == [i \in 0..(m + 1) |-> IF i = m + 1 THEN Grown(s, T, g, i) ELSE g[i]]
  <2>2. ASSUME NEW i \in 0..(m + 1) PROVE h[i] = Grown(s, T, h, i)
    <3>1. i # 0 => i - 1 \in 0..m /\ h[i - 1] = g[i - 1]
      OBVIOUS
    <3>2. Grown(s, T, h, i) = Grown(s, T, g, i)
      BY <3>1 DEF Grown
    <3>3. i # m + 1 => i \in 0..m /\ h[i] = g[i]
      OBVIOUS
    <3>4. i # m + 1 => g[i] = Grown(s, T, g, i)
      BY <2>1, <3>3
    <3> QED
      BY <3>2, <3>3, <3>4
  <2>3. Is(m + 1, h) /\ m + 1 \in Nat
    BY <2>2
  <2> HIDE DEF h, Is
  <2> QED
    BY <2>3
<1>3. n \in A
  <2> HIDE DEF A
  <2> QED
    BY <1>1, <1>2, InductiveSet
<1> QED
  BY <1>3

LEMMA OnlyUnfolds ==
  ASSUME NEW S, NEW s \in Seq(S), NEW T
  PROVE  \E g : g = [i \in 0..Len(s) |-> Grown(s, T, g, i)] /\ Only(s, T) = g[Len(s)]
<1> DEFINE it == CHOOSE g : g = [i \in 0..Len(s) |-> Grown(s, T, g, i)]
<1>1. it = [i \in 0..Len(s) |-> Grown(s, T, it, i)]
  <2>1. Len(s) \in Nat
    OBVIOUS
  <2> QED
    BY <2>1, OnlyExists
<1>2. Only(s, T) = it[Len(s)]
  BY DEF Only, Grown
<1> HIDE DEF it
<1> QED
  BY <1>1, <1>2

Increasing(s) == \A k, l \in DOMAIN s : k < l => s[k] < s[l]

LEMMA EmptySequence ==
  /\ Len(<<>>) = 0 /\ DOMAIN <<>> = {} /\ Range(<<>>) = {} /\ Increasing(<<>>)
  /\ \A S : <<>> \in Seq(S)
<1>1. Len(<<>>) = 0 /\ DOMAIN <<>> = {} /\ \A S : <<>> \in Seq(S)
  OBVIOUS
<1> QED
  BY <1>1 DEF Range, Increasing

LEMMA OneAppended ==
  ASSUME NEW S, NEW q \in Seq(S), NEW e \in S
  PROVE  /\ Append(q, e) \in Seq(S) /\ Len(Append(q, e)) = Len(q) + 1
         /\ DOMAIN Append(q, e) = DOMAIN q \cup {Len(q) + 1}
         /\ \A k \in DOMAIN q : Append(q, e)[k] = q[k] /\ k \in Nat /\ k < Len(q) + 1
         /\ Append(q, e)[Len(q) + 1] = e
         /\ Range(Append(q, e)) = Range(q) \cup {e}
<1> DEFINE a == Append(q, e)
           n == Len(q)
<1>1. /\ a \in Seq(S) /\ Len(a) = n + 1 /\ n \in Nat
      /\ DOMAIN a = 1..(n + 1) /\ DOMAIN q = 1..n
  OBVIOUS
<1>2. 1..(n + 1) = 1..n \cup {n + 1}
  BY <1>1
<1>3. \A k \in 1..n : a[k] = q[k] /\ k \in Nat /\ k < n + 1
  BY <1>1
<1>4. a[n + 1] = e
  BY <1>1
<1> HIDE DEF a, n
<1>5. Range(a) = Range(q) \cup {e}
  BY <1>1, <1>2, <1>3, <1>4 DEF Range
<1> QED
  BY <1>1, <1>2, <1>3, <1>4, <1>5 DEF a, n

(* Only(s, T) has the elements of s that are in T and no others, is no     *)
(* longer than s, and increases if s does.                                 *)

LEMMA OnlyFilters ==
  ASSUME NEW S, NEW s \in Seq(S), NEW T
  PROVE  /\ Only(s, T) \in Seq(S) /\ Len(Only(s, T)) <= Len(s)
         /\ Range(Only(s, T)) = Range(s) \cap T
<1>1. PICK g : g = [i \in 0..Len(s) |-> Grown(s, T, g, i)] /\ Only(s, T) = g[Len(s)]
  BY OnlyUnfolds
<1> DEFINE Seen(n) == {s[k] : k \in 1..n}
           Good(n) == g[n] \in Seq(S) /\ Len(g[n]) <= n /\ Range(g[n]) = Seen(n) \cap T
           A == {n \in Nat : n <= Len(s) => Good(n)}
<1>2. 0 \in A
  <2>1. g[0] = <<>>
    BY <1>1 DEF Grown
  <2>2. Seen(0) = {}
    OBVIOUS
  <2>3. Good(0)
    <3>1. 0 <= 0
      OBVIOUS
    <3> HIDE DEF Seen
    <3> QED
      BY <2>1, <2>2, <3>1, EmptySequence
  <2> QED
    BY <2>3
<1>3. ASSUME NEW n \in Nat, n \in A PROVE n + 1 \in A
  <2> SUFFICES ASSUME n + 1 <= Len(s) PROVE Good(n + 1)
    OBVIOUS
  <2>1. Good(n) /\ n + 1 \in 0..Len(s) /\ n + 1 \in 1..Len(s) /\ n + 1 # 0 /\ (n + 1) - 1 = n
    BY <1>3
  <2>2. g[n + 1] = IF s[n + 1] \in T THEN Append(g[n], s[n + 1]) ELSE g[n]
    BY <1>1, <2>1 DEF Grown
  <2>3. s[n + 1] \in S /\ Seen(n + 1) = Seen(n) \cup {s[n + 1]}
    BY <2>1
  <2>4. CASE s[n + 1] \in T
    <3> DEFINE e == s[n + 1]
               q == g[n]
    <3>1. g[n + 1] = Append(q, e) /\ q \in Seq(S) /\ e \in S
      BY <2>1, <2>2, <2>3, <2>4
    <3> HIDE DEF e, q
    <3>2. /\ Append(q, e) \in Seq(S) /\ Len(Append(q, e)) = Len(q) + 1
          /\ Range(Append(q, e)) = Range(q) \cup {e}
      BY <3>1, OneAppended
    <3> QED
      BY <2>1, <2>3, <2>4, <3>1, <3>2 DEF e, q
  <2>5. CASE s[n + 1] \notin T
    BY <2>1, <2>2, <2>3, <2>5
  <2> QED
    BY <2>4, <2>5
<1>4. Good(Len(s))
  <2>1. Len(s) \in A
    <3> HIDE DEF A
    <3>1. Nat \subseteq A
      BY <1>2, <1>3, InductiveSet
    <3> QED
      BY <3>1
  <2> QED
    BY <2>1
<1>5. Seen(Len(s)) = Range(s)
  BY DEF Range
<1> QED
  BY <1>1, <1>4, <1>5

LEMMA OnlyIncreases ==
  ASSUME NEW S, S \subseteq Nat, NEW s \in Seq(S), NEW T, Increasing(s)
  PROVE  Increasing(Only(s, T))
<1>1. PICK g : g = [i \in 0..Len(s) |-> Grown(s, T, g, i)] /\ Only(s, T) = g[Len(s)]
  BY OnlyUnfolds
<1> DEFINE Good(n) == /\ g[n] \in Seq(S) /\ Increasing(g[n])
                      /\ \A k \in DOMAIN g[n] : \E l \in 1..n : g[n][k] = s[l]
           A == {n \in Nat : n <= Len(s) => Good(n)}
<1>2. 0 \in A
  <2>1. g[0] = <<>>
    BY <1>1 DEF Grown
  <2>2. Good(0)
    BY <2>1, EmptySequence
  <2> QED
    BY <2>2
<1>3. ASSUME NEW n \in Nat, n \in A PROVE n + 1 \in A
  <2> SUFFICES ASSUME n + 1 <= Len(s) PROVE Good(n + 1)
    OBVIOUS
  <2>1. Good(n) /\ n + 1 \in 0..Len(s) /\ n + 1 \in 1..Len(s) /\ n + 1 # 0 /\ (n + 1) - 1 = n
    BY <1>3
  <2>2. g[n + 1] = IF s[n + 1] \in T THEN Append(g[n], s[n + 1]) ELSE g[n]
    BY <1>1, <2>1 DEF Grown
  <2>3. \A k \in DOMAIN g[n] : g[n][k] < s[n + 1]
    <3> SUFFICES ASSUME NEW k \in DOMAIN g[n] PROVE g[n][k] < s[n + 1]
      OBVIOUS
    <3>1. PICK l \in 1..n : g[n][k] = s[l]
      BY <2>1
    <3> QED
      BY <2>1, <3>1 DEF Increasing
  <2>4. CASE s[n + 1] \in T
    <3> DEFINE e == s[n + 1]
               q == g[n]
    <3>1. g[n + 1] = Append(q, e) /\ q \in Seq(S) /\ e \in S /\ Increasing(q)
      BY <2>1, <2>2, <2>4
    <3>2. \A k \in DOMAIN q : q[k] < e /\ \E l \in 1..(n + 1) : q[k] = s[l]
      BY <2>1, <2>3
    <3>3. e = s[n + 1]
      OBVIOUS
    <3> HIDE DEF e, q
    <3>4. /\ Append(q, e) \in Seq(S) /\ Increasing(Append(q, e))
          /\ \A k \in DOMAIN Append(q, e) : \E l \in 1..(n + 1) : Append(q, e)[k] = s[l]
      <4>1. /\ Append(q, e) \in Seq(S)
            /\ DOMAIN Append(q, e) = DOMAIN q \cup {Len(q) + 1}
            /\ \A k \in DOMAIN q : Append(q, e)[k] = q[k] /\ k \in Nat /\ k < Len(q) + 1
            /\ Append(q, e)[Len(q) + 1] = e
        BY <3>1, OneAppended
      <4>2. Len(q) \in Nat
        BY <3>1
      <4>3. Increasing(Append(q, e))
        BY <3>1, <3>2, <4>1, <4>2 DEF Increasing
      <4>4. \A k \in DOMAIN Append(q, e) : \E l \in 1..(n + 1) : Append(q, e)[k] = s[l]
        BY <3>2, <3>3, <4>1
      <4> QED
        BY <4>1, <4>3, <4>4
    <3> QED
      BY <3>1, <3>4
  <2>5. CASE s[n + 1] \notin T
    BY <2>1, <2>2, <2>5
  <2> QED
    BY <2>4, <2>5
<1>4. Good(Len(s))
  <2>1. Len(s) \in A
    <3> HIDE DEF A
    <3>1. Nat \subseteq A
      BY <1>2, <1>3, InductiveSet
    <3> QED
      BY <3>1
  <2> QED
    BY <2>1
<1> QED
  BY <1>1, <1>4
-----------------------------------------------------------------------------
\* A sequence over a set is one over any larger set.
LEMMA Widened ==
  ASSUME NEW S, NEW T, S \subseteq T, NEW s \in Seq(S)
  PROVE  s \in Seq(T)
OBVIOUS

\* What a sequence over S has is in S.
LEMMA RangeWithin ==
  ASSUME NEW S, NEW s \in Seq(S)
  PROVE  Range(s) \subseteq S
BY DEF Range

\* A sequence without elements is empty.
LEMMA RangeEmpty ==
  ASSUME NEW S, NEW s \in Seq(S), Range(s) = {}
  PROVE  s = <<>>
<1>1. Len(s) \in Nat /\ \A k \in 1..Len(s) : s[k] \in Range(s)
  BY DEF Range
<1>2. Len(s) = 0
  <2> SUFFICES ASSUME Len(s) # 0 PROVE FALSE
    OBVIOUS
  <2>1. 1 \in 1..Len(s)
    BY <1>1
  <2> QED
    BY <1>1, <2>1
<1> QED
  BY <1>2

\* What two sequences have, their concatenation has.
LEMMA RangeJoined ==
  ASSUME NEW S, NEW s \in Seq(S), NEW t \in Seq(S)
  PROVE  s \o t \in Seq(S) /\ Range(s \o t) = Range(s) \cup Range(t)
<1> DEFINE m == Len(s)
           n == Len(t)
           u == s \o t
<1>1. /\ u \in Seq(S) /\ Len(u) = m + n /\ m \in Nat /\ n \in Nat
      /\ DOMAIN u = 1..(m + n) /\ DOMAIN s = 1..m /\ DOMAIN t = 1..n
  OBVIOUS
<1>2. \A k \in 1..(m + n) : u[k] = IF k <= m THEN s[k] ELSE t[k - m]
  OBVIOUS
<1> HIDE DEF m, n, u
<1>3. \A k \in 1..m : k \in 1..(m + n) /\ u[k] = s[k]
  BY <1>1, <1>2
<1>4. \A k \in 1..n : k + m \in 1..(m + n) /\ u[k + m] = t[k]
  BY <1>1, <1>2
<1>5. \A k \in 1..(m + n) : u[k] \in Range(s) \cup Range(t)
  <2> SUFFICES ASSUME NEW k \in 1..(m + n) PROVE u[k] \in Range(s) \cup Range(t)
    OBVIOUS
  <2>1. k <= m => k \in 1..m
    BY <1>1
  <2>2. ~(k <= m) => k - m \in 1..n
    BY <1>1
  <2> QED
    BY <1>1, <1>2, <2>1, <2>2 DEF Range
<1>6. \A x \in Range(s) : x \in Range(u)
  BY <1>1, <1>3 DEF Range
<1>7. \A x \in Range(t) : x \in Range(u)
  BY <1>1, <1>4 DEF Range
<1>8. \A x \in Range(u) : x \in Range(s) \cup Range(t)
  BY <1>1, <1>5 DEF Range
<1>9. Range(u) = Range(s) \cup Range(t)
  BY <1>6, <1>7, <1>8
<1> QED
  BY <1>1, <1>9 DEF u
=============================================================================
