------------------------------- MODULE SumProofs -------------------------------
(***************************************************************************)
(* Sums over finite sets: what the proofs about budgets need of            *)
(* SumFunctionOnSet, which the community modules define by recursion over  *)
(* the subsets of a set. Induction goes over a set of subsets, by the      *)
(* subset of least cardinality that it lacks.                              *)
(***************************************************************************)
EXTENDS Integers, FiniteSetsExt, FiniteSetTheorems, WellFoundedInduction, TLAPS

\* A set of naturals that is not empty has a least element.
LEMMA LeastNat ==
    ASSUME NEW B \in SUBSET Nat, B # {}
    PROVE  \E n \in B : \A k \in B : n <= k
<1>1. PICK n \in B : \A k \in B : <<k, n>> \notin OpToRel(<, Nat)
  BY WFMin, NatLessThanWellFounded, Zenon
<1>2. \A k \in B : ~ (k < n)
  BY <1>1 DEF OpToRel
<1>3. \A k \in B : n <= k
  BY <1>2
<1> QED
  BY <1>3

\* A set of subsets of a finite set that has the empty set, and each set
\* from which one element may be taken to get to a set it has, has them all.
LEMMA SubsetInduction ==
    ASSUME NEW S, IsFiniteSet(S), NEW T,
           {} \in T,
           \A s \in SUBSET S :
             s # {} /\ s \ {CHOOSE x \in s : TRUE} \in T => s \in T
    PROVE  \A s \in SUBSET S : s \in T
<1> SUFFICES ASSUME \E s \in SUBSET S : s \notin T PROVE FALSE
  OBVIOUS
<1> DEFINE B == {n \in Nat :
                   \E s \in SUBSET S : s \notin T /\ Cardinality(s) = n}
<1>1. \A s \in SUBSET S : IsFiniteSet(s) /\ Cardinality(s) \in Nat
  BY FS_Subset, FS_CardinalityType
<1>2. B # {} /\ B \in SUBSET Nat
  BY <1>1
<1>3. PICK n \in B : \A k \in B : n <= k
  BY <1>2, LeastNat
<1>4. PICK s \in SUBSET S : s \notin T /\ Cardinality(s) = n
  BY <1>3
<1> DEFINE x == CHOOSE y \in s : TRUE
<1>5. s # {} /\ x \in s
  BY <1>4
<1>6. s \ {x} \in SUBSET S /\ Cardinality(s \ {x}) = n - 1
  BY <1>1, <1>4, <1>5, FS_RemoveElement
<1>7. s \ {x} \in T
  <2>1. SUFFICES ASSUME s \ {x} \notin T PROVE FALSE
    OBVIOUS
  <2>2. n - 1 \in B
    BY <1>1, <1>6, <2>1
  <2> QED
    BY <1>2, <1>3, <2>2
<1> QED
  BY <1>4, <1>5, <1>7

\* g is the recursion that sums f over the subsets of S.
Rec(f, S, g) ==
    g = [s \in SUBSET S |->
           IF s = {} THEN 0
             ELSE LET x == CHOOSE y \in s : TRUE IN f[x] + g[s \ {x}]]

\* The sum is the value at S of some such g, if there is one.
LEMMA Unfold ==
    ASSUME NEW S, NEW f, NEW h, Rec(f, S, h)
    PROVE \E g : Rec(f, S, g) /\ SumFunctionOnSet(f, S) = g[S]
<1> DEFINE g == CHOOSE u : Rec(f, S, u)
<1>1. Rec(f, S, g)
  OBVIOUS
<1>2. SumFunctionOnSet(f, S) = g[S]
  BY DEF SumFunctionOnSet, FoldFunctionOnSet, MapThenFoldSet, Rec
<1> QED
  BY <1>1, <1>2

\* There is one: defined for the subsets of n elements it is for n + 1.
LEMMA Exist ==
    ASSUME NEW S, IsFiniteSet(S), NEW f, \A x \in S : f[x] \in Int
    PROVE  \E g : Rec(f, S, g)
<1> DEFINE ch(s) == CHOOSE y \in s : TRUE
           Val(g, s) == IF s = {} THEN 0 ELSE f[ch(s)] + g[s \ {ch(s)}]
           P(n) == \E g \in [SUBSET S -> Int] :
                     \A s \in SUBSET S : Cardinality(s) <= n => g[s] = Val(g, s)
           B == {n \in Nat : ~ P(n)}
<1>1. \A s \in SUBSET S : IsFiniteSet(s) /\ Cardinality(s) \in Nat
                          /\ Cardinality(s) <= Cardinality(S)
  BY FS_Subset, FS_CardinalityType
<1>2. \A s \in SUBSET S : s # {} =>
        /\ ch(s) \in S
        /\ s \ {ch(s)} \in SUBSET S
        /\ Cardinality(s \ {ch(s)}) = Cardinality(s) - 1
  <2> SUFFICES ASSUME NEW s \in SUBSET S, s # {}
               PROVE  /\ ch(s) \in S
                      /\ s \ {ch(s)} \in SUBSET S
                      /\ Cardinality(s \ {ch(s)}) = Cardinality(s) - 1
    OBVIOUS
  <2>1. ch(s) \in s
    OBVIOUS
  <2> QED
    BY <1>1, <2>1, FS_RemoveElement
<1>3. P(0)
  <2>1. \A s \in SUBSET S : Cardinality(s) <= 0 => s = {}
    BY <1>1, FS_EmptySet
  <2> DEFINE g0 == [s \in SUBSET S |-> 0]
  <2>2. g0 \in [SUBSET S -> Int]
    OBVIOUS
  <2> QED
    BY <2>1, <2>2
<1>4. ASSUME NEW n \in Nat, P(n) PROVE P(n + 1)
  <2>1. PICK g \in [SUBSET S -> Int] :
          \A s \in SUBSET S : Cardinality(s) <= n => g[s] = Val(g, s)
    BY <1>4
  <2> DEFINE h == [s \in SUBSET S |-> Val(g, s)]
  <2>2. h \in [SUBSET S -> Int]
    BY <1>2
  <2>3. ASSUME NEW s \in SUBSET S, Cardinality(s) <= n + 1, s # {}
        PROVE  g[s \ {ch(s)}] = h[s \ {ch(s)}]
    <3>1. s \ {ch(s)} \in SUBSET S /\ Cardinality(s \ {ch(s)}) <= n
      BY <1>1, <1>2, <2>3
    <3> HIDE DEF ch, Val
    <3> QED
      BY <2>1, <3>1
  <2>4. ASSUME NEW s \in SUBSET S, Cardinality(s) <= n + 1
        PROVE  h[s] = Val(h, s)
    <3>1. h[s] = Val(g, s)
      OBVIOUS
    <3>2. CASE s = {}
      BY <3>1, <3>2
    <3>3. CASE s # {}
      <4> HIDE DEF h, ch
      <4> QED
        BY <2>3, <2>4, <3>1, <3>3
    <3> QED
      BY <3>2, <3>3
  <2> HIDE DEF h
  <2> QED
    BY <2>2, <2>4
<1> HIDE DEF P
<1>5. B = {}
  <2> SUFFICES ASSUME B # {} PROVE FALSE
    OBVIOUS
  <2>1. PICK n \in B : \A k \in B : n <= k
    BY LeastNat
  <2>2. n # 0 /\ n - 1 \in Nat /\ n \in Nat /\ ~ P(n)
    BY <1>3, <2>1
  <2>3. P(n - 1)
    <3>1. n - 1 \notin B
      BY <2>1, <2>2
    <3> QED
      BY <2>2, <3>1
  <2>4. P((n - 1) + 1)
    BY <1>4, <2>2, <2>3
  <2>5. (n - 1) + 1 = n
    BY <2>2
  <2> QED
    BY <2>2, <2>4, <2>5
<1>6. P(Cardinality(S))
  BY <1>1, <1>5
<1>7. PICK g \in [SUBSET S -> Int] :
        \A s \in SUBSET S : Cardinality(s) <= Cardinality(S) => g[s] = Val(g, s)
  BY <1>6 DEF P
<1>8. Rec(f, S, g)
  BY <1>1, <1>7 DEF Rec
<1> QED
  BY <1>8

-------------------------------------------------------------------------------

\* A sum of naturals is a natural.
LEMMA SumType ==
    ASSUME NEW S, IsFiniteSet(S), NEW f, \A x \in S : f[x] \in Nat
    PROVE  SumFunctionOnSet(f, S) \in Nat
<1>1. PICK g : Rec(f, S, g) /\ SumFunctionOnSet(f, S) = g[S]
  BY Exist, Unfold
<1> DEFINE T == {s \in SUBSET S : g[s] \in Nat}
<1>2. {} \in T
  BY <1>1 DEF Rec
<1>3. ASSUME NEW s \in SUBSET S, s # {}, s \ {CHOOSE x \in s : TRUE} \in T
      PROVE  s \in T
  <2> DEFINE x == CHOOSE y \in s : TRUE
  <2>1. x \in S
    BY <1>3
  <2>2. g[s] = f[x] + g[s \ {x}]
    BY <1>1, <1>3 DEF Rec
  <2> QED
    BY <1>3, <2>1, <2>2
<1>4. S \in T
  <2>1. \A s \in SUBSET S : s \in T
    <3> HIDE DEF T
    <3> QED
      BY <1>2, <1>3, SubsetInduction
  <2> QED
    BY <2>1
<1> QED
  BY <1>1, <1>4

\* A function that changes at one argument changes the sum by as much, if the
\* argument is in the set.
LEMMA SumChange ==
    ASSUME NEW S, IsFiniteSet(S), NEW f, NEW h, NEW a, NEW k \in Int,
           \A x \in S : f[x] \in Nat /\ h[x] \in Nat,
           \A x \in S \ {a} : h[x] = f[x],
           a \in S => h[a] = f[a] + k
    PROVE  SumFunctionOnSet(h, S) =
             SumFunctionOnSet(f, S) + (IF a \in S THEN k ELSE 0)
<1>1. PICK g : Rec(f, S, g) /\ SumFunctionOnSet(f, S) = g[S]
  BY Exist, Unfold
<1>2. PICK u : Rec(h, S, u) /\ SumFunctionOnSet(h, S) = u[S]
  BY Exist, Unfold
<1> DEFINE D(s) == IF a \in s THEN k ELSE 0
           T == {s \in SUBSET S : g[s] \in Int /\ u[s] = g[s] + D(s)}
<1>3. {} \in T
  BY <1>1, <1>2 DEF Rec
<1>4. ASSUME NEW s \in SUBSET S, s # {}, s \ {CHOOSE x \in s : TRUE} \in T
      PROVE  s \in T
  <2> DEFINE x == CHOOSE y \in s : TRUE
  <2>1. x \in S /\ x \in s
    BY <1>4
  <2>2. g[s] = f[x] + g[s \ {x}]
    BY <1>1, <1>4 DEF Rec
  <2>3. u[s] = h[x] + u[s \ {x}]
    BY <1>2, <1>4 DEF Rec
  <2>4. g[s \ {x}] \in Int /\ u[s \ {x}] = g[s \ {x}] + D(s \ {x})
    BY <1>4
  <2> HIDE DEF x
  <2>5. CASE x = a
    <3>1. D(s) = k /\ D(s \ {x}) = 0 /\ h[x] = f[x] + k
      BY <2>1, <2>5
    <3> QED
      BY <2>1, <2>2, <2>3, <2>4, <3>1
  <2>6. CASE x # a
    <3>1. D(s) = D(s \ {x}) /\ h[x] = f[x] /\ D(s) \in Int
      BY <2>1, <2>6
    <3> QED
      BY <2>1, <2>2, <2>3, <2>4, <3>1
  <2> QED
    BY <2>5, <2>6
<1>5. S \in T
  <2>1. \A s \in SUBSET S : s \in T
    <3> HIDE DEF T
    <3> QED
      BY <1>3, <1>4, SubsetInduction
  <2> QED
    BY <2>1
<1> QED
  BY <1>1, <1>2, <1>5

\* A sum of zeros is zero.
LEMMA SumZero ==
    ASSUME NEW S, IsFiniteSet(S), NEW f, \A x \in S : f[x] = 0
    PROVE  SumFunctionOnSet(f, S) = 0
<1>1. PICK g : Rec(f, S, g) /\ SumFunctionOnSet(f, S) = g[S]
  BY Exist, Unfold
<1> DEFINE T == {s \in SUBSET S : g[s] = 0}
<1>2. {} \in T
  BY <1>1 DEF Rec
<1>3. ASSUME NEW s \in SUBSET S, s # {}, s \ {CHOOSE x \in s : TRUE} \in T
      PROVE  s \in T
  <2> DEFINE x == CHOOSE y \in s : TRUE
  <2>1. x \in S
    BY <1>3
  <2>2. g[s] = f[x] + g[s \ {x}]
    BY <1>1, <1>3 DEF Rec
  <2> QED
    BY <1>3, <2>1, <2>2
<1>4. S \in T
  <2>1. \A s \in SUBSET S : s \in T
    <3> HIDE DEF T
    <3> QED
      BY <1>2, <1>3, SubsetInduction
  <2> QED
    BY <2>1
<1> QED
  BY <1>1, <1>4

\* A set where a function is at least one is no larger than its sum.
LEMMA CardinalityBelowSum ==
    ASSUME NEW S, IsFiniteSet(S), NEW A \in SUBSET S, NEW f,
           \A x \in S : f[x] \in Nat, \A x \in A : f[x] >= 1
    PROVE  Cardinality(A) <= SumFunctionOnSet(f, S)
<1>1. PICK g : Rec(f, S, g) /\ SumFunctionOnSet(f, S) = g[S]
  BY Exist, Unfold
<1> DEFINE T == {s \in SUBSET S : g[s] \in Nat /\ Cardinality(A \cap s) <= g[s]}
<1>2. {} \in T
  <2>1. A \cap {} = {}
    OBVIOUS
  <2> QED
    BY <1>1, <2>1, FS_EmptySet DEF Rec
<1>3. ASSUME NEW s \in SUBSET S, s # {}, s \ {CHOOSE x \in s : TRUE} \in T
      PROVE  s \in T
  <2> DEFINE x == CHOOSE y \in s : TRUE
  <2>1. x \in S /\ x \in s /\ f[x] \in Nat
    BY <1>3
  <2>2. g[s] = f[x] + g[s \ {x}]
    BY <1>1, <1>3 DEF Rec
  <2>3. g[s \ {x}] \in Nat /\ Cardinality(A \cap (s \ {x})) <= g[s \ {x}]
    BY <1>3
  <2> HIDE DEF x
  <2> DEFINE C == A \cap s
             D == C \ {x}
             n == Cardinality(C)
             q == g[s \ {x}]
             v == f[x]
  <2>4. A \cap (s \ {x}) = D
    OBVIOUS
  <2>5. IsFiniteSet(C)
    BY FS_Subset
  <2>6. x \in C => v >= 1
    OBVIOUS
  <2>7. Cardinality(D) <= q
    BY <2>3, <2>4
  <2>8. n \in Nat /\ q \in Nat /\ v \in Nat /\ g[s] = v + q
    BY <2>1, <2>2, <2>3, <2>5, FS_CardinalityType
  <2> HIDE DEF C, q, v
  <2>9. n <= v + q
    <3>1. Cardinality(D) = IF x \in C THEN n - 1 ELSE n
      BY <2>5, FS_RemoveElement
    <3> HIDE DEF D, n
    <3>2. CASE x \in C
      BY <2>6, <2>7, <2>8, <3>1, <3>2
    <3>3. CASE x \notin C
      BY <2>7, <2>8, <3>1, <3>3
    <3> QED
      BY <3>2, <3>3
  <2>10. g[s] \in Nat /\ Cardinality(A \cap s) <= g[s]
    <3>1. g[s] \in Nat /\ n <= g[s]
      BY <2>8, <2>9
    <3> QED
      BY <3>1 DEF C
  <2> QED
    BY <2>10
<1>4. S \in T
  <2>1. \A s \in SUBSET S : s \in T
    <3> HIDE DEF T
    <3> QED
      BY <1>2, <1>3, SubsetInduction
  <2> QED
    BY <2>1
<1>5. A \cap S = A
  OBVIOUS
<1> QED
  BY <1>1, <1>4, <1>5
===============================================================================
