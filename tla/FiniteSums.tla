------------------------------ MODULE FiniteSums ------------------------------
(***************************************************************************)
(* Induction over naturals and finite sets, as facts about sets, and the   *)
(* sum of a function over a finite set (SumFunctionOnSet), which its       *)
(* definition adds up in an order nobody knows.                            *)
(***************************************************************************)
EXTENDS Functions, Integers, FiniteSets, FiniteSetTheorems, WellFoundedInduction, TLAPS

\* Every set of naturals that is not empty has a least element.
LEMMA LeastNatural ==
  ASSUME NEW T \in SUBSET Nat, T # {}
  PROVE  \E n \in T : \A m \in T : n <= m
<1> DEFINE less == {ss \in Nat \X Nat : ss[1] < ss[2]}
<1>1. IsWellFoundedOn(less, Nat)
  BY NatLessThanWellFounded DEF OpToRel
<1>2. PICK n \in T : \A m \in T : <<m, n>> \notin less
  <2> HIDE DEF less
  <2> QED
    BY <1>1, WFMin
<1>3. \A m \in T : <<m, n>> \in Nat \X Nat /\ <<m, n>>[1] = m /\ <<m, n>>[2] = n
  BY <1>2
<1>4. \A m \in T : ~(m < n)
  BY <1>2, <1>3
<1> QED
  BY <1>2, <1>4

\* A set with zero and with the successors of its elements has every natural.
LEMMA InductiveSet ==
  ASSUME NEW T \in SUBSET Nat, 0 \in T, \A n \in T : n + 1 \in T
  PROVE  T = Nat
<1>1. SUFFICES ASSUME Nat \ T # {} PROVE FALSE
  OBVIOUS
<1>2. PICK n \in Nat \ T : \A m \in Nat \ T : n <= m
  BY <1>1, LeastNatural
<1>3. n - 1 \in Nat /\ n - 1 \in T
  BY <1>2
<1> QED
  BY <1>2, <1>3

\* A family of finite sets that has every set whose parts without one element
\* it has, has every one.
LEMMA InductiveFamily ==
  ASSUME NEW S, IsFiniteSet(S), NEW P,
         \A t \in SUBSET S : (\A x \in t : t \ {x} \in P) => t \in P
  PROVE  S \in P
<1> DEFINE T == {n \in Nat : \A t \in SUBSET S : Cardinality(t) = n => t \in P}
<1>1. \A t \in SUBSET S : IsFiniteSet(t) /\ Cardinality(t) \in Nat
  BY FS_Subset, FS_CardinalityType
<1>2. 0 \in T
  BY <1>1, FS_EmptySet
<1>3. ASSUME NEW n \in T PROVE n + 1 \in T
  <2> SUFFICES ASSUME NEW t \in SUBSET S, Cardinality(t) = n + 1 PROVE t \in P
    OBVIOUS
  <2>1. \A x \in t : t \ {x} \in SUBSET S /\ Cardinality(t \ {x}) = n
    BY <1>1, FS_RemoveElement
  <2> QED
    BY <2>1
<1>4. T = Nat
  <2> HIDE DEF T
  <2>1. T \in SUBSET Nat
    BY DEF T
  <2> QED
    BY <1>2, <1>3, <2>1, InductiveSet
<1> QED
  BY <1>1, <1>4


\* A finite set of naturals that is not empty has a greatest element.
LEMMA GreatestNatural ==
  ASSUME NEW S \in SUBSET Nat, IsFiniteSet(S), S # {}
  PROVE  \E n \in S : \A m \in S : m <= n
<1> DEFINE P == {t \in SUBSET S : t # {} => \E n \in t : \A m \in t : m <= n}
<1>1. ASSUME NEW t \in SUBSET S, \A x \in t : t \ {x} \in P
      PROVE  t \in P
  <2> SUFFICES ASSUME t # {} PROVE \E n \in t : \A m \in t : m <= n
    OBVIOUS
  <2>1. PICK x \in t : TRUE
    OBVIOUS
  <2>2. CASE t \ {x} = {}
    BY <2>1, <2>2
  <2>3. CASE t \ {x} # {}
    <3>1. PICK n \in t \ {x} : \A m \in t \ {x} : m <= n
      BY <1>1, <2>1, <2>3
    <3> QED
      BY <2>1, <3>1
  <2> QED
    BY <2>2, <2>3
<1>2. S \in P
  <2> HIDE DEF P
  <2> QED
    BY <1>1, InductiveFamily
<1> QED
  BY <1>2

\* A function has finitely many values on a finite set.
LEMMA FiniteValues ==
  ASSUME NEW S, IsFiniteSet(S), NEW f
  PROVE  IsFiniteSet({f[x] : x \in S})
<1> DEFINE g == [x \in S |-> f[x]]
           T == {f[x] : x \in S}
<1>1. g \in Surjection(S, T)
  BY DEF Surjection
<1> QED
  BY <1>1, FS_Surjection

\* How many there are from lo to n.
LEMMA IntervalSize ==
  ASSUME NEW n \in Nat, NEW lo \in 1..(n + 1)
  PROVE  IsFiniteSet(lo..n) /\ Cardinality(lo..n) = n - lo + 1
<1>1. lo \in Int /\ n \in Int
  OBVIOUS
<1>2. IsFiniteSet(lo..n) /\ Cardinality(lo..n) = IF lo > n THEN 0 ELSE n - lo + 1
  BY <1>1, FS_Interval
<1>3. (IF lo > n THEN 0 ELSE n - lo + 1) = n - lo + 1
  OBVIOUS
<1> QED
  BY <1>2, <1>3

-----------------------------------------------------------------------------
\* The element that the definition of the sum takes from a set next.
First(s) == CHOOSE x \in s : TRUE

\* The recursion by which the sum is defined, on a family of sets.
Adds(g, f, F) ==
  g = [s \in F |-> IF s = {} THEN 0 ELSE f[First(s)] + g[s \ {First(s)}]]

LEMMA FirstOf == \A s : s # {} => First(s) \in s
BY DEF First

\* What the recursion says of a set.
LEMMA AddsAt ==
  ASSUME NEW f, NEW F, NEW g, Adds(g, f, F), NEW s \in F
  PROVE  g[s] = IF s = {} THEN 0 ELSE f[First(s)] + g[s \ {First(s)}]
BY DEF Adds

\* A solution on a family of sets is one on those that are in it without the
\* next element.
LEMMA AddsGrows ==
  ASSUME NEW f, NEW F, NEW g, Adds(g, f, F), NEW G, F \subseteq G,
         \A s \in G : s # {} => s \ {First(s)} \in F
  PROVE  \E h : Adds(h, f, G)
<1> DEFINE h == [s \in G |-> IF s = {} THEN 0 ELSE f[First(s)] + g[s \ {First(s)}]]
<1>1. ASSUME NEW s \in F PROVE h[s] = g[s]
  <2>1. g[s] = IF s = {} THEN 0 ELSE f[First(s)] + g[s \ {First(s)}]
    BY Zenon DEF Adds
  <2> QED
    BY <2>1
<1>2. h = [s \in G |-> IF s = {} THEN 0 ELSE f[First(s)] + h[s \ {First(s)}]]
  <2>1. \A s \in G : s # {} => g[s \ {First(s)}] = h[s \ {First(s)}]
    <3> HIDE DEF h
    <3> QED
      BY <1>1
  <2> QED
    BY <2>1
<1>3. Adds(h, f, G)
  <2> HIDE DEF h
  <2> QED
    BY <1>2 DEF Adds
<1> QED
  BY <1>3

\* The recursion has a solution: on the sets of at most n elements, by
\* induction on n.
LEMMA AddsExists ==
  ASSUME NEW f, NEW S, IsFiniteSet(S)
  PROVE  \E g : Adds(g, f, SUBSET S)
<1> DEFINE F(n) == {s \in SUBSET S : Cardinality(s) <= n}
           T    == {n \in Nat : \E g : Adds(g, f, F(n))}
<1>1. \A s \in SUBSET S : IsFiniteSet(s) /\ Cardinality(s) \in Nat
  BY FS_Subset, FS_CardinalityType
<1>2. 0 \in T
  <2>1. \A s \in F(0) : s = {}
    BY <1>1, FS_EmptySet
  <2>2. Adds([s \in F(0) |-> 0], f, F(0))
    BY <2>1 DEF Adds
  <2> QED
    BY <2>2
<1>3. ASSUME NEW n \in T PROVE n + 1 \in T
  <2>1. PICK g : Adds(g, f, F(n))
    OBVIOUS
  <2>2. F(n) \subseteq F(n + 1)
    BY <1>1
  <2>3. ASSUME NEW s \in F(n + 1), s # {} PROVE s \ {First(s)} \in F(n)
    BY <1>1, <2>3, FirstOf, FS_RemoveElement
  <2>4. \E h : Adds(h, f, F(n + 1))
    <3> HIDE DEF F
    <3> QED
      BY <2>1, <2>2, <2>3, AddsGrows
  <2> HIDE DEF F
  <2> QED
    BY <2>4
<1>4. T = Nat
  <2> HIDE DEF T
  <2>1. T \in SUBSET Nat
    BY DEF T
  <2> QED
    BY <1>2, <1>3, <2>1, InductiveSet
<1>5. Cardinality(S) \in T /\ F(Cardinality(S)) = SUBSET S
  BY <1>1, <1>4, FS_Subset
<1> QED
  BY <1>5

\* It has one: two of them agree on the sets both are about.
LEMMA AddsUnique ==
  ASSUME NEW f, NEW S, IsFiniteSet(S), NEW R \in SUBSET S, NEW g, NEW h,
         Adds(g, f, SUBSET S), Adds(h, f, SUBSET R)
  PROVE  g[R] = h[R]
<1> DEFINE P == {t \in SUBSET R : g[t] = h[t]}
<1>1. ASSUME NEW t \in SUBSET R, \A x \in t : t \ {x} \in P
      PROVE  t \in P
  <2>1. g[t] = IF t = {} THEN 0 ELSE f[First(t)] + g[t \ {First(t)}]
    BY AddsAt
  <2>2. h[t] = IF t = {} THEN 0 ELSE f[First(t)] + h[t \ {First(t)}]
    BY AddsAt
  <2> QED
    BY <1>1, <2>1, <2>2, FirstOf
<1>2. IsFiniteSet(R)
  BY FS_Subset
<1>3. R \in P
  <2> HIDE DEF P
  <2> QED
    BY <1>1, <1>2, InductiveFamily
<1> QED
  BY <1>3

\* The sum is the solution.
LEMMA SumAdds ==
  ASSUME NEW f, NEW S, IsFiniteSet(S)
  PROVE  \E g : Adds(g, f, SUBSET S) /\ SumFunctionOnSet(f, S) = g[S]
<1> DEFINE g == CHOOSE g : Adds(g, f, SUBSET S)
<1>1. Adds(g, f, SUBSET S)
  BY AddsExists
<1>2. SumFunctionOnSet(f, S) = g[S]
  BY DEF SumFunctionOnSet, FoldFunctionOnSet, MapThenFoldSet, Adds, First
<1> QED
  BY <1>1, <1>2

\* The sum over a set is the next element and the sum over the rest.
LEMMA SumFirst ==
  ASSUME NEW f, NEW S, IsFiniteSet(S)
  PROVE  SumFunctionOnSet(f, S) =
           IF S = {} THEN 0 ELSE f[First(S)] + SumFunctionOnSet(f, S \ {First(S)})
<1>1. PICK g : Adds(g, f, SUBSET S) /\ SumFunctionOnSet(f, S) = g[S]
  BY SumAdds
<1>2. IsFiniteSet(S \ {First(S)})
  BY FS_Subset
<1>3. PICK h : /\ Adds(h, f, SUBSET (S \ {First(S)}))
               /\ SumFunctionOnSet(f, S \ {First(S)}) = h[S \ {First(S)}]
  BY <1>2, SumAdds
<1>4. g[S \ {First(S)}] = h[S \ {First(S)}]
  BY <1>1, <1>3, AddsUnique
<1>5. g[S] = IF S = {} THEN 0 ELSE f[First(S)] + g[S \ {First(S)}]
  BY <1>1, AddsAt
<1> QED
  BY <1>1, <1>3, <1>4, <1>5

\* A sum of naturals is one.
LEMMA SumNatural ==
  ASSUME NEW f, NEW S, IsFiniteSet(S), \A x \in S : f[x] \in Nat
  PROVE  SumFunctionOnSet(f, S) \in Nat
<1> DEFINE P == {t \in SUBSET S : SumFunctionOnSet(f, t) \in Nat}
<1>1. ASSUME NEW t \in SUBSET S, \A x \in t : t \ {x} \in P
      PROVE  t \in P
  <2>1. SumFunctionOnSet(f, t) =
          IF t = {} THEN 0 ELSE f[First(t)] + SumFunctionOnSet(f, t \ {First(t)})
    BY FS_Subset, SumFirst
  <2>2. t # {} => f[First(t)] \in Nat /\ SumFunctionOnSet(f, t \ {First(t)}) \in Nat
    BY <1>1, FirstOf
  <2> QED
    BY <2>1, <2>2
<1>2. S \in P
  <2> HIDE DEF P
  <2> QED
    BY <1>1, InductiveFamily
<1> QED
  BY <1>2

\* Any element may be taken first.
LEMMA SumWithout ==
  ASSUME NEW f, NEW S, IsFiniteSet(S), \A x \in S : f[x] \in Nat, NEW x \in S
  PROVE  SumFunctionOnSet(f, S) = f[x] + SumFunctionOnSet(f, S \ {x})
<1> DEFINE Sum(t) == SumFunctionOnSet(f, t)
           P == {t \in SUBSET S : \A y \in t : Sum(t) = f[y] + Sum(t \ {y})}
<1>1. ASSUME NEW t \in SUBSET S, \A y \in t : t \ {y} \in P
      PROVE  t \in P
  <2> SUFFICES ASSUME NEW y \in t PROVE Sum(t) = f[y] + Sum(t \ {y})
    OBVIOUS
  <2> DEFINE c == First(t)
  <2>1. c \in t
    BY FirstOf
  <2>2. Sum(t) = f[c] + Sum(t \ {c})
    BY FS_Subset, SumFirst
  <2>3. CASE y = c
    BY <2>2, <2>3
  <2>4. CASE y # c
    <3>1. y \in t \ {c} /\ c \in t \ {y}
      BY <2>1, <2>4
    <3>2. Sum(t \ {c}) = f[y] + Sum((t \ {c}) \ {y})
      BY <1>1, <2>1, <3>1
    <3>3. Sum(t \ {y}) = f[c] + Sum((t \ {y}) \ {c})
      BY <1>1, <3>1
    <3>4. (t \ {c}) \ {y} = (t \ {y}) \ {c}
      OBVIOUS
    <3>5. Sum((t \ {c}) \ {y}) \in Nat
      BY FS_Subset, SumNatural
    <3>6. f[c] \in Nat /\ f[y] \in Nat
      BY <2>1
    <3> HIDE DEF Sum, c
    <3> QED
      BY <2>2, <3>2, <3>3, <3>4, <3>5, <3>6
  <2> QED
    BY <2>3, <2>4
<1>2. S \in P
  <2> HIDE DEF P
  <2> QED
    BY <1>1, InductiveFamily
<1> QED
  BY <1>2

\* The sum over nothing, and over one more.
LEMMA SumEmpty == ASSUME NEW f PROVE SumFunctionOnSet(f, {}) = 0
BY FS_EmptySet, SumFirst

LEMMA SumWith ==
  ASSUME NEW f, NEW S, IsFiniteSet(S), NEW x, x \notin S,
         \A y \in S \union {x} : f[y] \in Nat
  PROVE  SumFunctionOnSet(f, S \union {x}) = f[x] + SumFunctionOnSet(f, S)
<1>1. IsFiniteSet(S \union {x}) /\ (S \union {x}) \ {x} = S
  BY FS_AddElement
<1> QED
  BY <1>1, SumWithout

\* The sum over a set is that over a part and over the rest.
LEMMA SumSplit ==
  ASSUME NEW f, NEW S, IsFiniteSet(S), \A x \in S : f[x] \in Nat, NEW R \in SUBSET S
  PROVE  SumFunctionOnSet(f, S) = SumFunctionOnSet(f, R) + SumFunctionOnSet(f, S \ R)
<1> DEFINE Sum(t) == SumFunctionOnSet(f, t)
           P == {t \in SUBSET R : Sum(S) = Sum(t) + Sum(S \ t)}
<1>1. ASSUME NEW t \in SUBSET R, \A y \in t : t \ {y} \in P
      PROVE  t \in P
  <2>1. CASE t = {}
    <3>1. Sum({}) = 0 /\ Sum(S) \in Nat /\ S \ {} = S
      BY SumEmpty, SumNatural
    <3> HIDE DEF Sum
    <3> QED
      BY <2>1, <3>1
  <2>2. CASE t # {}
    <3>1. PICK y \in t : TRUE
      BY <2>2
    <3>2. Sum(S) = Sum(t \ {y}) + Sum(S \ (t \ {y}))
      BY <1>1
    <3>3. Sum(t) = f[y] + Sum(t \ {y})
      <4>1. IsFiniteSet(t) /\ \A x \in t : f[x] \in Nat
        BY FS_Subset
      <4> QED
        BY <4>1, SumWithout
    <3>4. Sum(S \ (t \ {y})) = f[y] + Sum(S \ t)
      <4>1. (S \ (t \ {y})) \ {y} = S \ t /\ y \in S \ (t \ {y})
        OBVIOUS
      <4>2. IsFiniteSet(S \ (t \ {y})) /\ \A x \in S \ (t \ {y}) : f[x] \in Nat
        BY FS_Subset
      <4> QED
        BY <4>1, <4>2, SumWithout
    <3>5. f[y] \in Nat /\ Sum(t \ {y}) \in Nat /\ Sum(S \ t) \in Nat
      BY FS_Subset, SumNatural
    <3>6. Sum(S) = Sum(t) + Sum(S \ t)
      <4> HIDE DEF Sum
      <4> QED
        BY <3>2, <3>3, <3>4, <3>5
    <3> QED
      BY <3>6
  <2> QED
    BY <2>1, <2>2
<1>2. R \in P
  <2>1. IsFiniteSet(R)
    BY FS_Subset
  <2> HIDE DEF P
  <2> QED
    BY <1>1, <2>1, InductiveFamily
<1> QED
  BY <1>2

\* Functions that agree on a set have the same sum over it.
LEMMA SumSame ==
  ASSUME NEW f, NEW g, NEW S, IsFiniteSet(S), \A x \in S : f[x] = g[x]
  PROVE  SumFunctionOnSet(f, S) = SumFunctionOnSet(g, S)
<1> DEFINE P == {t \in SUBSET S : SumFunctionOnSet(f, t) = SumFunctionOnSet(g, t)}
<1>1. ASSUME NEW t \in SUBSET S, \A y \in t : t \ {y} \in P
      PROVE  t \in P
  <2>1. IsFiniteSet(t) /\ (t # {} => First(t) \in t)
    BY FS_Subset, FirstOf
  <2>2. t # {} => /\ f[First(t)] = g[First(t)]
                  /\ SumFunctionOnSet(f, t \ {First(t)}) = SumFunctionOnSet(g, t \ {First(t)})
    BY <1>1, <2>1
  <2>3. SumFunctionOnSet(f, t) = SumFunctionOnSet(g, t)
    BY <2>1, <2>2, SumFirst
  <2> QED
    BY <2>3
<1>2. S \in P
  <2> HIDE DEF P
  <2> QED
    BY <1>1, InductiveFamily
<1> QED
  BY <1>2

\* Elements that count for nothing may be left out.
LEMMA SumZeros ==
  ASSUME NEW f, NEW S, IsFiniteSet(S), \A x \in S : f[x] = 0
  PROVE  SumFunctionOnSet(f, S) = 0
<1> DEFINE P == {t \in SUBSET S : SumFunctionOnSet(f, t) = 0}
<1>1. ASSUME NEW t \in SUBSET S, \A y \in t : t \ {y} \in P
      PROVE  t \in P
  <2>1. IsFiniteSet(t) /\ (t # {} => First(t) \in t)
    BY FS_Subset, FirstOf
  <2>2. t # {} => f[First(t)] = 0 /\ SumFunctionOnSet(f, t \ {First(t)}) = 0
    BY <1>1, <2>1
  <2>3. SumFunctionOnSet(f, t) = 0
    BY <2>1, <2>2, SumFirst
  <2> QED
    BY <2>3
<1>2. S \in P
  <2> HIDE DEF P
  <2> QED
    BY <1>1, InductiveFamily
<1> QED
  BY <1>2
=============================================================================
