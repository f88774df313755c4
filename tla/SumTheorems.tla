---------------------------- MODULE SumTheorems ----------------------------
(* What the proofs need to know about induction, about functions defined by    *)
(* recursion on a counter, and about the sums of the models (the library's     *)
(* SumFunctionOnSet and SumFunction): over a finite set they are what they     *)
(* look like, whichever element the fold takes first.                          *)
(*                                                                             *)
(* Induction is stated over a SET of good numbers or of good subsets, and      *)
(* recursion over a set of pairs: the provers instantiate a set, and not the   *)
(* predicate of the library's own induction theorems.                          *)
EXTENDS Integers, FiniteSets, Sequences, Functions, FiniteSetTheorems, TLAPS

-----------------------------------------------------------------------------
(* Induction. *)

\* A non-empty set of naturals has a least element.
LEMMA LeastNat ==
    ASSUME NEW T, T \subseteq Nat, T # {}
    PROVE  \E n \in T : \A m \in T : n <= m
  <1> DEFINE R == OpToRel(<, Nat)
  <1>1. IsWellFoundedOn(R, Nat)
    BY NatLessThanWellFounded
  <1> HIDE DEF R
  <1>2. PICK n \in T : \A m \in T : ~(<<m, n>> \in R)
    BY <1>1, WFMin
  <1>3. \A m \in T : <<m, n>> \in R <=> m < n
    BY DEF R, OpToRel
  <1>4. \A m \in T : m \in Int /\ n \in Int
    OBVIOUS
  <1>5. \A m \in T : ~(m < n)
    BY <1>2, <1>3
  <1> QED BY <1>4, <1>5

\* Induction on the naturals, for the set of the numbers with the property.
LEMMA NatSteps ==
    ASSUME NEW G, 0 \in G, \A n \in Nat : n \in G => n + 1 \in G
    PROVE  Nat \subseteq G
  <1> DEFINE Bad == Nat \ G
  <1>1. ASSUME Bad # {}
        PROVE  FALSE
    <2>1. PICK n \in Bad : \A m \in Bad : n <= m
      BY <1>1, LeastNat
    <2>2. n \in Nat /\ n # 0
      OBVIOUS
    <2>3. n - 1 \in Nat /\ n - 1 \notin Bad
      BY <2>1, <2>2
    <2>4. (n - 1) + 1 \in G
      BY <2>3
    <2> QED BY <2>2, <2>4
  <1> QED BY <1>1

\* A function that begins with a and in which g makes each next value from the
\* one before it; the values are in R.
MakesNext(g, R) == g \in [Nat -> [R -> R]]
IsRun(f, a, g, R) ==
    f \in [Nat -> R] /\ f[0] = a /\ \A n \in Nat : f[n + 1] = g[n][f[n]]

\* There is such a function: recursion on the naturals defines one.
LEMMA NatRecursion ==
    ASSUME NEW R, NEW a, a \in R, NEW g, MakesNext(g, R)
    PROVE  \E f : IsRun(f, a, g, R)
  <1> USE DEF MakesNext
  <1> DEFINE Begins(h, n) == /\ h \in [0 .. n -> R] /\ h[0] = a
                             /\ \A m \in 0 .. n - 1 : h[m + 1] = g[m][h[m]]
             G == {n \in Nat : \E h : Begins(h, n)}
  <1>1. 0 \in G
    <2> DEFINE h == [m \in 0 .. 0 |-> a]
    <2>1. Begins(h, 0)
      OBVIOUS
    <2> QED BY <2>1
  <1>2. ASSUME NEW n \in Nat, n \in G
        PROVE  n + 1 \in G
    <2>1. PICK h : Begins(h, n)
      BY <1>2
    <2> DEFINE k == [m \in 0 .. n + 1 |-> IF m = n + 1 THEN g[n][h[n]] ELSE h[m]]
    <2>2. h[n] \in R /\ g[n][h[n]] \in R
      BY <2>1
    <2>3. k \in [0 .. n + 1 -> R] /\ k[0] = a
      BY <2>1, <2>2
    <2>4. ASSUME NEW m \in 0 .. (n + 1) - 1
          PROVE  k[m + 1] = g[m][k[m]]
      <3>1. m \in 0 .. n /\ k[m] = h[m]
        OBVIOUS
      <3>2. CASE m = n
        BY <3>1, <3>2
      <3>3. CASE m # n
        <4>1. m \in 0 .. n - 1 /\ k[m + 1] = h[m + 1]
          BY <3>3
        <4> QED BY <2>1, <3>1, <4>1
      <3> QED BY <3>2, <3>3
    <2>5. Begins(k, n + 1)
      BY <2>3, <2>4
    <2> HIDE DEF k, Begins
    <2>6. \E q : Begins(q, n + 1)
      BY <2>5
    <2> QED BY <2>6
  <1>3. Nat \subseteq G
    <2> HIDE DEF G
    <2> QED BY <1>1, <1>2, NatSteps
  <1> DEFINE H(n) == CHOOSE h : Begins(h, n)
             f == [n \in Nat |-> H(n)[n]]
  <1>4. \A n \in Nat : Begins(H(n), n)
    BY <1>3
  <1> HIDE DEF H
  <1>5. ASSUME NEW n \in Nat
        PROVE  \A m \in Nat : m <= n => H(n)[m] = H(n + 1)[m]
    <2> DEFINE Same == {m \in Nat : m <= n => H(n)[m] = H(n + 1)[m]}
    <2>1. Begins(H(n), n) /\ Begins(H(n + 1), n + 1)
      BY <1>4
    <2>2. 0 \in Same
      BY <2>1
    <2>3. ASSUME NEW m \in Nat, m \in Same
          PROVE  m + 1 \in Same
      <3> SUFFICES ASSUME m + 1 <= n
                   PROVE  H(n)[m + 1] = H(n + 1)[m + 1]
        OBVIOUS
      <3>1. m \in 0 .. n - 1 /\ m \in 0 .. (n + 1) - 1 /\ m <= n
        OBVIOUS
      <3>2. H(n)[m + 1] = g[m][H(n)[m]] /\ H(n + 1)[m + 1] = g[m][H(n + 1)[m]]
        BY <2>1, <3>1
      <3> QED BY <2>3, <3>1, <3>2
    <2>4. Nat \subseteq Same
      <3> HIDE DEF Same
      <3> QED BY <2>2, <2>3, NatSteps
    <2> QED BY <2>4
  <1>6. f \in [Nat -> R]
    <2>1. \A n \in Nat : n \in 0 .. n /\ H(n)[n] \in R
      BY <1>4
    <2> QED BY <2>1
  <1>7. f[0] = a
    BY <1>4
  <1>8. ASSUME NEW n \in Nat
        PROVE  f[n + 1] = g[n][f[n]]
    <2>1. n \in 0 .. (n + 1) - 1 /\ n <= n /\ n + 1 \in Nat
      OBVIOUS
    <2>2. H(n + 1)[n + 1] = g[n][H(n + 1)[n]]
      BY <1>4, <2>1
    <2>3. H(n)[n] = H(n + 1)[n]
      BY <1>5, <2>1
    <2> QED BY <2>1, <2>2, <2>3
  <1> HIDE DEF f
  <1>9. IsRun(f, a, g, R)
    BY <1>6, <1>7, <1>8 DEF IsRun
  <1> QED BY <1>9

\* The element that the library's folds take out of a set first.
Pick(s) == CHOOSE x \in s : TRUE

\* What is picked from a set that is not empty is one of its elements.
LEMMA PickMember ==
    ASSUME NEW s, s # {}
    PROVE  Pick(s) \in s
  BY DEF Pick

\* Among sets of subsets of a finite set there is one that loses the property
\* with any of its elements.
LEMMA MinimalSubset ==
    ASSUME NEW S, IsFiniteSet(S), NEW T, T \subseteq SUBSET S, T # {}
    PROVE  \E s \in T : \A x \in s : s \ {x} \notin T
  <1> DEFINE Sizes == {Cardinality(s) : s \in T}
  <1>1. \A s \in T : IsFiniteSet(s) /\ Cardinality(s) \in Nat
    BY FS_Subset, FS_CardinalityType
  <1>2. Sizes \subseteq Nat /\ Sizes # {}
    BY <1>1
  <1> HIDE DEF Sizes
  <1>3. PICK n \in Sizes : \A m \in Sizes : n <= m
    BY <1>2, LeastNat
  <1>4. PICK s \in T : n = Cardinality(s)
    BY DEF Sizes
  <1>5. ASSUME NEW x \in s, s \ {x} \in T
        PROVE  FALSE
    <2>1. Cardinality(s \ {x}) = Cardinality(s) - 1
      BY <1>1, FS_RemoveElement
    <2>2. Cardinality(s \ {x}) \in Sizes
      BY <1>5 DEF Sizes
    <2> QED BY <2>1, <2>2, <1>1, <1>3, <1>4
  <1> QED BY <1>5

\* Induction on the subsets of a finite set, for the set G of those with the
\* property: G may assume it of every set with one element less.
LEMMA SubsetSteps ==
    ASSUME NEW S, IsFiniteSet(S), NEW G,
           \A s \in SUBSET S : (\A x \in s : s \ {x} \in G) => s \in G
    PROVE  SUBSET S \subseteq G
  <1> DEFINE Bad == (SUBSET S) \ G
  <1>1. ASSUME Bad # {}
        PROVE  FALSE
    <2> DEFINE B == Bad
    <2>0. B \subseteq SUBSET S /\ B # {}
      BY <1>1
    <2> HIDE DEF B
    <2>1. PICK s \in B : \A x \in s : s \ {x} \notin B
      BY <2>0, MinimalSubset
    <2>2. s \in SUBSET S /\ s \notin G /\ \A x \in s : s \ {x} \in SUBSET S
      BY DEF B
    <2>3. \A x \in s : s \ {x} \in G
      BY <2>1, <2>2 DEF B
    <2> QED BY <2>2, <2>3
  <1> QED BY <1>1

-----------------------------------------------------------------------------
(* The equation of the fold.  The library defines it by a recursive function  *)
(* on the subsets of the set it sums over, its table: a function that is       *)
(* chosen for its equation, so there has to be one.                            *)

Step(f, g, s) == IF s = {} THEN 0 ELSE f[Pick(s)] + g[s \ {Pick(s)}]
IsTable(f, D, g) == g = [s \in D |-> Step(f, g, s)]

\* The library's sum is the entry for the whole set of a chosen table.
LEMMA SumByTable ==
    ASSUME NEW f, NEW S
    PROVE  SumFunctionOnSet(f, S) = (CHOOSE g : IsTable(f, SUBSET S, g))[S]
  BY DEF SumFunctionOnSet, FoldFunctionOnSet, MapThenFoldSet, Pick, Step, IsTable

\* A table is built one cardinality at a time.
LEMMA TableExists ==
    ASSUME NEW f, NEW S, IsFiniteSet(S)
    PROVE  \E g : IsTable(f, SUBSET S, g)
  <1> DEFINE Small(n) == {s \in SUBSET S : Cardinality(s) <= n}
             G == {n \in Nat : \E g : IsTable(f, Small(n), g)}
  <1>1. \A s \in SUBSET S : IsFiniteSet(s) /\ Cardinality(s) \in Nat
                            /\ Cardinality(s) <= Cardinality(S)
    BY FS_Subset, FS_CardinalityType
  <1>2. 0 \in G
    <2>1. Small(0) = {{}}
      BY <1>1, FS_EmptySet
    <2> DEFINE g == [s \in Small(0) |-> 0]
    <2>2. IsTable(f, Small(0), g)
      BY <2>1 DEF IsTable, Step
    <2> QED BY <2>2
  <1>3. ASSUME NEW n \in Nat, n \in G
        PROVE  n + 1 \in G
    <2>1. PICK g : IsTable(f, Small(n), g)
      BY <1>3
    <2> DEFINE h == [s \in Small(n + 1) |-> Step(f, g, s)]
    <2>2. \A s \in Small(n) : s \in Small(n + 1) /\ g[s] = h[s]
      BY <1>1, <2>1 DEF IsTable
    <2>3. ASSUME NEW s \in Small(n + 1), s # {}
          PROVE  s \ {Pick(s)} \in Small(n)
      <3>1. Cardinality(s \ {Pick(s)}) = Cardinality(s) - 1
        BY <1>1, <2>3, PickMember, FS_RemoveElement
      <3>2. Cardinality(s) \in Nat /\ Cardinality(s) <= n + 1 /\ s \in SUBSET S
        BY <1>1
      <3> QED BY <3>1, <3>2
    <2>4. h = [s \in Small(n + 1) |-> Step(f, g, s)]
      OBVIOUS
    <2> HIDE DEF h
    <2>5. \A s \in Small(n + 1) : Step(f, g, s) = Step(f, h, s)
      BY <2>2, <2>3 DEF Step
    <2>6. h = [s \in Small(n + 1) |-> Step(f, h, s)]
      BY <2>4, <2>5
    <2>7. IsTable(f, Small(n + 1), h)
      BY <2>6 DEF IsTable
    <2> QED BY <2>7
  <1>4. Nat \subseteq G
    <2> HIDE DEF G
    <2> QED BY <1>2, <1>3, NatSteps
  <1>5. Small(Cardinality(S)) = SUBSET S
    BY <1>1
  <1> QED BY <1>4, <1>5, FS_CardinalityType

\* A table holds the sum over every subset: any two tables agree where both are
\* defined.
LEMMA TableHoldsSums ==
    ASSUME NEW f, NEW S, IsFiniteSet(S), NEW g, IsTable(f, SUBSET S, g)
    PROVE  \A T \in SUBSET S : SumFunctionOnSet(f, T) = g[T]
  <1> SUFFICES ASSUME NEW T \in SUBSET S
               PROVE  SumFunctionOnSet(f, T) = g[T]
    OBVIOUS
  <1>1. IsFiniteSet(T)
    BY FS_Subset
  <1>2. PICK h : IsTable(f, SUBSET T, h) /\ SumFunctionOnSet(f, T) = h[T]
    BY <1>1, TableExists, SumByTable
  <1> DEFINE G == {s \in SUBSET T : g[s] = h[s]}
  <1>3. ASSUME NEW s \in SUBSET T, \A x \in s : s \ {x} \in G
        PROVE  s \in G
    <2>1. g[s] = Step(f, g, s) /\ h[s] = Step(f, h, s)
      BY <1>2 DEF IsTable
    <2>2. s # {} => g[s \ {Pick(s)}] = h[s \ {Pick(s)}]
      BY <1>3, PickMember
    <2> QED BY <2>1, <2>2 DEF Step
  <1>4. SUBSET T \subseteq G
    <2> HIDE DEF G
    <2> QED BY <1>1, <1>3, SubsetSteps
  <1> QED BY <1>2, <1>4

\* The sum is the summand picked first plus the sum of the others.
LEMMA SumEquation ==
    ASSUME NEW f, NEW S, IsFiniteSet(S)
    PROVE  SumFunctionOnSet(f, S) =
               IF S = {} THEN 0 ELSE f[Pick(S)] + SumFunctionOnSet(f, S \ {Pick(S)})
  <1>1. PICK g : IsTable(f, SUBSET S, g)
    BY TableExists
  <1>2. \A T \in SUBSET S : SumFunctionOnSet(f, T) = g[T]
    BY <1>1, TableHoldsSums
  <1>3. g[S] = Step(f, g, S)
    BY <1>1 DEF IsTable
  <1>4. /\ SumFunctionOnSet(f, S) = g[S]
        /\ SumFunctionOnSet(f, S \ {Pick(S)}) = g[S \ {Pick(S)}]
    BY <1>2
  <1> QED BY <1>3, <1>4 DEF Step

-----------------------------------------------------------------------------
(* Sums over a finite set. *)

\* The sum over nothing is zero.
LEMMA SumEmpty ==
    ASSUME NEW f
    PROVE  SumFunctionOnSet(f, {}) = 0
  BY FS_EmptySet, SumEquation

\* A sum of integers is an integer.
LEMMA SumInt ==
    ASSUME NEW f, NEW S, IsFiniteSet(S), \A x \in S : f[x] \in Int
    PROVE  SumFunctionOnSet(f, S) \in Int
  <1> DEFINE G == {s \in SUBSET S : SumFunctionOnSet(f, s) \in Int}
  <1>1. ASSUME NEW s \in SUBSET S, \A x \in s : s \ {x} \in G
        PROVE  s \in G
    <2>1. SumFunctionOnSet(f, s) =
              IF s = {} THEN 0 ELSE f[Pick(s)] + SumFunctionOnSet(f, s \ {Pick(s)})
      BY SumEquation, FS_Subset
    <2>2. s # {} => f[Pick(s)] \in Int /\ SumFunctionOnSet(f, s \ {Pick(s)}) \in Int
      BY <1>1, PickMember
    <2> QED BY <2>1, <2>2
  <1>2. SUBSET S \subseteq G
    <2> HIDE DEF G
    <2> QED BY <1>1, SubsetSteps
  <1> QED BY <1>2

\* Any summand may be taken out, not only the one the fold picks.
LEMMA SumRemove ==
    ASSUME NEW f, NEW S, IsFiniteSet(S), \A x \in S : f[x] \in Int, NEW y \in S
    PROVE  SumFunctionOnSet(f, S) = f[y] + SumFunctionOnSet(f, S \ {y})
  <1> DEFINE Sum(s) == SumFunctionOnSet(f, s)
             G == {s \in SUBSET S : \A x \in s : Sum(s) = f[x] + Sum(s \ {x})}
  <1>1. \A s \in SUBSET S : IsFiniteSet(s) /\ Sum(s) \in Int
    BY FS_Subset, SumInt
  <1>2. ASSUME NEW s \in SUBSET S, \A x \in s : s \ {x} \in G, NEW x \in s
        PROVE  Sum(s) = f[x] + Sum(s \ {x})
    <2> DEFINE p == Pick(s)
    <2>1. p \in s
      BY PickMember
    <2>2. Sum(s) = f[p] + Sum(s \ {p})
      BY <1>1, SumEquation
    <2> HIDE DEF p
    <2>3. CASE p = x
      BY <2>2, <2>3
    <2>4. CASE p # x
      <3>1. Sum(s \ {p}) = f[x] + Sum((s \ {p}) \ {x})
        BY <1>2, <2>1, <2>4
      <3>2. Sum(s \ {x}) = f[p] + Sum((s \ {x}) \ {p})
        BY <1>2, <2>1, <2>4
      <3>3. (s \ {p}) \ {x} = (s \ {x}) \ {p}
        OBVIOUS
      <3>4. f[p] \in Int /\ f[x] \in Int /\ Sum((s \ {x}) \ {p}) \in Int
        BY <1>1, <2>1
      <3>5. Sum((s \ {p}) \ {x}) = Sum((s \ {x}) \ {p})
        BY <3>3
      <3> HIDE DEF Sum, G
      <3> QED BY <2>2, <3>1, <3>2, <3>4, <3>5
    <2> QED BY <2>3, <2>4
  <1>3. \A s \in SUBSET S : (\A x \in s : s \ {x} \in G) => s \in G
    BY <1>2
  <1>4. SUBSET S \subseteq G
    <2> HIDE DEF G
    <2> QED BY <1>3, SubsetSteps
  <1> QED BY <1>4

\* A further summand adds itself.
LEMMA SumAddElement ==
    ASSUME NEW f, NEW S, IsFiniteSet(S), NEW y, y \notin S,
           \A x \in S \cup {y} : f[x] \in Int
    PROVE  SumFunctionOnSet(f, S \cup {y}) = f[y] + SumFunctionOnSet(f, S)
  <1> DEFINE T == S \cup {y}
  <1>1. IsFiniteSet(T) /\ y \in T /\ \A x \in T : f[x] \in Int
    BY FS_AddElement
  <1>2. T \ {y} = S
    OBVIOUS
  <1> HIDE DEF T
  <1>3. SumFunctionOnSet(f, T) = f[y] + SumFunctionOnSet(f, T \ {y})
    BY <1>1, SumRemove
  <1> QED BY <1>2, <1>3 DEF T

\* A sum depends on the summands only.
LEMMA SumSame ==
    ASSUME NEW f, NEW g, NEW S, IsFiniteSet(S), \A x \in S : f[x] = g[x]
    PROVE  SumFunctionOnSet(f, S) = SumFunctionOnSet(g, S)
  <1> DEFINE G == {s \in SUBSET S : SumFunctionOnSet(f, s) = SumFunctionOnSet(g, s)}
  <1>1. ASSUME NEW s \in SUBSET S, \A x \in s : s \ {x} \in G
        PROVE  s \in G
    <2>1. /\ SumFunctionOnSet(f, s) =
              IF s = {} THEN 0 ELSE f[Pick(s)] + SumFunctionOnSet(f, s \ {Pick(s)})
          /\ SumFunctionOnSet(g, s) =
              IF s = {} THEN 0 ELSE g[Pick(s)] + SumFunctionOnSet(g, s \ {Pick(s)})
      BY SumEquation, FS_Subset
    <2>2. s # {} => /\ f[Pick(s)] = g[Pick(s)]
                    /\ SumFunctionOnSet(f, s \ {Pick(s)}) = SumFunctionOnSet(g, s \ {Pick(s)})
      BY <1>1, PickMember
    <2> QED BY <2>1, <2>2
  <1>2. SUBSET S \subseteq G
    <2> HIDE DEF G
    <2> QED BY <1>1, SubsetSteps
  <1> QED BY <1>2

\* Changing one summand changes the sum by as much.
LEMMA SumChange ==
    ASSUME NEW f, NEW g, NEW S, IsFiniteSet(S), NEW y \in S,
           \A x \in S : f[x] \in Int, g[y] \in Int,
           \A x \in S \ {y} : g[x] = f[x]
    PROVE  SumFunctionOnSet(g, S) = SumFunctionOnSet(f, S) + (g[y] - f[y])
  <1>1. \A x \in S : g[x] \in Int
    OBVIOUS
  <1>2. /\ SumFunctionOnSet(f, S) = f[y] + SumFunctionOnSet(f, S \ {y})
        /\ SumFunctionOnSet(g, S) = g[y] + SumFunctionOnSet(g, S \ {y})
    BY <1>1, SumRemove
  <1>3. IsFiniteSet(S \ {y})
    BY FS_RemoveElement
  <1>4. SumFunctionOnSet(f, S \ {y}) = SumFunctionOnSet(g, S \ {y})
    BY <1>3, SumSame
  <1>5. SumFunctionOnSet(f, S \ {y}) \in Int
    BY <1>3, SumInt
  <1> QED BY <1>2, <1>4, <1>5

\* A sum of naturals is a natural, and none of them is larger.
LEMMA SumNat ==
    ASSUME NEW f, NEW S, IsFiniteSet(S), \A x \in S : f[x] \in Nat
    PROVE  /\ SumFunctionOnSet(f, S) \in Nat
           /\ \A x \in S : f[x] <= SumFunctionOnSet(f, S)
  <1> DEFINE G == {s \in SUBSET S : SumFunctionOnSet(f, s) \in Nat}
  <1>1. ASSUME NEW s \in SUBSET S, \A x \in s : s \ {x} \in G
        PROVE  s \in G
    <2>1. SumFunctionOnSet(f, s) =
              IF s = {} THEN 0 ELSE f[Pick(s)] + SumFunctionOnSet(f, s \ {Pick(s)})
      BY SumEquation, FS_Subset
    <2>2. s # {} => f[Pick(s)] \in Nat /\ SumFunctionOnSet(f, s \ {Pick(s)}) \in Nat
      BY <1>1, PickMember
    <2> QED BY <2>1, <2>2
  <1>2. SUBSET S \subseteq G
    <2> HIDE DEF G
    <2> QED BY <1>1, SubsetSteps
  <1>3. ASSUME NEW x \in S
        PROVE  f[x] <= SumFunctionOnSet(f, S)
    <2>1. \A z \in S : f[z] \in Int
      OBVIOUS
    <2>2. SumFunctionOnSet(f, S) = f[x] + SumFunctionOnSet(f, S \ {x})
      BY <2>1, SumRemove
    <2>3. SumFunctionOnSet(f, S \ {x}) \in Nat
      BY <1>2
    <2> QED BY <2>2, <2>3
  <1> QED BY <1>2, <1>3

\* A sum of zeros is zero.
LEMMA SumZero ==
    ASSUME NEW f, NEW S, IsFiniteSet(S), \A x \in S : f[x] = 0
    PROVE  SumFunctionOnSet(f, S) = 0
  <1> DEFINE G == {s \in SUBSET S : SumFunctionOnSet(f, s) = 0}
  <1>1. ASSUME NEW s \in SUBSET S, \A x \in s : s \ {x} \in G
        PROVE  s \in G
    <2>1. SumFunctionOnSet(f, s) =
              IF s = {} THEN 0 ELSE f[Pick(s)] + SumFunctionOnSet(f, s \ {Pick(s)})
      BY SumEquation, FS_Subset
    <2>2. s # {} => f[Pick(s)] = 0 /\ SumFunctionOnSet(f, s \ {Pick(s)}) = 0
      BY <1>1, PickMember
    <2> QED BY <2>1, <2>2
  <1>2. SUBSET S \subseteq G
    <2> HIDE DEF G
    <2> QED BY <1>1, SubsetSteps
  <1> QED BY <1>2

\* If every summand grows by at most k for each unit of h, so does the sum.
LEMMA SumGrows ==
    ASSUME NEW f, NEW g, NEW h, NEW S, IsFiniteSet(S), NEW k \in Int,
           \A x \in S : f[x] \in Int /\ g[x] \in Int /\ h[x] \in Int,
           \A x \in S : g[x] <= f[x] + h[x] * k
    PROVE  SumFunctionOnSet(g, S) <= SumFunctionOnSet(f, S) + SumFunctionOnSet(h, S) * k
  <1> DEFINE Within(s) == SumFunctionOnSet(g, s)
                            <= SumFunctionOnSet(f, s) + SumFunctionOnSet(h, s) * k
             G == {s \in SUBSET S : Within(s)}
  <1>1. ASSUME NEW s \in SUBSET S, \A x \in s : s \ {x} \in G
        PROVE  s \in G
    <2> DEFINE p == Pick(s)
               t == s \ {p}
               F == SumFunctionOnSet(f, t)
               J == SumFunctionOnSet(g, t)
               H == SumFunctionOnSet(h, t)
    <2>1. IsFiniteSet(s) /\ IsFiniteSet(t)
      BY FS_Subset
    <2>2. CASE s = {}
      <3>1. Within({})
        BY SumEmpty
      <3> QED BY <2>2, <3>1
    <2>3. CASE s # {}
      <3>1. p \in s /\ p \in S
        BY <2>3, PickMember
      <3>2. /\ SumFunctionOnSet(f, s) = f[p] + F
            /\ SumFunctionOnSet(g, s) = g[p] + J
            /\ SumFunctionOnSet(h, s) = h[p] + H
        BY <2>1, <2>3, SumEquation
      <3>3. J <= F + H * k
        BY <1>1, <3>1
      <3>4. F \in Int /\ J \in Int /\ H \in Int
        BY <2>1, SumInt
      <3>5. f[p] \in Int /\ g[p] \in Int /\ h[p] \in Int /\ g[p] <= f[p] + h[p] * k
        BY <3>1
      <3> HIDE DEF p, F, J, H
      <3>6. (h[p] + H) * k = h[p] * k + H * k
        BY <3>4, <3>5
      <3>7. g[p] + J <= (f[p] + F) + (h[p] * k + H * k)
        <4>1. h[p] * k \in Int /\ H * k \in Int
          BY <3>4, <3>5
        <4> QED BY <3>3, <3>4, <3>5, <4>1
      <3>8. Within(s)
        BY <3>2, <3>6, <3>7
      <3> QED BY <3>8
    <2> QED BY <2>2, <2>3
  <1>2. SUBSET S \subseteq G
    <2> HIDE DEF G
    <2> QED BY <1>1, SubsetSteps
  <1> QED BY <1>2

\* Summands that are zero may be left out.
LEMMA SumOfPart ==
    ASSUME NEW f, NEW S, IsFiniteSet(S), \A x \in S : f[x] \in Int,
           NEW T, \A x \in S : x \notin T => f[x] = 0
    PROVE  SumFunctionOnSet(f, S) = SumFunctionOnSet(f, S \cap T)
  <1> DEFINE G == {s \in SUBSET S : SumFunctionOnSet(f, s) = SumFunctionOnSet(f, s \cap T)}
  <1>1. ASSUME NEW s \in SUBSET S, \A x \in s : s \ {x} \in G
        PROVE  s \in G
    <2> DEFINE p == Pick(s)
               t == s \ {p}
    <2>1. IsFiniteSet(s) /\ IsFiniteSet(t) /\ IsFiniteSet(s \cap T) /\ IsFiniteSet(t \cap T)
      BY FS_Subset
    <2>2. CASE s = {}
      <3>1. s \cap T = s
        BY <2>2
      <3> QED BY <3>1
    <2>3. CASE s # {}
      <3>1. p \in s /\ p \in S
        BY <2>3, PickMember
      <3>2. SumFunctionOnSet(f, s) = f[p] + SumFunctionOnSet(f, t)
        BY <2>1, <2>3, SumEquation
      <3>3. SumFunctionOnSet(f, t) = SumFunctionOnSet(f, t \cap T)
        BY <1>1, <3>1
      <3>4. SumFunctionOnSet(f, t \cap T) \in Int /\ f[p] \in Int
        BY <2>1, <3>1, SumInt
      <3>5. CASE p \in T
        <4>1. p \in s \cap T /\ (s \cap T) \ {p} = t \cap T
          BY <3>1, <3>5
        <4>2. \A x \in s \cap T : f[x] \in Int
          OBVIOUS
        <4> HIDE DEF p, t
        <4>3. SumFunctionOnSet(f, s \cap T) = f[p] + SumFunctionOnSet(f, (s \cap T) \ {p})
          BY <2>1, <4>1, <4>2, SumRemove
        <4> QED BY <3>2, <3>3, <4>1, <4>3
      <3>6. CASE p \notin T
        <4>1. s \cap T = t \cap T /\ f[p] = 0
          BY <3>1, <3>6
        <4>2. SumFunctionOnSet(f, s) = SumFunctionOnSet(f, t \cap T)
          <5> HIDE DEF p, t
          <5> QED BY <3>2, <3>3, <3>4, <4>1
        <4> QED BY <4>1, <4>2
      <3> QED BY <3>5, <3>6
    <2> QED BY <2>2, <2>3
  <1>2. SUBSET S \subseteq G
    <2> HIDE DEF G
    <2> QED BY <1>1, SubsetSteps
  <1> QED BY <1>2

\* A sum of k for the members of E and nothing for the others counts E.
LEMMA SumOfMembers ==
    ASSUME NEW f, NEW S, IsFiniteSet(S), NEW E, NEW k \in Nat,
           \A x \in S : x \in E => f[x] = k,
           \A x \in S : x \notin E => f[x] = 0
    PROVE  SumFunctionOnSet(f, S) = k * Cardinality(S \cap E)
  <1> DEFINE G == {s \in SUBSET S : SumFunctionOnSet(f, s) = k * Cardinality(s \cap E)}
  <1>1. ASSUME NEW s \in SUBSET S, \A x \in s : s \ {x} \in G
        PROVE  s \in G
    <2>1. SumFunctionOnSet(f, s) =
              IF s = {} THEN 0 ELSE f[Pick(s)] + SumFunctionOnSet(f, s \ {Pick(s)})
      BY SumEquation, FS_Subset
    <2>2. CASE s = {}
      <3>1. s \cap E = {}
        BY <2>2
      <3>2. Cardinality(s \cap E) = 0
        BY <3>1, FS_EmptySet
      <3> QED BY <2>1, <2>2, <3>2
    <2>3. CASE s # {}
      <3> DEFINE p == Pick(s)
                 T == (s \ {p}) \cap E
      <3>1. p \in s
        BY <2>3, PickMember
      <3>2. SumFunctionOnSet(f, s \ {p}) = k * Cardinality(T)
        BY <1>1, <3>1
      <3>3. IsFiniteSet(T) /\ Cardinality(T) \in Nat
        BY FS_Subset, FS_CardinalityType
      <3>4. SumFunctionOnSet(f, s) = f[p] + k * Cardinality(T)
        BY <2>1, <2>3, <3>2
      <3> HIDE DEF p
      <3>5. CASE p \in E
        <4>1. s \cap E = T \cup {p} /\ p \notin T
          BY <3>1, <3>5
        <4> HIDE DEF T
        <4>2. Cardinality(s \cap E) = Cardinality(T) + 1
          BY <3>3, <4>1, FS_AddElement
        <4>3. k * (Cardinality(T) + 1) = k + k * Cardinality(T)
          BY <3>3
        <4>4. f[p] = k
          BY <3>1, <3>5
        <4> QED BY <3>4, <4>2, <4>3, <4>4
      <3>6. CASE p \notin E
        <4>1. s \cap E = T
          BY <3>6
        <4>2. f[p] = 0
          BY <3>1, <3>6
        <4> HIDE DEF T
        <4> DEFINE m == k * Cardinality(T)
        <4>3. m \in Int /\ SumFunctionOnSet(f, s) = f[p] + m
          BY <3>3, <3>4
        <4> HIDE DEF m
        <4>4. SumFunctionOnSet(f, s) = m
          BY <4>2, <4>3
        <4> QED BY <4>1, <4>4 DEF m
      <3> QED BY <3>5, <3>6
    <2> QED BY <2>2, <2>3
  <1>2. SUBSET S \subseteq G
    <2> HIDE DEF G
    <2> QED BY <1>1, SubsetSteps
  <1> QED BY <1>2

-----------------------------------------------------------------------------
(* Sums over an interval, for the sequences. *)

\* An interval that grows by one at its end adds one summand.
LEMMA SumIntervalStep ==
    ASSUME NEW f, NEW a \in Int, NEW b \in Int, a <= b + 1,
           \A i \in a .. b + 1 : f[i] \in Int
    PROVE  SumFunctionOnSet(f, a .. b + 1) = SumFunctionOnSet(f, a .. b) + f[b + 1]
  <1> DEFINE S == a .. b
             y == b + 1
  <1>1. IsFiniteSet(S) /\ y \notin S /\ \A x \in S \cup {y} : f[x] \in Int
    BY FS_Interval
  <1>2. a .. b + 1 = S \cup {y}
    OBVIOUS
  <1>3. SumFunctionOnSet(f, S) \in Int /\ f[y] \in Int
    BY <1>1, SumInt
  <1> HIDE DEF S, y
  <1>4. SumFunctionOnSet(f, S \cup {y}) = f[y] + SumFunctionOnSet(f, S)
    BY <1>1, SumAddElement
  <1>5. SumFunctionOnSet(f, S \cup {y}) = SumFunctionOnSet(f, S) + f[y]
    BY <1>3, <1>4
  <1>6. SumFunctionOnSet(f, a .. b + 1) = SumFunctionOnSet(f, S \cup {y})
    BY <1>2
  <1> QED BY <1>5, <1>6 DEF S, y

\* The sum of a part of a sequence may be taken over either numbering.
LEMMA SumShift ==
    ASSUME NEW f, NEW g, NEW n \in Nat, NEW m \in Nat,
           \A i \in 1 .. m : g[i] \in Int /\ f[n + i] = g[i],
           NEW first, first = n + 1, NEW last, last = n + m
    PROVE  SumFunctionOnSet(g, 1 .. m) = SumFunctionOnSet(f, first .. last)
  <1> DEFINE G == {k \in Nat : k <= m =>
                     SumFunctionOnSet(g, 1 .. k) = SumFunctionOnSet(f, n + 1 .. n + k)}
  <1>1. 0 \in G
    <2>1. 1 .. 0 = {} /\ n + 1 .. n + 0 = {}
      OBVIOUS
    <2> QED BY <2>1, SumEmpty
  <1>2. ASSUME NEW k \in Nat, k \in G
        PROVE  k + 1 \in G
    <2> SUFFICES ASSUME k + 1 <= m
                 PROVE  SumFunctionOnSet(g, 1 .. k + 1)
                            = SumFunctionOnSet(f, n + 1 .. n + (k + 1))
      OBVIOUS
    <2>1. SumFunctionOnSet(g, 1 .. k) = SumFunctionOnSet(f, n + 1 .. n + k)
      BY <1>2
    <2>2. SumFunctionOnSet(g, 1 .. k + 1) = SumFunctionOnSet(g, 1 .. k) + g[k + 1]
      <3>1. \A i \in 1 .. k + 1 : g[i] \in Int
        OBVIOUS
      <3> QED BY <3>1, SumIntervalStep
    <2>3. SumFunctionOnSet(f, n + 1 .. (n + k) + 1)
              = SumFunctionOnSet(f, n + 1 .. n + k) + f[(n + k) + 1]
      <3>1. \A i \in n + 1 .. (n + k) + 1 : f[i] \in Int
        <4> SUFFICES ASSUME NEW i \in n + 1 .. (n + k) + 1
                     PROVE  f[i] \in Int
          OBVIOUS
        <4>1. i - n \in 1 .. m /\ n + (i - n) = i
          OBVIOUS
        <4> QED BY <4>1
      <3>2. n + 1 \in Int /\ n + k \in Int /\ n + 1 <= (n + k) + 1
        OBVIOUS
      <3> QED BY <3>1, <3>2, SumIntervalStep
    <2>4. (n + k) + 1 = n + (k + 1) /\ f[n + (k + 1)] = g[k + 1]
      OBVIOUS
    <2> QED BY <2>1, <2>2, <2>3, <2>4
  <1>3. Nat \subseteq G
    <2> HIDE DEF G
    <2> QED BY <1>1, <1>2, NatSteps
  <1> QED BY <1>3

\* The sum over a sequence is that of its first n elements and of the others.
LEMMA SumSplit ==
    ASSUME NEW f, NEW n \in Nat, NEW m \in Nat, n <= m,
           \A i \in 1 .. m : f[i] \in Int
    PROVE  SumFunctionOnSet(f, 1 .. m)
               = SumFunctionOnSet(f, 1 .. n) + SumFunctionOnSet(f, n + 1 .. m)
  <1> DEFINE G == {k \in Nat : n + k <= m =>
                     SumFunctionOnSet(f, 1 .. n + k)
                        = SumFunctionOnSet(f, 1 .. n) + SumFunctionOnSet(f, n + 1 .. n + k)}
  <1>0. \A a \in Nat \ {0}, b \in Nat : b <= m => SumFunctionOnSet(f, a .. b) \in Int
    <2> SUFFICES ASSUME NEW a \in Nat \ {0}, NEW b \in Nat, b <= m
                 PROVE  SumFunctionOnSet(f, a .. b) \in Int
      OBVIOUS
    <2>1. IsFiniteSet(a .. b)
      BY FS_Interval
    <2>2. \A i \in a .. b : f[i] \in Int
      OBVIOUS
    <2> QED BY <2>1, <2>2, SumInt
  <1>1. 0 \in G
    <2>1. n + 1 .. n + 0 = {} /\ n + 0 = n
      OBVIOUS
    <2>2. SumFunctionOnSet(f, 1 .. n) \in Int
      BY <1>0
    <2> QED BY <2>1, <2>2, SumEmpty
  <1>2. ASSUME NEW k \in Nat, k \in G
        PROVE  k + 1 \in G
    <2> SUFFICES ASSUME n + (k + 1) <= m
                 PROVE  SumFunctionOnSet(f, 1 .. n + (k + 1))
                          = SumFunctionOnSet(f, 1 .. n) + SumFunctionOnSet(f, n + 1 .. n + (k + 1))
      OBVIOUS
    <2> DEFINE b == n + k
    <2>0. b \in Nat /\ n + (k + 1) = b + 1 /\ b + 1 <= m /\ n <= b
      OBVIOUS
    <2>1. SumFunctionOnSet(f, 1 .. b)
            = SumFunctionOnSet(f, 1 .. n) + SumFunctionOnSet(f, n + 1 .. b)
      BY <1>2
    <2> HIDE DEF b
    <2>2. SumFunctionOnSet(f, 1 .. b + 1) = SumFunctionOnSet(f, 1 .. b) + f[b + 1]
      <3>1. \A i \in 1 .. b + 1 : f[i] \in Int
        BY <2>0
      <3> QED BY <2>0, <3>1, SumIntervalStep
    <2>3. SumFunctionOnSet(f, n + 1 .. b + 1) = SumFunctionOnSet(f, n + 1 .. b) + f[b + 1]
      <3>1. \A i \in n + 1 .. b + 1 : f[i] \in Int
        BY <2>0
      <3>2. n + 1 \in Int /\ b \in Int /\ n + 1 <= b + 1
        BY <2>0
      <3> QED BY <3>1, <3>2, SumIntervalStep
    <2>4. /\ SumFunctionOnSet(f, 1 .. n) \in Int
          /\ SumFunctionOnSet(f, n + 1 .. b) \in Int
          /\ f[b + 1] \in Int
      BY <1>0, <2>0
    <2> QED BY <2>0, <2>1, <2>2, <2>3, <2>4, SMTT(30)
  <1>3. Nat \subseteq G
    <2> HIDE DEF G
    <2> QED BY <1>1, <1>2, NatSteps
  <1>4. m - n \in Nat /\ n + (m - n) = m
    OBVIOUS
  <1> QED BY <1>3, <1>4
=============================================================================
