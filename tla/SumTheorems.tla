---------------------------- MODULE SumTheorems ----------------------------
(***************************************************************************)
(* What holds of the sum over the rows of a finite table, whatever the     *)
(* order in which the rows are taken.  The sum is defined by recursion     *)
(* over the set; the facts are proved by minimal counterexamples.          *)
(***************************************************************************)
EXTENDS Sums, FiniteSets, FiniteSetTheorems, WellFoundedInduction, TLAPS

\* The element MapThenSumSet takes first.
Some(s) == CHOOSE x \in s : TRUE

\* The function by which MapThenSumSet defines the sums over S.
IsSum(g, v, S) ==
  g = [s \in SUBSET S |-> IF s = {} THEN 0 ELSE v[Some(s)] + g[s \ {Some(s)}]]

\* The definition of the sum, without its LAMBDA.
LEMMA SumIs ==
  ASSUME NEW S, NEW v
  PROVE  SumOver(v, S) = (CHOOSE g : IsSum(g, v, S))[S]
BY Zenon DEF SumOver, MapThenSumSet, MapThenFoldSet, IsSum, Some

\* A set of naturals has a least element; it is what stands for induction
\* below: a statement that fails for some set fails for a smallest one.
LEMMA LeastNatural ==
  ASSUME NEW T \in SUBSET Nat, T # {}
  PROVE  \E n \in T : \A m \in T : n <= m
<1>1. PICK n \in T : \A m \in T : ~(<<m, n>> \in OpToRel(<, Nat))
  BY WFMin, NatLessThanWellFounded
<1>2. \A m \in T : ~(m < n)
  BY <1>1 DEF OpToRel
<1> QED BY <1>2

\* A bounded set of naturals has a greatest element.
LEMMA GreatestNatural ==
  ASSUME NEW b \in Nat, NEW T \in SUBSET (0..b), T # {}
  PROVE  \E n \in T : \A m \in T : m <= n
<1> DEFINE D == {b - m : m \in T}
<1>1. D \in SUBSET Nat /\ D # {}
  <2>1. \A m \in T : b - m \in Nat
    OBVIOUS
  <2> QED BY <2>1
<1>2. PICK d \in D : \A m \in D : d <= m
  BY <1>1, LeastNatural
<1>3. PICK n \in T : d = b - n
  BY <1>2
<1>4. ASSUME NEW m \in T PROVE m <= n
  <2>1. d <= b - m
    BY <1>2
  <2> QED BY <1>3, <2>1
<1> QED BY <1>4

\* The least size of a finite set in a family.
LEMMA LeastSet ==
  ASSUME NEW F, F # {}, \A S \in F : IsFiniteSet(S)
  PROVE  \E S \in F : \A T \in F : Cardinality(S) <= Cardinality(T)
<1> DEFINE N == {Cardinality(S) : S \in F}
<1>1. N \in SUBSET Nat /\ N # {}
  BY FS_CardinalityType
<1>2. PICK n \in N : \A m \in N : n <= m
  BY <1>1, LeastNatural
<1> QED BY <1>2

\* A set without the element taken first is smaller by one.
LEMMA SomeIn ==
  ASSUME NEW S, S # {}, IsFiniteSet(S)
  PROVE  /\ Some(S) \in S
         /\ IsFiniteSet(S \ {Some(S)})
         /\ Cardinality(S \ {Some(S)}) = Cardinality(S) - 1
         /\ Cardinality(S) \in Nat /\ Cardinality(S \ {Some(S)}) \in Nat
<1>1. Some(S) \in S
  BY DEF Some
<1> QED BY <1>1, FS_RemoveElement, FS_CardinalityType

\* Without one of its elements a set is smaller.
LEMMA Smaller ==
  ASSUME NEW S, IsFiniteSet(S), NEW x \in S
  PROVE  IsFiniteSet(S \ {x}) /\ ~(Cardinality(S) <= Cardinality(S \ {x}))
<1>1. /\ IsFiniteSet(S \ {x}) /\ Cardinality(S) \in Nat
      /\ Cardinality(S \ {x}) = Cardinality(S) - 1
  BY FS_RemoveElement, FS_CardinalityType
<1> QED BY <1>1

\* There is such a function: it can be built up by the size of its sets.
LEMMA SumExists ==
  ASSUME NEW S, IsFiniteSet(S), NEW v
  PROVE  \E g : IsSum(g, v, S)
<1> DEFINE step(g, s) == IF s = {} THEN 0 ELSE v[Some(s)] + g[s \ {Some(s)}]
           upTo(n) == {s \in SUBSET S : Cardinality(s) <= n}
           Good(n, g) == /\ g = [s \in SUBSET S |-> g[s]]
                         /\ \A s \in upTo(n) : g[s] = step(g, s)
           Bad == {n \in Nat : ~\E g : Good(n, g)}
<1>0. \A s \in SUBSET S : IsFiniteSet(s) /\ Cardinality(s) \in Nat
                          /\ Cardinality(s) <= Cardinality(S)
  BY FS_Subset, FS_CardinalityType
<1>1. Bad = {}
  <2> SUFFICES ASSUME Bad # {} PROVE FALSE
    OBVIOUS
  <2>1. PICK n \in Bad : \A m \in Bad : n <= m
    BY LeastNatural
  <2>2. CASE n = 0
    <3>1. \A s \in upTo(0) : s = {}
      BY <1>0, FS_EmptySet
    <3>2. PICK g : g = [s \in SUBSET S |-> 0]
      OBVIOUS
    <3>3. Good(0, g)
      BY <3>1, <3>2
    <3> QED BY <2>1, <2>2, <3>3
  <2>3. CASE n # 0
    <3>1. n \in Nat /\ n - 1 \in Nat /\ ~(n <= n - 1)
      BY <2>1, <2>3
    <3>2. n - 1 \notin Bad
      BY <2>1, <3>1
    <3>3. PICK g : Good(n - 1, g)
      BY <3>1, <3>2
    <3>4. PICK h : h = [s \in SUBSET S |->
                          IF Cardinality(s) <= n - 1 THEN g[s] ELSE step(g, s)]
      OBVIOUS
    <3>5. ASSUME NEW s \in upTo(n) PROVE h[s] = step(h, s)
      <4>1. CASE s = {}
        <5>1. Cardinality(s) = 0 /\ s \in upTo(n - 1)
          BY <3>1, <4>1, FS_EmptySet
        <5>2. h[s] = g[s]
          BY <3>4, <5>1
        <5>3. g[s] = step(g, s)
          BY <3>3, <5>1
        <5> QED BY <4>1, <5>2, <5>3
      <4>2. CASE s # {}
        <5>1. PICK r : r = s \ {Some(s)}
          OBVIOUS
        <5>2. /\ r \in SUBSET S /\ Cardinality(r) = Cardinality(s) - 1
              /\ Cardinality(s) \in Nat /\ Cardinality(r) \in Nat
          BY <1>0, <4>2, <5>1, SomeIn
        <5>3. Cardinality(s) <= n
          OBVIOUS
        <5>4. Cardinality(r) <= n - 1
          BY <3>1, <5>2, <5>3
        <5>5. h[r] = g[r]
          BY <3>4, <5>2, <5>4
        <5>6. h[s] = step(g, s)
          BY <3>3, <3>4
        <5> QED BY <4>2, <5>1, <5>5, <5>6
      <4> QED BY <4>1, <4>2
    <3>6. h = [s \in SUBSET S |-> h[s]]
      BY <3>4
    <3>7. Good(n, h)
      BY <3>5, <3>6
    <3> QED BY <2>1, <3>7
  <2> QED BY <2>2, <2>3
<1>2. PICK g : Good(Cardinality(S), g)
  BY <1>0, <1>1
<1>3. \A s \in SUBSET S : s \in upTo(Cardinality(S))
  BY <1>0
<1>4. g = [s \in SUBSET S |-> step(g, s)]
  BY <1>2, <1>3
<1> QED BY <1>4 DEF IsSum

\* Two such functions agree where both are defined.
LEMMA SumUnique ==
  ASSUME NEW v, NEW S, NEW T, NEW g, NEW h, IsSum(g, v, S), IsSum(h, v, T),
         NEW U, IsFiniteSet(U), U \subseteq S, U \subseteq T
  PROVE  g[U] = h[U]
<1> DEFINE Bad == {X \in SUBSET U : g[X] # h[X]}
<1> SUFFICES ASSUME Bad # {} PROVE FALSE
  OBVIOUS
<1>1. \A X \in Bad : IsFiniteSet(X)
  BY FS_Subset
<1>2. PICK X \in Bad : \A Y \in Bad : Cardinality(X) <= Cardinality(Y)
  BY <1>1, LeastSet
<1>3. X \in SUBSET S /\ X \in SUBSET T /\ X \in SUBSET U /\ g[X] # h[X]
  BY <1>2
<1>4. X # {}
  BY <1>3 DEF IsSum
<1>5. PICK r : r = X \ {Some(X)}
  OBVIOUS
<1>6. ~(Cardinality(X) <= Cardinality(r))
  <2>1. IsFiniteSet(X) /\ Some(X) \in X
    BY <1>1, <1>2, <1>4, SomeIn
  <2> QED BY <1>5, <2>1, Smaller
<1>7. r \in SUBSET U
  BY <1>3, <1>5
<1>8. g[r] = h[r]
  BY <1>2, <1>6, <1>7
<1>9. g[X] = v[Some(X)] + g[r] /\ h[X] = v[Some(X)] + h[r]
  BY <1>3, <1>4, <1>5 DEF IsSum
<1> QED BY <1>3, <1>8, <1>9

\* The sum of nothing, and of a set by one of its elements.
LEMMA SumUnfold ==
  ASSUME NEW v, NEW S, IsFiniteSet(S)
  PROVE  SumOver(v, S) = IF S = {} THEN 0
                         ELSE v[Some(S)] + SumOver(v, S \ {Some(S)})
<1>1. PICK g : g = (CHOOSE x : IsSum(x, v, S)) /\ IsSum(g, v, S)
  BY SumExists
<1>2. SumOver(v, S) = g[S]
  BY <1>1, SumIs
<1>3. CASE S = {}
  <2>1. g[S] = 0
    BY <1>1, <1>3 DEF IsSum
  <2> QED BY <1>2, <1>3, <2>1
<1>4. CASE S # {}
  <2>1. PICK r : r = S \ {Some(S)}
    OBVIOUS
  <2>2. IsFiniteSet(r) /\ r \subseteq S
    BY <1>4, <2>1, SomeIn
  <2>3. PICK h : h = (CHOOSE x : IsSum(x, v, r)) /\ IsSum(h, v, r)
    BY <2>2, SumExists
  <2>4. SumOver(v, r) = h[r]
    BY <2>3, SumIs
  <2>5. h[r] = g[r]
    BY <1>1, <2>2, <2>3, SumUnique
  <2>6. g[S] = v[Some(S)] + g[r]
    BY <1>1, <1>4, <2>1 DEF IsSum
  <2> QED BY <1>2, <1>4, <2>1, <2>4, <2>5, <2>6
<1> QED BY <1>3, <1>4

\* A sum of integers is an integer.
LEMMA SumType ==
  ASSUME NEW v, NEW S, IsFiniteSet(S), \A x \in S : v[x] \in Int
  PROVE  SumOver(v, S) \in Int
<1> DEFINE Bad == {T \in SUBSET S : SumOver(v, T) \notin Int}
<1> SUFFICES ASSUME Bad # {} PROVE FALSE
  OBVIOUS
<1>1. \A T \in Bad : IsFiniteSet(T)
  BY FS_Subset
<1>2. PICK T \in Bad : \A X \in Bad : Cardinality(T) <= Cardinality(X)
  BY <1>1, LeastSet
<1>3. T \in SUBSET S /\ SumOver(v, T) \notin Int /\ IsFiniteSet(T)
  BY <1>1, <1>2
<1>4. T # {}
  <2>1. T = {} => SumOver(v, T) = 0
    BY <1>3, SumUnfold
  <2> QED BY <1>3, <2>1
<1>5. PICK r : r = T \ {Some(T)}
  OBVIOUS
<1>6. ~(Cardinality(T) <= Cardinality(r)) /\ Some(T) \in T
  BY <1>3, <1>4, <1>5, SomeIn
<1>7. r \in SUBSET S
  BY <1>3, <1>5
<1>8. SumOver(v, r) \in Int
  BY <1>2, <1>6, <1>7
<1>9. SumOver(v, T) = v[Some(T)] + SumOver(v, r)
  BY <1>3, <1>4, <1>5, SumUnfold
<1>10. v[Some(T)] \in Int
  BY <1>3, <1>6
<1> QED BY <1>3, <1>8, <1>9, <1>10

\* A sum depends on the values of its elements alone.
LEMMA SumSame ==
  ASSUME NEW v, NEW w, NEW S, IsFiniteSet(S), \A x \in S : v[x] = w[x]
  PROVE  SumOver(v, S) = SumOver(w, S)
<1> DEFINE Bad == {T \in SUBSET S : SumOver(v, T) # SumOver(w, T)}
<1> SUFFICES ASSUME Bad # {} PROVE FALSE
  OBVIOUS
<1>1. \A T \in Bad : IsFiniteSet(T)
  BY FS_Subset
<1>2. PICK T \in Bad : \A X \in Bad : Cardinality(T) <= Cardinality(X)
  BY <1>1, LeastSet
<1>3. T \in SUBSET S /\ SumOver(v, T) # SumOver(w, T) /\ IsFiniteSet(T)
  BY <1>1, <1>2
<1>4. T # {}
  <2>1. T = {} => SumOver(v, T) = 0 /\ SumOver(w, T) = 0
    BY <1>3, SumUnfold
  <2> QED BY <1>3, <2>1
<1>5. PICK r : r = T \ {Some(T)}
  OBVIOUS
<1>6. ~(Cardinality(T) <= Cardinality(r)) /\ Some(T) \in T
  BY <1>3, <1>4, <1>5, SomeIn
<1>7. r \in SUBSET S
  BY <1>3, <1>5
<1>8. SumOver(v, r) = SumOver(w, r)
  BY <1>2, <1>6, <1>7
<1>9. /\ SumOver(v, T) = v[Some(T)] + SumOver(v, r)
      /\ SumOver(w, T) = w[Some(T)] + SumOver(w, r)
  BY <1>3, <1>4, <1>5, SumUnfold
<1>10. v[Some(T)] = w[Some(T)]
  BY <1>3, <1>6
<1> QED BY <1>3, <1>8, <1>9, <1>10

\* Any element may be taken first.
LEMMA SumRemove ==
  ASSUME NEW v, NEW S, IsFiniteSet(S), \A x \in S : v[x] \in Int, NEW x \in S
  PROVE  SumOver(v, S) = v[x] + SumOver(v, S \ {x})
<1> DEFINE Bad == {T \in SUBSET S : \E y \in T :
                     SumOver(v, T) # v[y] + SumOver(v, T \ {y})}
<1> SUFFICES ASSUME Bad # {} PROVE FALSE
  OBVIOUS
<1>1. \A T \in Bad : IsFiniteSet(T)
  BY FS_Subset
<1>2. PICK T \in Bad : \A X \in Bad : Cardinality(T) <= Cardinality(X)
  BY <1>1, LeastSet
<1>3. PICK y \in T : SumOver(v, T) # v[y] + SumOver(v, T \ {y})
  BY <1>2
<1>4. T \in SUBSET S /\ IsFiniteSet(T) /\ T # {}
  BY <1>1, <1>2, <1>3
<1>5. PICK z : z = Some(T)
  OBVIOUS
<1>6. /\ z \in T /\ IsFiniteSet(T \ {z}) /\ ~(Cardinality(T) <= Cardinality(T \ {z}))
      /\ IsFiniteSet(T \ {y}) /\ ~(Cardinality(T) <= Cardinality(T \ {y}))
  <2>1. z \in T
    BY <1>4, <1>5, SomeIn
  <2> QED BY <1>3, <1>4, <2>1, Smaller
<1>7. SumOver(v, T) = v[z] + SumOver(v, T \ {z})
  BY <1>4, <1>5, SumUnfold
<1>8. y # z
  BY <1>3, <1>7
<1>9. T \ {z} \in SUBSET S /\ T \ {y} \in SUBSET S /\ y \in T \ {z} /\ z \in T \ {y}
  BY <1>3, <1>4, <1>6, <1>8
<1>10. SumOver(v, T \ {z}) = v[y] + SumOver(v, (T \ {z}) \ {y})
  BY <1>2, <1>6, <1>9
<1>11. SumOver(v, T \ {y}) = v[z] + SumOver(v, (T \ {y}) \ {z})
  BY <1>2, <1>6, <1>9
<1>12. PICK R : R = (T \ {z}) \ {y} /\ R = (T \ {y}) \ {z}
  OBVIOUS
<1>13. R \subseteq T \ {z} /\ R \subseteq S
  BY <1>4, <1>12
<1>14. IsFiniteSet(R)
  BY <1>6, <1>13, FS_Subset
<1>15. SumOver(v, R) \in Int /\ v[y] \in Int /\ v[z] \in Int
  BY <1>4, <1>6, <1>13, <1>14, SumType
<1> HIDE DEF Bad
<1>16. PICK a, b, c : a = v[y] /\ b = v[z] /\ c = SumOver(v, R)
  OBVIOUS
<1>17. SumOver(v, T) = b + (a + c) /\ SumOver(v, T \ {y}) = b + c
  BY <1>7, <1>10, <1>11, <1>12, <1>16
<1> QED BY <1>3, <1>15, <1>16, <1>17

\* A new element adds its value.
LEMMA SumAdd ==
  ASSUME NEW v, NEW S, IsFiniteSet(S), NEW x, x \notin S, v[x] \in Int,
         \A y \in S : v[y] \in Int
  PROVE  SumOver(v, S \cup {x}) = SumOver(v, S) + v[x]
<1>1. IsFiniteSet(S \cup {x})
  BY FS_AddElement
<1>2. (S \cup {x}) \ {x} = S
  OBVIOUS
<1>3. SumOver(v, S \cup {x}) = v[x] + SumOver(v, S)
  BY <1>1, <1>2, SumRemove
<1>4. SumOver(v, S) \in Int
  BY SumType
<1> QED BY <1>3, <1>4

\* Nothing adds nothing.
LEMMA SumEmpty ==
  ASSUME NEW v
  PROVE  SumOver(v, {}) = 0
BY SumUnfold, FS_EmptySet

\* More elements that are not negative make no smaller sum.
LEMMA SumMore ==
  ASSUME NEW v, NEW S, NEW T, IsFiniteSet(T), S \subseteq T,
         \A x \in T : v[x] \in Int, \A x \in T \ S : v[x] >= 0
  PROVE  SumOver(v, S) <= SumOver(v, T)
<1> DEFINE Bad == {X \in SUBSET T : S \subseteq X /\ ~(SumOver(v, S) <= SumOver(v, X))}
<1> SUFFICES ASSUME Bad # {} PROVE FALSE
  OBVIOUS
<1>1. \A X \in Bad : IsFiniteSet(X)
  BY FS_Subset
<1>2. PICK X \in Bad : \A Y \in Bad : Cardinality(X) <= Cardinality(Y)
  BY <1>1, LeastSet
<1>3. X \in SUBSET T /\ S \subseteq X /\ ~(SumOver(v, S) <= SumOver(v, X))
      /\ IsFiniteSet(X)
  BY <1>1, <1>2
<1>4. IsFiniteSet(S)
  BY <1>3, FS_Subset
<1>5. SumOver(v, S) \in Int
  BY <1>3, <1>4, SumType
<1>6. PICK x \in X : x \notin S
  BY <1>3, <1>5
<1>7. PICK r : r = X \ {x}
  OBVIOUS
<1>8. IsFiniteSet(r) /\ ~(Cardinality(X) <= Cardinality(r))
  BY <1>3, <1>7, Smaller
<1>9. r \in SUBSET T /\ S \subseteq r
  BY <1>3, <1>6, <1>7
<1>10. SumOver(v, S) <= SumOver(v, r)
  BY <1>2, <1>8, <1>9
<1>11. SumOver(v, X) = v[x] + SumOver(v, r)
  BY <1>3, <1>7, SumRemove
<1>12. SumOver(v, r) \in Int
  BY <1>8, <1>9, SumType
<1>13. v[x] \in Int /\ v[x] >= 0
  BY <1>3, <1>6
<1> HIDE DEF Bad
<1>14. PICK a, b, c : a = SumOver(v, S) /\ b = SumOver(v, r) /\ c = v[x]
  OBVIOUS
<1> QED BY <1>3, <1>5, <1>10, <1>11, <1>12, <1>13, <1>14

\* A sum of numbers that are not negative is not negative.
LEMMA SumNatural ==
  ASSUME NEW v, NEW S, IsFiniteSet(S), \A x \in S : v[x] \in Nat
  PROVE  SumOver(v, S) \in Nat
<1>1. SumOver(v, {}) = 0
  BY SumEmpty
<1>2. SumOver(v, S) \in Int
  BY SumType
<1>3. SumOver(v, {}) <= SumOver(v, S)
  BY SumMore
<1> QED BY <1>1, <1>2, <1>3
=============================================================================
