---------------------------- MODULE SawtoothProofs ----------------------------
(***************************************************************************)
(* The sawtooth upper bound: proofs for any POMDP, any policies and any    *)
(* order of updates.                                                       *)
(***************************************************************************)
EXTENDS Sawtooth, FiniteSetTheorems, SequenceTheorems,
        NaturalsInduction, WellFoundedInduction, TLAPS

-----------------------------------------------------------------------------
\* A nonempty set of natural numbers has a least element.
LEMMA LeastNatural ==
  ASSUME NEW T \in SUBSET Nat, T # {}
  PROVE  \E m \in T : \A k \in T : m <= k
<1> DEFINE R == {ss \in Nat \X Nat : ss[1] < ss[2]}
<1>1. IsWellFoundedOn(R, Nat)
  BY NatLessThanWellFounded DEF OpToRel
<1>2. PICK m \in T : \A k \in T : ~(<<k, m>> \in R)
  <2> HIDE DEF R
  <2> QED
    BY <1>1, WFMin
<1>3. ASSUME NEW k \in T PROVE m <= k
  <2>1. m \in Nat /\ k \in Nat /\ <<k, m>> \notin R
    BY <1>2
  <2>2. ~(k < m)
    BY <2>1
  <2> QED
    BY <2>1, <2>2
<1> QED
  BY <1>3

-----------------------------------------------------------------------------
\* Sums, which the library defines by recursion over sets.
Some(S) == CHOOSE x \in S : TRUE

Small(D, n) == {S \in SUBSET D : Cardinality(S) <= n}

\* h adds up f over each of the sets in X.
Adds(h, f, X) ==
  h = [S \in X |-> IF S = {} THEN 0 ELSE f[Some(S)] + h[S \ {Some(S)}]]

LEMMA RestIsSmaller ==
  ASSUME NEW D, IsFiniteSet(D), NEW n \in Nat, NEW S \in Small(D, n), S # {}
  PROVE  n # 0 /\ S \ {Some(S)} \in Small(D, n - 1) /\ Some(S) \in S
<1>1. Some(S) \in S
  BY DEF Some
<1>2. IsFiniteSet(S) /\ S \in SUBSET D /\ Cardinality(S) <= n
  BY FS_Subset DEF Small
<1>3. Cardinality(S \ {Some(S)}) = Cardinality(S) - 1 /\ Cardinality(S) \in Nat
  BY <1>1, <1>2, FS_RemoveElement, FS_CardinalityType
<1>4. Cardinality(S \ {Some(S)}) \in Nat
  BY <1>2, FS_CardinalityType, FS_Subset
<1> QED
  BY <1>1, <1>2, <1>3, <1>4 DEF Small

LEMMA SmallSets ==
  ASSUME NEW D, IsFiniteSet(D)
  PROVE  /\ Small(D, Cardinality(D)) = SUBSET D /\ Cardinality(D) \in Nat
         /\ \A S \in SUBSET D : IsFiniteSet(S) /\ Cardinality(S) \in Nat
         /\ \A S \in SUBSET D : S \in Small(D, Cardinality(S))
<1>1. Cardinality(D) \in Nat
  BY FS_CardinalityType
<1>2. \A S \in SUBSET D : /\ IsFiniteSet(S) /\ Cardinality(S) \in Nat
                          /\ Cardinality(S) <= Cardinality(D)
  BY FS_Subset, FS_CardinalityType
<1> QED
  BY <1>1, <1>2 DEF Small

\* Sums exist, by induction over the number of summands.
LEMMA SumExists ==
  ASSUME NEW D, IsFiniteSet(D), NEW f
  PROVE  \E h : Adds(h, f, SUBSET D)
<1> DEFINE Without == {n \in Nat : ~ \E h : Adds(h, f, Small(D, n))}
<1>1. Without = {}
  <2>1. SUFFICES ASSUME Without # {} PROVE FALSE
    OBVIOUS
  <2>2. PICK n \in Without : \A k \in Without : n <= k
    <3>1. Without \in SUBSET Nat
      OBVIOUS
    <3> HIDE DEF Without
    <3> QED
      BY <2>1, <3>1, LeastNatural
  <2>3. n \in Nat
    OBVIOUS
  <2>4. PICK h : n # 0 => Adds(h, f, Small(D, n - 1))
    <3>1. n # 0 => n - 1 \in Nat /\ ~(n <= n - 1)
      BY <2>3
    <3> QED
      BY <2>2, <3>1
  <2> DEFINE g == [S \in Small(D, n) |->
                     IF S = {} THEN 0 ELSE f[Some(S)] + h[S \ {Some(S)}]]
  <2>5. ASSUME NEW S \in Small(D, n), S # {}
        PROVE  h[S \ {Some(S)}] = g[S \ {Some(S)}]
    <3> DEFINE R == S \ {Some(S)}
    <3>1. n # 0 /\ R \in Small(D, n - 1)
      BY <2>3, <2>5, RestIsSmaller
    <3>2. R \in Small(D, n)
      BY <2>3, <3>1, SmallSets DEF Small
    <3>3. g[R] = IF R = {} THEN 0 ELSE f[Some(R)] + h[R \ {Some(R)}]
      BY <3>2
    <3> HIDE DEF R, g
    <3>4. h[R] = IF R = {} THEN 0 ELSE f[Some(R)] + h[R \ {Some(R)}]
      BY <2>4, <3>1 DEF Adds
    <3> QED
      BY <3>3, <3>4 DEF R
  <2>6. Adds(g, f, Small(D, n))
    BY <2>5, Zenon DEF Adds
  <2> QED
    BY <2>3, <2>6
<1>2. Cardinality(D) \notin Without /\ Cardinality(D) \in Nat
  BY <1>1, SmallSets
<1>3. PICK h : Adds(h, f, Small(D, Cardinality(D)))
  BY <1>2
<1> QED
  BY <1>3, SmallSets

\* Total is the sum.
LEMMA TotalIsSum ==
  ASSUME NEW D, IsFiniteSet(D), NEW f, DOMAIN f = D
  PROVE  \E h : Adds(h, f, SUBSET D) /\ Total(f) = h[D]
<1> DEFINE h == CHOOSE g : g = [S \in SUBSET D |->
                   IF S = {} THEN 0
                   ELSE f[CHOOSE x \in S : TRUE] + g[S \ {CHOOSE x \in S : TRUE}]]
<1>1. Total(f) = h[D]
  BY DEF Total, MapThenSumSet, MapThenFoldSet
<1>2. Adds(h, f, SUBSET D)
  <2>1. \E g : Adds(g, f, SUBSET D)
    BY SumExists
  <2> QED
    BY <2>1 DEF Adds, Some
<1> HIDE DEF h
<1> QED
  BY <1>1, <1>2

\* Induction over the subsets of a finite set.
LEMMA SumInduction ==
  ASSUME NEW D, IsFiniteSet(D), NEW Good \in SUBSET SUBSET D, {} \in Good,
         \A S \in SUBSET D : S # {} /\ S \ {Some(S)} \in Good => S \in Good
  PROVE  D \in Good
<1> DEFINE Bad == {n \in Nat : \E S \in SUBSET D : Cardinality(S) = n /\ S \notin Good}
<1>1. Bad = {}
  <2>1. SUFFICES ASSUME Bad # {} PROVE FALSE
    OBVIOUS
  <2>2. PICK n \in Bad : \A k \in Bad : n <= k
    <3>1. Bad \in SUBSET Nat
      OBVIOUS
    <3> HIDE DEF Bad
    <3> QED
      BY <2>1, <3>1, LeastNatural
  <2>3. PICK S \in SUBSET D : Cardinality(S) = n /\ S \notin Good
    OBVIOUS
  <2> DEFINE R == S \ {Some(S)}
  <2>4. n \in Nat /\ S \in Small(D, n) /\ S # {}
    BY <2>3, SmallSets
  <2>5. n # 0 /\ R \in Small(D, n - 1)
    BY <2>4, RestIsSmaller
  <2>6. R \in SUBSET D /\ Cardinality(R) \in Nat /\ Cardinality(R) <= n - 1
    BY <2>5, SmallSets DEF Small
  <2>7. ~(n <= Cardinality(R))
    BY <2>4, <2>6
  <2>8. Cardinality(R) \notin Bad
    <3> HIDE DEF Bad, R
    <3> QED
      BY <2>2, <2>7
  <2>9. R \in Good
    BY <2>6, <2>8
  <2> QED
    BY <2>3, <2>4, <2>9
<1>2. Cardinality(D) \in Nat /\ D \in SUBSET D
  BY SmallSets
<1> QED
  BY <1>1, <1>2

\* Two sums of the same values are equal.
LEMMA SumUnique ==
  ASSUME NEW D, IsFiniteSet(D), NEW f, NEW g, NEW F, NEW G, NEW X, NEW Y,
         SUBSET D \subseteq X, SUBSET D \subseteq Y, Adds(F, f, X), Adds(G, g, Y),
         \A x \in D : f[x] = g[x]
  PROVE  F[D] = G[D]
<1> DEFINE Good == {S \in SUBSET D : F[S] = G[S]}
<1>1. {} \in Good
  BY DEF Adds
<1>2. ASSUME NEW S \in SUBSET D, S # {}, S \ {Some(S)} \in Good
      PROVE  S \in Good
  <2>1. Some(S) \in S
    BY <1>2 DEF Some
  <2>2. S \in X /\ S \in Y
    OBVIOUS
  <2>3. /\ F[S] = f[Some(S)] + F[S \ {Some(S)}]
        /\ G[S] = g[Some(S)] + G[S \ {Some(S)}]
    BY <1>2, <2>2, Zenon DEF Adds
  <2>4. F[S \ {Some(S)}] = G[S \ {Some(S)}] /\ f[Some(S)] = g[Some(S)]
    BY <1>2, <2>1
  <2>5. F[S] = G[S]
    BY <2>3, <2>4, Zenon
  <2> QED
    BY <2>5
<1>3. D \in Good
  <2>1. Good \in SUBSET SUBSET D
    OBVIOUS
  <2> HIDE DEF Good
  <2> QED
    BY <1>1, <1>2, <2>1, SumInduction
<1> QED
  BY <1>3 DEF Good

\* f on S only.
Part(f, S) == [x \in S |-> f[x]]

LEMMA TotalStep ==
  ASSUME NEW S, IsFiniteSet(S), NEW f
  PROVE  Total(Part(f, S)) =
           IF S = {} THEN 0 ELSE f[Some(S)] + Total(Part(f, S \ {Some(S)}))
<1> DEFINE x == Some(S)
           R == S \ {x}
<1>1. IsFiniteSet(R) /\ DOMAIN Part(f, S) = S /\ DOMAIN Part(f, R) = R
  BY FS_Subset DEF Part
<1>2. PICK F : Adds(F, Part(f, S), SUBSET S) /\ Total(Part(f, S)) = F[S]
  BY <1>1, TotalIsSum
<1>3. PICK G : Adds(G, Part(f, R), SUBSET R) /\ Total(Part(f, R)) = G[R]
  BY <1>1, TotalIsSum
<1>4. CASE S = {}
  BY <1>2, <1>4 DEF Adds
<1>5. CASE S # {}
  <2>1. x \in S
    BY <1>5 DEF Some
  <2>2. F[S] = Part(f, S)[x] + F[R]
    BY <1>2, <1>5 DEF Adds
  <2>3. Part(f, S)[x] = f[x]
    BY <2>1 DEF Part
  <2>4. F[R] = G[R]
    <3>1. SUBSET R \subseteq SUBSET S /\ SUBSET R \subseteq SUBSET R
      OBVIOUS
    <3>2. \A y \in R : Part(f, S)[y] = Part(f, R)[y]
      BY DEF Part
    <3> HIDE DEF R
    <3> QED
      BY <1>1, <1>2, <1>3, <3>1, <3>2, SumUnique
  <2> QED
    BY <1>2, <1>3, <1>5, <2>2, <2>3, <2>4
<1> QED
  BY <1>4, <1>5

LEMMA TotalType ==
  ASSUME NEW D, IsFiniteSet(D), NEW f \in [D -> Int]
  PROVE  Total(f) \in Int
<1> DEFINE Good == {S \in SUBSET D : Total(Part(f, S)) \in Int}
<1>1. {} \in Good
  <2>1. Total(Part(f, {})) = 0
    BY TotalStep, FS_EmptySet
  <2> QED
    BY <2>1
<1>2. ASSUME NEW S \in SUBSET D, S # {}, S \ {Some(S)} \in Good
      PROVE  S \in Good
  <2>1. Some(S) \in S /\ IsFiniteSet(S)
    BY <1>2, FS_Subset DEF Some
  <2>2. Total(Part(f, S)) = f[Some(S)] + Total(Part(f, S \ {Some(S)}))
    BY <1>2, <2>1, TotalStep
  <2>3. f[Some(S)] \in Int /\ Total(Part(f, S \ {Some(S)})) \in Int
    BY <1>2, <2>1
  <2>4. Total(Part(f, S)) \in Int
    BY <2>2, <2>3
  <2> QED
    BY <2>4
<1>3. D \in Good
  <2>1. Good \in SUBSET SUBSET D
    OBVIOUS
  <2> HIDE DEF Good
  <2> QED
    BY <1>1, <1>2, <2>1, SumInduction
<1>4. Part(f, D) = f
  BY DEF Part
<1> QED
  BY <1>3, <1>4 DEF Good

\* One step of a sum of integers.
LEMMA TotalRestType ==
  ASSUME NEW D, IsFiniteSet(D), NEW f \in [D -> Int], NEW S \in SUBSET D, S # {}
  PROVE  /\ Some(S) \in S /\ f[Some(S)] \in Int
         /\ Total(Part(f, S \ {Some(S)})) \in Int
<1> DEFINE R == S \ {Some(S)}
<1>1. Some(S) \in S /\ IsFiniteSet(R)
  BY FS_Subset DEF Some
<1>2. Part(f, R) \in [R -> Int]
  BY DEF Part
<1>3. Total(Part(f, R)) \in Int
  BY <1>1, <1>2, TotalType
<1> QED
  BY <1>1, <1>3

LEMMA TotalRest ==
  ASSUME NEW D, IsFiniteSet(D), NEW f \in [D -> Int], NEW S \in SUBSET D, S # {}
  PROVE  Total(Part(f, S)) = f[Some(S)] + Total(Part(f, S \ {Some(S)}))
BY FS_Subset, TotalStep

LEMMA TotalNone == ASSUME NEW f PROVE Total(Part(f, {})) = 0
BY TotalStep, FS_EmptySet

LEMMA TotalMonotone ==
  ASSUME NEW D, IsFiniteSet(D), NEW f \in [D -> Int], NEW g \in [D -> Int],
         \A x \in D : f[x] <= g[x]
  PROVE  Total(f) <= Total(g)
<1> DEFINE Good == {S \in SUBSET D : Total(Part(f, S)) <= Total(Part(g, S))}
<1>1. {} \in Good
  BY TotalNone
<1>2. ASSUME NEW S \in SUBSET D, S # {}, S \ {Some(S)} \in Good
      PROVE  S \in Good
  <2>1. f[Some(S)] <= g[Some(S)]
    BY <1>2, TotalRestType
  <2>2. Total(Part(f, S \ {Some(S)})) <= Total(Part(g, S \ {Some(S)}))
    BY <1>2
  <2>3. Total(Part(f, S)) <= Total(Part(g, S))
    <3> HIDE DEF Good
    <3> QED
      BY <1>2, <2>1, <2>2, TotalRest, TotalRestType
  <2> QED
    BY <2>3
<1>3. D \in Good
  <2>1. Good \in SUBSET SUBSET D
    OBVIOUS
  <2> HIDE DEF Good
  <2> QED
    BY <1>1, <1>2, <2>1, SumInduction
<1>4. Part(f, D) = f /\ Part(g, D) = g
  BY DEF Part
<1> QED
  BY <1>3, <1>4

LEMMA TimesSum ==
  ASSUME NEW k \in Int, NEW a \in Int, NEW b \in Int, NEW c \in Int, NEW d \in Int
  PROVE  (k * a + b) + (k * c + d) = k * (a + c) + (b + d)
OBVIOUS

LEMMA TotalLinear ==
  ASSUME NEW D, IsFiniteSet(D), NEW k \in Int, NEW f \in [D -> Int], NEW g \in [D -> Int],
         NEW h \in [D -> Int], \A x \in D : h[x] = k * f[x] + g[x]
  PROVE  Total(h) = k * Total(f) + Total(g)
<1> DEFINE Good == {S \in SUBSET D :
                      Total(Part(h, S)) = k * Total(Part(f, S)) + Total(Part(g, S))}
<1>1. {} \in Good
  <2>1. k * 0 + 0 = 0
    OBVIOUS
  <2> QED
    BY <2>1, TotalNone
<1>2. ASSUME NEW S \in SUBSET D, S # {}, S \ {Some(S)} \in Good
      PROVE  S \in Good
  <2> DEFINE OneStep(e) ==
               /\ Some(S) \in S /\ e[Some(S)] \in Int
               /\ Total(Part(e, S \ {Some(S)})) \in Int
               /\ Total(Part(e, S)) = e[Some(S)] + Total(Part(e, S \ {Some(S)}))
  <2>1. ASSUME NEW e \in [D -> Int] PROVE OneStep(e)
    <3> HIDE DEF Good
    <3>1. /\ Some(S) \in S /\ e[Some(S)] \in Int
          /\ Total(Part(e, S \ {Some(S)})) \in Int
      BY <1>2, TotalRestType
    <3>2. Total(Part(e, S)) = e[Some(S)] + Total(Part(e, S \ {Some(S)}))
      BY <1>2, TotalRest
    <3> QED
      BY <3>1, <3>2
  <2>2. OneStep(f) /\ OneStep(g) /\ OneStep(h)
    BY <2>1, Zenon
  <2> DEFINE x == Some(S)
             R == S \ {x}
  <2>3. Total(Part(h, R)) = k * Total(Part(f, R)) + Total(Part(g, R))
    BY <1>2
  <2>4. h[x] = k * f[x] + g[x]
    BY <2>2
  <2>5. /\ Total(Part(f, S)) = f[x] + Total(Part(f, R))
        /\ Total(Part(g, S)) = g[x] + Total(Part(g, R))
        /\ Total(Part(h, S)) = h[x] + Total(Part(h, R))
        /\ f[x] \in Int /\ g[x] \in Int
        /\ Total(Part(f, R)) \in Int /\ Total(Part(g, R)) \in Int
    BY <2>2, Zenon
  <2>6. Total(Part(h, S)) = k * Total(Part(f, S)) + Total(Part(g, S))
    <3> HIDE DEF Good, x, R
    <3>1. Total(Part(h, S)) = (k * f[x] + g[x]) + (k * Total(Part(f, R)) + Total(Part(g, R)))
      BY <2>3, <2>4, <2>5, Zenon
    <3> QED
      BY <2>5, <3>1, TimesSum
  <2> QED
    BY <2>6
<1>3. D \in Good
  <2>1. Good \in SUBSET SUBSET D
    OBVIOUS
  <2> HIDE DEF Good
  <2> QED
    BY <1>1, <1>2, <2>1, SumInduction
<1>4. Part(f, D) = f /\ Part(g, D) = g /\ Part(h, D) = h
  BY DEF Part
<1> QED
  BY <1>3, <1>4

LEMMA TotalZero ==
  ASSUME NEW D, IsFiniteSet(D), NEW f \in [D -> Int], \A x \in D : f[x] = 0
  PROVE  Total(f) = 0
<1>1. \A x \in D : f[x] = 1 * f[x] + f[x]
  OBVIOUS
<1>2. Total(f) = 1 * Total(f) + Total(f)
  BY <1>1, TotalLinear
<1>3. PICK t \in Int : t = Total(f)
  BY TotalType, Zenon
<1>4. t = 1 * t + t => t = 0
  OBVIOUS
<1> QED
  BY <1>2, <1>3, <1>4, Zenon

LEMMA TotalScaled ==
  ASSUME NEW D, IsFiniteSet(D), NEW k \in Int, NEW f \in [D -> Int], NEW h \in [D -> Int]
  PROVE  (\A x \in D : h[x] = k * f[x]) => Total(h) = k * Total(f)
<1>1. ASSUME \A x \in D : h[x] = k * f[x]
      PROVE  Total(h) = k * Total(f)
  <2> DEFINE zero == [x \in D |-> 0]
  <2>0. zero \in [D -> Int]
    OBVIOUS
  <2>1. \A x \in D : zero[x] = 0
    OBVIOUS
  <2> HIDE DEF zero
  <2>2. \A x \in D : h[x] = k * f[x] + zero[x]
    BY <1>1, <2>1
  <2>3. Total(h) = k * Total(f) + Total(zero)
    BY <2>0, <2>2, TotalLinear
  <2>4. Total(zero) = 0
    BY <2>0, <2>1, TotalZero
  <2>5. PICK t \in Int : t = Total(f)
    BY TotalType, Zenon
  <2>6. k * t + 0 = k * t
    OBVIOUS
  <2> QED
    BY <2>3, <2>4, <2>5, <2>6, Zenon
<1> QED
  BY <1>1

LEMMA TotalDifference ==
  ASSUME NEW D, IsFiniteSet(D), NEW f \in [D -> Int], NEW g \in [D -> Int], NEW h \in [D -> Int]
  PROVE  (\A x \in D : h[x] = f[x] - g[x]) => Total(h) = Total(f) - Total(g)
<1>1. ASSUME \A x \in D : h[x] = f[x] - g[x]
      PROVE  Total(h) = Total(f) - Total(g)
  <2>1. \A x \in D : f[x] = 1 * h[x] + g[x]
    BY <1>1
  <2>2. Total(f) = 1 * Total(h) + Total(g)
    BY <2>1, TotalLinear
  <2>3. PICK s \in Int, t \in Int : s = Total(h) /\ t = Total(g)
    BY TotalType, Zenon
  <2>4. s = (1 * s + t) - t
    OBVIOUS
  <2> QED
    BY <2>2, <2>3, <2>4, Zenon
<1> QED
  BY <1>1

\* A sum with one summand that is not 0.
LEMMA TotalSingle ==
  ASSUME NEW D, IsFiniteSet(D), NEW f \in [D -> Int], NEW i \in D,
         \A x \in D \ {i} : f[x] = 0
  PROVE  Total(f) = f[i]
<1> DEFINE Good == {S \in SUBSET D : Total(Part(f, S)) = IF i \in S THEN f[i] ELSE 0}
<1>1. {} \in Good
  BY TotalNone
<1>2. ASSUME NEW S \in SUBSET D, S # {}, S \ {Some(S)} \in Good
      PROVE  S \in Good
  <2>1. Total(Part(f, S \ {Some(S)})) = IF i \in S \ {Some(S)} THEN f[i] ELSE 0
    BY <1>2
  <2>2. Total(Part(f, S)) = IF i \in S THEN f[i] ELSE 0
    <3> HIDE DEF Good
    <3> QED
      BY <1>2, <2>1, TotalRest, TotalRestType
  <2> QED
    BY <2>2
<1>3. D \in Good
  <2>1. Good \in SUBSET SUBSET D
    OBVIOUS
  <2> HIDE DEF Good
  <2> QED
    BY <1>1, <1>2, <2>1, SumInduction
<1>4. Part(f, D) = f
  BY DEF Part
<1> QED
  BY <1>3, <1>4

\* The rows or the columns first.
LEMMA TotalSwap ==
  ASSUME NEW D, IsFiniteSet(D), NEW E, IsFiniteSet(E), NEW F \in [D -> [E -> Int]]
  PROVE  Total([x \in D |-> Total(F[x])]) = Total([y \in E |-> Total([x \in D |-> F[x][y]])])
<1> DEFINE rows    == [x \in D |-> Total(F[x])]
           col(y)  == [x \in D |-> F[x][y]]
           cols(S) == [y \in E |-> Total(Part(col(y), S))]
           Good    == {S \in SUBSET D : Total(Part(rows, S)) = Total(cols(S))}
<1>0. rows \in [D -> Int]
  BY TotalType
<1>1. \A y \in E : col(y) \in [D -> Int]
  OBVIOUS
<1>2. ASSUME NEW S \in SUBSET D PROVE cols(S) \in [E -> Int]
  <2>1. ASSUME NEW y \in E PROVE Total(Part(col(y), S)) \in Int
    <3>1. IsFiniteSet(S) /\ Part(col(y), S) \in [S -> Int]
      BY FS_Subset DEF Part
    <3> QED
      BY <3>1, TotalType
  <2> QED
    BY <2>1
<1>3. {} \in Good
  <2>1. \A y \in E : cols({})[y] = 0
    BY TotalNone
  <2>2. cols({}) \in [E -> Int]
    BY <1>2
  <2>3. Total(cols({})) = 0
    <3> HIDE DEF cols
    <3> QED
      BY <2>1, <2>2, TotalZero
  <2>4. Total(Part(rows, {})) = 0
    BY TotalNone
  <2> QED
    BY <2>3, <2>4
<1>4. ASSUME NEW S \in SUBSET D, S # {}, S \ {Some(S)} \in Good
      PROVE  S \in Good
  <2> DEFINE OneStep(e) ==
               /\ Some(S) \in S /\ e[Some(S)] \in Int
               /\ Total(Part(e, S)) = e[Some(S)] + Total(Part(e, S \ {Some(S)}))
  <2>1. ASSUME NEW e \in [D -> Int] PROVE OneStep(e)
    <3> HIDE DEF Good
    <3>1. /\ Some(S) \in S /\ e[Some(S)] \in Int
          /\ Total(Part(e, S \ {Some(S)})) \in Int
      BY <1>4, TotalRestType
    <3>2. Total(Part(e, S)) = e[Some(S)] + Total(Part(e, S \ {Some(S)}))
      BY <1>4, TotalRest
    <3> QED
      BY <3>1, <3>2
  <2> DEFINE x == Some(S)
             R == S \ {x}
  <2>2. Total(Part(rows, R)) = Total(cols(R))
    BY <1>4
  <2>3. x \in D /\ Total(Part(rows, S)) = rows[x] + Total(Part(rows, R))
    BY <1>0, <2>1, Zenon
  <2>4. ASSUME NEW y \in E PROVE cols(S)[y] = 1 * F[x][y] + cols(R)[y]
    <3>1. /\ Total(Part(col(y), S)) = col(y)[x] + Total(Part(col(y), R))
          /\ col(y)[x] \in Int
      BY <1>1, <2>1, Zenon
    <3>2. col(y)[x] = F[x][y]
      BY <2>3
    <3> QED
      BY <3>1, <3>2
  <2>5. Total(cols(S)) = 1 * Total(F[x]) + Total(cols(R))
    <3>1. F[x] \in [E -> Int] /\ cols(S) \in [E -> Int] /\ cols(R) \in [E -> Int]
      BY <1>2, <2>3
    <3> HIDE DEF cols, x, R
    <3> QED
      BY <2>4, <3>1, TotalLinear
  <2>6. Total(F[x]) \in Int /\ rows[x] = Total(F[x])
    BY <2>3, TotalType
  <2>7. Total(Part(rows, S)) = Total(cols(S))
    <3> HIDE DEF cols, x, R, rows
    <3> QED
      BY <2>2, <2>3, <2>5, <2>6
  <2> QED
    BY <2>7
<1>5. D \in Good
  <2>1. Good \in SUBSET SUBSET D
    OBVIOUS
  <2> HIDE DEF Good
  <2> QED
    BY <1>3, <1>4, <2>1, SumInduction
<1>6. Part(rows, D) = rows /\ \A y \in E : Part(col(y), D) = col(y)
  BY DEF Part
<1>7. cols(D) = [y \in E |-> Total(col(y))]
  BY <1>6
<1> QED
  BY <1>5, <1>6, <1>7

-----------------------------------------------------------------------------
\* Products and quotients.
LEMMA TimesMonotone ==
  ASSUME NEW c \in Nat, NEW x \in Int, NEW y \in Int, x <= y
  PROVE  c * x <= c * y
OBVIOUS

LEMMA TimesStrict ==
  ASSUME NEW c \in Nat \ {0}, NEW x \in Int, NEW y \in Int, c * x <= c * y
  PROVE  x <= y
<1>1. y + 1 <= x => c * (y + 1) <= c * x
  BY TimesMonotone
<1>2. c * (y + 1) = c * y + c
  OBVIOUS
<1> QED
  BY <1>1, <1>2

LEMMA TimesInt == \A x, y \in Int : x * y \in Int
OBVIOUS

LEMMA TimesNat == \A x, y \in Nat : x * y \in Nat
OBVIOUS

\* The quotient rounded up is the least number that is not below it.
LEMMA CeilDivLeast ==
  ASSUME NEW n \in Int, NEW d \in Nat \ {0}
  PROVE  /\ CeilDiv(n, d) \in Int
         /\ \A m \in Int : n <= d * m <=> CeilDiv(n, d) <= m
<1> DEFINE quo == (-n) \div d
<1>1. quo \in Int /\ d * quo <= -n /\ -n < d * quo + d
  OBVIOUS
<1>2. CeilDiv(n, d) = -quo
  BY DEF CeilDiv
<1> HIDE DEF quo
<1>3. ASSUME NEW m \in Int PROVE n <= d * m <=> -quo <= m
  <2>1. CASE -quo <= m
    <3>1. d * (-m) <= d * quo
      BY <1>1, <2>1, TimesMonotone
    <3>2. d * (-m) = -(d * m) /\ d * m \in Int /\ d * quo \in Int
      BY <1>1
    <3> QED
      BY <1>1, <2>1, <3>1, <3>2
  <2>2. CASE m + 1 <= -quo
    <3>1. d * (quo + 1) <= d * (-m)
      BY <1>1, <2>2, TimesMonotone
    <3>2. d * (-m) = -(d * m) /\ d * (quo + 1) = d * quo + d /\ d * m \in Int /\ d * quo \in Int
      BY <1>1
    <3> QED
      BY <1>1, <2>2, <3>1, <3>2
  <2> QED
    BY <1>1, <2>1, <2>2
<1> QED
  BY <1>1, <1>2, <1>3

-----------------------------------------------------------------------------
\* Sums over the states.
LEMMA Finite == IsFiniteSet(State) /\ IsFiniteSet(Observation)
BY PomdpAssumption

LEMMA BeliefType ==
  ASSUME NEW b \in Belief
  PROVE  /\ b \in [State -> Nat] /\ b \in [State -> Int]
         /\ Support(b) # {} /\ Support(b) \subseteq State
         /\ First(b) \in Support(b) /\ b[First(b)] = 1
         /\ \A i \in Support(b) : First(b) <= i
<1>1. b \in [State -> Nat] /\ Support(b) # {} /\ b[First(b)] = 1
  BY PomdpAssumption
<1>2. Support(b) \in SUBSET Nat /\ Support(b) \subseteq State
  BY PomdpAssumption DEF Support
<1>3. \E i \in Support(b) : \A j \in Support(b) : i <= j
  BY <1>1, <1>2, LeastNatural
<1>4. First(b) \in Support(b) /\ \A i \in Support(b) : First(b) <= i
  BY <1>3 DEF First, Min
<1> QED
  BY <1>1, <1>2, <1>4

LEMMA InnerType ==
  ASSUME NEW v \in Vector, NEW b \in [State -> Int]
  PROVE  Inner(v, b) \in Int
<1>1. \A i \in State : v[i] \in Int /\ b[i] \in Int
  BY DEF Vector
<1>2. [i \in State |-> b[i] * v[i]] \in [State -> Int]
  BY <1>1, TimesInt
<1> QED
  BY <1>2, Finite, TotalType DEF Inner

LEMMA InnerMonotone ==
  ASSUME NEW v \in Vector, NEW w \in Vector, NEW b \in Belief, \A i \in State : v[i] <= w[i]
  PROVE  Inner(v, b) <= Inner(w, b)
<1>1. \A i \in State : v[i] \in Int /\ w[i] \in Int /\ b[i] \in Nat
  BY BeliefType DEF Vector
<1>2. \A i \in State : b[i] * v[i] <= b[i] * w[i] /\ b[i] * v[i] \in Int /\ b[i] * w[i] \in Int
  BY <1>1, TimesMonotone, TimesInt
<1> DEFINE f == [i \in State |-> b[i] * v[i]]
           g == [i \in State |-> b[i] * w[i]]
<1>3. f \in [State -> Int] /\ g \in [State -> Int] /\ \A i \in State : f[i] <= g[i]
  BY <1>2
<1> HIDE DEF f, g
<1>4. Total(f) <= Total(g)
  BY <1>3, Finite, TotalMonotone
<1> QED
  BY <1>4 DEF Inner, f, g

\* The difference of two vectors.
Minus(v, w) == [i \in State |-> v[i] - w[i]]

LEMMA InnerMinus ==
  ASSUME NEW v \in Vector, NEW w \in Vector, NEW b \in Belief
  PROVE  Minus(v, w) \in Vector /\ Inner(Minus(v, w), b) = Inner(v, b) - Inner(w, b)
<1>1. \A i \in State : v[i] \in Int /\ w[i] \in Int /\ b[i] \in Int
  BY BeliefType DEF Vector
<1>2. Minus(v, w) \in Vector
  BY <1>1 DEF Minus, Vector
<1> DEFINE f == [i \in State |-> b[i] * v[i]]
           g == [i \in State |-> b[i] * w[i]]
           h == [i \in State |-> b[i] * Minus(v, w)[i]]
<1>3. f \in [State -> Int] /\ g \in [State -> Int] /\ h \in [State -> Int]
  <2>1. \A i \in State : Minus(v, w)[i] \in Int
    BY <1>2 DEF Vector
  <2> QED
    BY <1>1, <2>1, TimesInt
<1>4. ASSUME NEW i \in State PROVE h[i] = f[i] - g[i]
  <2>1. b[i] * (v[i] - w[i]) = b[i] * v[i] - b[i] * w[i]
    BY <1>1
  <2> QED
    BY <2>1 DEF Minus
<1>5. Total(h) = Total(f) - Total(g)
  <2> HIDE DEF f, g, h
  <2> QED
    BY <1>3, <1>4, Finite, TotalDifference
<1> QED
  BY <1>2, <1>5 DEF Inner

\* b has at least n / d of the weight that c has in each state.
LEMMA InnerScaled ==
  ASSUME NEW u \in Vector, \A i \in State : 0 <= u[i],
         NEW b \in Belief, NEW c \in Belief, NEW n \in Nat, NEW d \in Nat,
         \A i \in State : n * c[i] <= d * b[i]
  PROVE  n * Inner(u, c) <= d * Inner(u, b)
<1>1. \A i \in State : u[i] \in Nat /\ b[i] \in Nat /\ c[i] \in Nat
  BY BeliefType DEF Vector
<1> DEFINE f == [i \in State |-> c[i] * u[i]]
           g == [i \in State |-> b[i] * u[i]]
           nf == [i \in State |-> n * f[i]]
           dg == [i \in State |-> d * g[i]]
<1>2. \A i \in State : f[i] \in Nat /\ g[i] \in Nat /\ nf[i] \in Nat /\ dg[i] \in Nat
  BY <1>1, TimesNat
<1>3. /\ f \in [State -> Int] /\ g \in [State -> Int] 
      /\ nf \in [State -> Int] /\ dg \in [State -> Int]
  BY <1>2
<1>4. ASSUME NEW i \in State PROVE nf[i] <= dg[i]
  <2>1. u[i] * (n * c[i]) <= u[i] * (d * b[i])
    BY <1>1, TimesMonotone, TimesNat
  <2>2. u[i] * (n * c[i]) = n * (c[i] * u[i]) /\ u[i] * (d * b[i]) = d * (b[i] * u[i])
    BY <1>1
  <2> QED
    BY <2>1, <2>2
<1>5. Total(nf) <= Total(dg)
  <2>1. \A i \in State : nf[i] <= dg[i]
    BY <1>4
  <2> HIDE DEF nf, dg
  <2> QED
    BY <1>3, <2>1, Finite, TotalMonotone
<1>6. Total(nf) = n * Total(f)
  <2>1. \A i \in State : nf[i] = n * f[i]
    OBVIOUS
  <2> HIDE DEF nf, f
  <2> QED
    BY <1>3, <2>1, Finite, TotalScaled
<1>7. Total(dg) = d * Total(g)
  <2>1. \A i \in State : dg[i] = d * g[i]
    OBVIOUS
  <2> HIDE DEF dg, g
  <2> QED
    BY <1>3, <2>1, Finite, TotalScaled
<1> QED
  BY <1>5, <1>6, <1>7 DEF Inner

\* At a corner a vector has the value of its state.
LEMMA InnerCorner ==
  ASSUME NEW v \in Vector, NEW b \in Belief, IsCorner(b)
  PROVE  Inner(v, b) = v[First(b)]
<1>1. \A i \in State : v[i] \in Int /\ b[i] \in Nat
  BY BeliefType DEF Vector
<1>2. ASSUME NEW i \in State, i # First(b) PROVE b[i] = 0
  <2>1. IsFiniteSet(Support(b))
    BY Finite, FS_Subset, BeliefType
  <2>2. PICK x : Support(b) = {x}
    BY <2>1, FS_Singleton DEF IsCorner
  <2>3. i \notin Support(b)
    BY <1>2, <2>2, BeliefType
  <2> QED
    BY <1>1, <2>3 DEF Support
<1> DEFINE f == [i \in State |-> b[i] * v[i]]
<1>3. f \in [State -> Int]
  BY <1>1, TimesInt
<1>4. \A i \in State \ {First(b)} : f[i] = 0
  BY <1>1, <1>2
<1>5. First(b) \in State /\ f[First(b)] = v[First(b)]
  BY <1>1, BeliefType
<1>6. Total(f) = f[First(b)]
  <2> HIDE DEF f
  <2> QED
    BY <1>3, <1>4, <1>5, Finite, TotalSingle
<1> QED
  BY <1>5, <1>6 DEF Inner

-----------------------------------------------------------------------------
\* The value that a point induces.
LEMMA RatioTransitive ==
  ASSUME NEW bi \in Nat, NEW bj \in Nat, NEW bk \in Nat,
         NEW ci \in Nat \ {0}, NEW cj \in Nat \ {0}, NEW ck \in Nat \ {0},
         bi * cj <= bj * ci, bj * ck <= bk * cj
  PROVE  bi * ck <= bk * ci
<1>1. ck * (bi * cj) <= ck * (bj * ci)
  BY TimesMonotone, TimesNat
<1>2. ci * (bj * ck) <= ci * (bk * cj)
  BY TimesMonotone, TimesNat
<1>3. /\ ck * (bi * cj) = cj * (bi * ck) /\ ck * (bj * ci) = ci * (bj * ck)
      /\ ci * (bk * cj) = cj * (bk * ci)
  OBVIOUS
<1>4. /\ cj * (bi * ck) \in Int /\ ci * (bj * ck) \in Int /\ cj * (bk * ci) \in Int
      /\ bi * ck \in Int /\ bk * ci \in Int
  BY TimesInt
<1>5. cj * (bi * ck) <= cj * (bk * ci)
  BY <1>1, <1>2, <1>3, <1>4
<1> QED
  BY <1>4, <1>5, TimesStrict

LEMMA RatioExists ==
  ASSUME NEW b \in Belief, NEW c \in Belief
  PROVE  \E i \in Support(c) : \A j \in Support(c) : b[i] * c[j] <= b[j] * c[i]
<1> DEFINE D == Support(c)
           Best(S) == \E i \in S : \A j \in S : b[i] * c[j] <= b[j] * c[i]
           Good == {S \in SUBSET D : S = {} \/ Best(S)}
<1>1. /\ D \subseteq State /\ D # {} /\ IsFiniteSet(D)
      /\ \A i \in D : b[i] \in Nat /\ c[i] \in Nat \ {0}
  <2>1. D \subseteq State /\ D # {} /\ IsFiniteSet(D)
    BY BeliefType, Finite, FS_Subset
  <2>2. \A i \in State : b[i] \in Nat /\ c[i] \in Nat
    BY BeliefType
  <2> QED
    BY <2>1, <2>2 DEF Support
<1>2. ASSUME NEW S \in SUBSET D, S # {}, S \ {Some(S)} \in Good
      PROVE  S \in Good
  <2> DEFINE x == Some(S)
  <2>1. x \in S /\ x \in D
    BY <1>2 DEF Some
  <2>2. CASE S \ {x} = {}
    <3>1. \A j \in S : j = x
      BY <2>2
    <3>2. b[x] * c[x] <= b[x] * c[x]
      BY <1>1, <2>1
    <3>3. Best(S)
      BY <2>1, <3>1, <3>2
    <3> QED
      BY <3>3
  <2>3. CASE Best(S \ {x})
    <3>1. PICK i \in S \ {x} : \A j \in S \ {x} : b[i] * c[j] <= b[j] * c[i]
      BY <2>3
    <3> HIDE DEF x, D, Good
    <3>2. i \in D /\ x \in D /\ S \subseteq D
      BY <1>2, <2>1, <3>1
    <3>3. b[i] \in Nat /\ b[x] \in Nat /\ c[i] \in Nat \ {0} /\ c[x] \in Nat \ {0}
      BY <1>1, <3>2
    <3>4. CASE b[i] * c[x] <= b[x] * c[i]
      <4>1. \A j \in S : b[i] * c[j] <= b[j] * c[i]
        BY <3>1, <3>4
      <4> QED
        BY <3>1, <4>1 DEF Good
    <3>5. CASE b[x] * c[i] <= b[i] * c[x]
      <4>1. ASSUME NEW j \in S \ {x} PROVE b[x] * c[j] <= b[j] * c[x]
        <5>1. b[j] \in Nat /\ c[j] \in Nat \ {0}
          BY <1>1, <3>2
        <5>2. b[i] * c[j] <= b[j] * c[i]
          BY <3>1
        <5> QED
          BY <3>3, <3>5, <5>1, <5>2, RatioTransitive
      <4>2. b[x] * c[x] <= b[x] * c[x]
        BY <3>3
      <4>3. \A j \in S : b[x] * c[j] <= b[j] * c[x]
        BY <4>1, <4>2
      <4> QED
        BY <2>1, <4>3 DEF Good
    <3> QED
      BY <3>3, <3>4, <3>5
  <2> QED
    BY <1>2, <2>2, <2>3
<1>3. D \in Good
  <2>1. Good \in SUBSET SUBSET D /\ {} \in Good
    OBVIOUS
  <2> HIDE DEF Good, D
  <2> QED
    BY <1>1, <1>2, <2>1, SumInduction
<1> QED
  BY <1>1, <1>3

\* b has at least the ratio of the weight of c, and no more in some state.
LEMMA RatioProperties ==
  ASSUME NEW b \in Belief, NEW c \in Belief
  PROVE  \E n \in Nat, d \in Nat \ {0} :
           /\ Ratio(b, c) = <<n, d>>
           /\ \A j \in State : n * c[j] <= d * b[j]
           /\ \E i \in Support(c) : n = b[i] /\ d = c[i]
<1> DEFINE i == CHOOSE i \in Support(c) : \A j \in Support(c) : b[i] * c[j] <= b[j] * c[i]
<1>1. i \in Support(c) /\ \A j \in Support(c) : b[i] * c[j] <= b[j] * c[i]
  <2>1. \E k \in Support(c) : \A j \in Support(c) : b[k] * c[j] <= b[j] * c[k]
    BY RatioExists
  <2> QED
    BY <2>1
<1>2. Ratio(b, c) = <<b[i], c[i]>>
  BY DEF Ratio
<1> HIDE DEF i
<1>3. \A j \in State : b[j] \in Nat /\ c[j] \in Nat
  BY BeliefType
<1>4. i \in State /\ c[i] # 0
  BY <1>1, <1>3 DEF Support
<1>5. ASSUME NEW j \in State PROVE b[i] * c[j] <= c[i] * b[j]
  <2>1. CASE j \in Support(c)
    <3>1. b[i] * c[j] <= b[j] * c[i]
      BY <1>1, <2>1
    <3> QED
      BY <1>3, <1>4, <3>1
  <2>2. CASE j \notin Support(c)
    <3>1. c[j] = 0
      BY <1>3, <2>2 DEF Support
    <3>2. b[i] * 0 = 0 /\ 0 <= c[i] * b[j]
      BY <1>3, <1>4
    <3> QED
      BY <3>1, <3>2
  <2> QED
    BY <2>1, <2>2
<1> QED
  BY <1>1, <1>2, <1>3, <1>4, <1>5

LEMMA BVValueType ==
  ASSUME NEW b \in Belief, NEW c \in Belief, NEW v \in Int, NEW x \in Int, NEW y \in Int
  PROVE  BVValue(b, c, v, x, y) \in Int
<1>1. PICK n \in Nat, d \in Nat \ {0} : Ratio(b, c) = <<n, d>>
  BY RatioProperties
<1>2. BVValue(b, c, v, x, y) = x + CeilDiv(n * (v - y), d)
  BY <1>1 DEF BVValue
<1>3. v - y \in Int /\ n * (v - y) \in Int
  BY TimesInt
<1> QED
  BY <1>2, <1>3, CeilDivLeast

\* What a point induces stays above a vector that the point and the corners
\* are above: the vector gains at b at least the ratio of what it gains at c.
LEMMA BVValueAbove ==
  ASSUME NEW v \in Vector, NEW w \in Vector, \A i \in State : w[i] <= v[i],
         NEW b \in Belief, NEW c \in Belief, NEW val \in Int, Inner(w, c) <= val
  PROVE  Inner(w, b) <= BVValue(b, c, val, Inner(v, b), Inner(v, c))
<1> DEFINE u == Minus(v, w)
<1>1. PICK n \in Nat, d \in Nat \ {0} :
        Ratio(b, c) = <<n, d>> /\ \A j \in State : n * c[j] <= d * b[j]
  BY RatioProperties
<1>2. /\ u \in Vector
      /\ Inner(u, b) = Inner(v, b) - Inner(w, b) /\ Inner(u, c) = Inner(v, c) - Inner(w, c)
  BY InnerMinus
<1>3. \A i \in State : 0 <= u[i]
  BY DEF Minus, Vector
<1> HIDE DEF u
<1>4. n * Inner(u, c) <= d * Inner(u, b)
  BY <1>1, <1>2, <1>3, InnerScaled
<1>5. PICK Vb \in Int, Wb \in Int, Vc \in Int, Wc \in Int :
        Vb = Inner(v, b) /\ Wb = Inner(w, b) /\ Vc = Inner(v, c) /\ Wc = Inner(w, c)
  BY InnerType, BeliefType, Zenon
<1>6. n * (Vc - Wc) <= d * (Vb - Wb) /\ Wc <= val
  BY <1>2, <1>4, <1>5
<1> DEFINE K == CeilDiv(n * (val - Vc), d)
<1>7. BVValue(b, c, val, Vb, Vc) = Vb + K
  BY <1>1 DEF BVValue
<1>8. /\ n * (val - Vc) \in Int /\ K \in Int
      /\ \A m \in Int : n * (val - Vc) <= d * m <=> K <= m
  <2>1. n * (val - Vc) \in Int
    BY TimesInt
  <2> QED
    BY <2>1, CeilDivLeast
<1> HIDE DEF K
<1>9. Wb <= Vb + K
  <2>1. SUFFICES ASSUME K <= Wb - Vb - 1 PROVE FALSE
    BY <1>8
  <2>2. n * (val - Vc) <= d * (Wb - Vb - 1)
    BY <1>8, <2>1
  <2>3. n * (Wc - Vc) <= n * (val - Vc)
    BY <1>6, TimesMonotone
  <2>4. /\ n * (Wc - Vc) = -(n * (Vc - Wc)) /\ d * (Wb - Vb - 1) = -(d * (Vb - Wb)) - d
        /\ n * (Vc - Wc) \in Int /\ d * (Vb - Wb) \in Int
    BY TimesInt
  <2> QED
    BY <1>6, <1>8, <2>2, <2>3, <2>4
<1> QED
  BY <1>5, <1>7, <1>9

\* When corners fall, so does what a point induces; and where they fall below
\* the point, they are as low themselves.
LEMMA BVValueFalls ==
  ASSUME NEW v \in Vector, NEW w \in Vector, \A i \in State : w[i] <= v[i],
         NEW b \in Belief, NEW c \in Belief, NEW val \in Int
  PROVE  /\ BVValue(b, c, val, Inner(w, b), Inner(w, c))
              <= BVValue(b, c, val, Inner(v, b), Inner(v, c))
         /\ Inner(w, c) <= val => Inner(w, b) <= BVValue(b, c, val, Inner(v, b), Inner(v, c))
<1> DEFINE u == Minus(v, w)
<1>1. PICK n \in Nat, d \in Nat \ {0} :
        Ratio(b, c) = <<n, d>> /\ \A j \in State : n * c[j] <= d * b[j]
  BY RatioProperties
<1>2. /\ u \in Vector
      /\ Inner(u, b) = Inner(v, b) - Inner(w, b) /\ Inner(u, c) = Inner(v, c) - Inner(w, c)
  BY InnerMinus
<1>3. \A i \in State : 0 <= u[i]
  BY DEF Minus, Vector
<1> HIDE DEF u
<1>4. n * Inner(u, c) <= d * Inner(u, b)
  BY <1>1, <1>2, <1>3, InnerScaled
<1>5. PICK Vb \in Int, Wb \in Int, Vc \in Int, Wc \in Int :
        Vb = Inner(v, b) /\ Wb = Inner(w, b) /\ Vc = Inner(v, c) /\ Wc = Inner(w, c)
  BY InnerType, BeliefType, Zenon
<1>6. n * (Vc - Wc) <= d * (Vb - Wb)
  BY <1>2, <1>4, <1>5
<1> DEFINE K == CeilDiv(n * (val - Vc), d)
           L == CeilDiv(n * (val - Wc), d)
<1>7. BVValue(b, c, val, Vb, Vc) = Vb + K /\ BVValue(b, c, val, Wb, Wc) = Wb + L
  BY <1>1 DEF BVValue
<1>8. /\ n * (val - Vc) \in Int /\ n * (val - Wc) \in Int /\ K \in Int /\ L \in Int
      /\ \A m \in Int : n * (val - Vc) <= d * m <=> K <= m
      /\ \A m \in Int : n * (val - Wc) <= d * m <=> L <= m
  <2>1. n * (val - Vc) \in Int /\ n * (val - Wc) \in Int
    BY TimesInt
  <2> QED
    BY <2>1, CeilDivLeast
<1> HIDE DEF K, L
<1>9. Wb + L <= Vb + K
  <2>1. n * (val - Vc) <= d * K
    BY <1>8
  <2>2. /\ n * (val - Wc) = n * (val - Vc) + n * (Vc - Wc)
        /\ d * (K + (Vb - Wb)) = d * K + d * (Vb - Wb)
        /\ n * (Vc - Wc) \in Int /\ d * (Vb - Wb) \in Int /\ d * K \in Int
    BY <1>8, TimesInt
  <2>3. n * (val - Wc) <= d * (K + (Vb - Wb))
    BY <1>6, <1>8, <2>1, <2>2
  <2>4. L <= K + (Vb - Wb)
    BY <1>8, <2>3
  <2> QED
    BY <1>8, <2>4
<1>10. Wc <= val => 0 <= L
  <2> SUFFICES ASSUME Wc <= val, L <= -1 PROVE FALSE
    BY <1>8
  <2>1. n * (val - Wc) <= d * (-1)
    BY <1>8
  <2>2. n * 0 <= n * (val - Wc)
    BY TimesMonotone
  <2> QED
    BY <1>8, <2>1, <2>2
<1>11. Wc <= val => Wb <= Vb + K
  BY <1>8, <1>9, <1>10
<1> QED
  BY <1>5, <1>7, <1>9, <1>11

\* A point gives its own belief a value as low as its own.
LEMMA BVValueSelf ==
  ASSUME NEW b \in Belief, NEW val \in Int, NEW x \in Int
  PROVE  BVValue(b, b, val, x, x) <= val
<1>1. PICK n \in Nat, d \in Nat \ {0} :
        Ratio(b, b) = <<n, d>> /\ \E i \in Support(b) : n = b[i] /\ d = b[i]
  BY RatioProperties
<1> DEFINE K == CeilDiv(n * (val - x), d)
<1>2. BVValue(b, b, val, x, x) = x + K
  BY <1>1 DEF BVValue
<1>3. n = d
  BY <1>1
<1>4. n * (val - x) \in Int /\ n * (val - x) <= d * (val - x)
  BY <1>3, TimesInt
<1>5. K \in Int /\ K <= val - x
  BY <1>4, CeilDivLeast
<1> HIDE DEF K
<1> QED
  BY <1>2, <1>5

\* If x supports at y a value as low as that of y, it supports at b one as low
\* as y does.
LEMMA BVValueTransitive ==
  ASSUME NEW v \in Vector, NEW b \in Belief, NEW x \in Belief, NEW y \in Belief,
         NEW vx \in Int, NEW vy \in Int, vx < Inner(v, x),
         BVValue(y, x, vx, Inner(v, y), Inner(v, x)) <= vy
  PROVE  BVValue(b, x, vx, Inner(v, b), Inner(v, x)) <= BVValue(b, y, vy, Inner(v, b), Inner(v, y))
<1>1. PICK n1 \in Nat, d1 \in Nat \ {0} :
        Ratio(y, x) = <<n1, d1>> /\ \A j \in State : n1 * x[j] <= d1 * y[j]
  BY RatioProperties
<1>2. PICK n2 \in Nat, d2 \in Nat \ {0} :
        Ratio(b, y) = <<n2, d2>> /\ \A j \in State : n2 * y[j] <= d2 * b[j]
  BY RatioProperties
<1>3. PICK n3 \in Nat, d3 \in Nat \ {0} :
        Ratio(b, x) = <<n3, d3>> /\ \E i \in Support(x) : n3 = b[i] /\ d3 = x[i]
  BY RatioProperties
\* the ratios multiply
<1>4. n1 * n2 * d3 <= d1 * d2 * n3
  <2>1. PICK i \in State : n3 = b[i] /\ d3 = x[i]
    BY <1>3, BeliefType
  <2>2. y[i] \in Nat
    BY BeliefType
  <2>3. n1 * d3 <= d1 * y[i] /\ n2 * y[i] <= d2 * n3
    BY <1>1, <1>2, <2>1
  <2>4. n2 * (n1 * d3) <= n2 * (d1 * y[i])
    BY <2>2, <2>3, TimesMonotone, TimesNat
  <2>5. d1 * (n2 * y[i]) <= d1 * (d2 * n3)
    BY <2>2, <2>3, TimesMonotone, TimesNat
  <2>6. /\ n2 * (d1 * y[i]) = d1 * (n2 * y[i])
        /\ n2 * (n1 * d3) = n1 * n2 * d3 /\ d1 * (d2 * n3) = d1 * d2 * n3
    BY <2>2
  <2>7. d1 * (n2 * y[i]) \in Int /\ n1 * n2 * d3 \in Int /\ d1 * d2 * n3 \in Int
    BY <2>2, TimesInt
  <2> QED
    BY <2>4, <2>5, <2>6, <2>7
<1>5. PICK Ib \in Int, Ix \in Int, Iy \in Int :
        Ib = Inner(v, b) /\ Ix = Inner(v, x) /\ Iy = Inner(v, y)
  BY InnerType, BeliefType, Zenon
<1> DEFINE K1 == CeilDiv(n1 * (vx - Ix), d1)
           K2 == CeilDiv(n2 * (vy - Iy), d2)
           K3 == CeilDiv(n3 * (vx - Ix), d3)
<1>6. /\ BVValue(y, x, vx, Iy, Ix) = Iy + K1
      /\ BVValue(b, y, vy, Ib, Iy) = Ib + K2
      /\ BVValue(b, x, vx, Ib, Ix) = Ib + K3
  BY <1>1, <1>2, <1>3 DEF BVValue
<1>7. /\ K1 \in Int /\ n1 * (vx - Ix) <= d1 * K1
      /\ K2 \in Int /\ n2 * (vy - Iy) <= d2 * K2
      /\ K3 \in Int /\ \A m \in Int : n3 * (vx - Ix) <= d3 * m => K3 <= m
  <2>1. n1 * (vx - Ix) \in Int /\ n2 * (vy - Iy) \in Int /\ n3 * (vx - Ix) \in Int
    BY TimesInt
  <2>2. K1 \in Int /\ n1 * (vx - Ix) <= d1 * K1
    BY <2>1, CeilDivLeast
  <2>3. K2 \in Int /\ n2 * (vy - Iy) <= d2 * K2
    BY <2>1, CeilDivLeast
  <2>4. K3 \in Int /\ \A m \in Int : n3 * (vx - Ix) <= d3 * m => K3 <= m
    BY <2>1, CeilDivLeast
  <2> QED
    BY <2>2, <2>3, <2>4
<1> HIDE DEF K1, K2, K3
<1> DEFINE a == Ix - vx
<1>8. a \in Nat /\ vx - Ix = -a
  BY <1>5
<1>9. K1 <= vy - Iy
  BY <1>5, <1>6, <1>7
<1> HIDE DEF a
<1>10. n3 * (-a) <= d3 * K2
  <2>1. n2 * K1 <= n2 * (vy - Iy) /\ n2 * K1 \in Int /\ n2 * (vy - Iy) \in Int /\ d2 * K2 \in Int
    BY <1>7, <1>9, TimesMonotone, TimesInt
  <2>2. n2 * K1 <= d2 * K2
    BY <1>7, <2>1
  <2>3. d1 * (n2 * K1) <= d1 * (d2 * K2)
    BY <2>1, <2>2, TimesMonotone
  <2>4. n2 * (n1 * (-a)) <= n2 * (d1 * K1)
    <3>1. n1 * (-a) \in Int /\ d1 * K1 \in Int /\ n1 * (-a) <= d1 * K1
      BY <1>7, <1>8, TimesInt
    <3> QED
      BY <3>1, TimesMonotone
  <2>5. n2 * (n1 * (-a)) <= d1 * (d2 * K2)
    <3>1. n2 * (d1 * K1) = d1 * (n2 * K1)
      BY <1>7
    <3>2. n2 * (n1 * (-a)) \in Int /\ d1 * (n2 * K1) \in Int /\ d1 * (d2 * K2) \in Int
      BY <1>7, <1>8, TimesInt
    <3> QED
      BY <2>3, <2>4, <3>1, <3>2
  <2>6. d3 * (n2 * (n1 * (-a))) <= d3 * (d1 * (d2 * K2))
    <3>1. n2 * (n1 * (-a)) \in Int /\ d1 * (d2 * K2) \in Int
      BY <1>7, <1>8, TimesInt
    <3> QED
      BY <2>5, <3>1, TimesMonotone
  <2>7. a * (n1 * n2 * d3) <= a * (d1 * d2 * n3)
    <3>1. n1 * n2 * d3 \in Int /\ d1 * d2 * n3 \in Int
      BY TimesInt
    <3> QED
      BY <1>4, <1>8, <3>1, TimesMonotone
  <2>8. /\ d3 * (n2 * (n1 * (-a))) = -(a * (n1 * n2 * d3))
        /\ d3 * (d1 * (d2 * K2)) = (d1 * d2) * (d3 * K2)
        /\ (d1 * d2) * (n3 * (-a)) = -(a * (d1 * d2 * n3))
    BY <1>7, <1>8
  <2>9. /\ a * (n1 * n2 * d3) \in Int /\ a * (d1 * d2 * n3) \in Int
        /\ (d1 * d2) * (d3 * K2) \in Int /\ n3 * (-a) \in Int /\ d3 * K2 \in Int
    BY <1>7, <1>8, TimesInt
  <2>10. (d1 * d2) * (n3 * (-a)) <= (d1 * d2) * (d3 * K2)
    BY <2>6, <2>7, <2>8, <2>9
  <2>11. d1 * d2 \in Nat \ {0}
    OBVIOUS
  <2> QED
    BY <2>9, <2>10, <2>11, TimesStrict
<1>11. K3 <= K2
  BY <1>7, <1>8, <1>10
<1> QED
  BY <1>5, <1>6, <1>7, <1>11

-----------------------------------------------------------------------------
\* The least and the greatest element of a finite set of numbers.
LEMMA Extremes ==
  ASSUME NEW S \in SUBSET Int, IsFiniteSet(S), S # {}
  PROVE  /\ \E m \in S : \A x \in S : m <= x
         /\ \E m \in S : \A x \in S : x <= m
<1> DEFINE Low(R)  == \E m \in R : \A x \in R : m <= x
           High(R) == \E m \in R : \A x \in R : x <= m
           Good == {R \in SUBSET S : R = {} \/ (Low(R) /\ High(R))}
<1>1. Good \in SUBSET SUBSET S /\ {} \in Good
  OBVIOUS
<1>2. ASSUME NEW R \in SUBSET S, R # {}, R \ {Some(R)} \in Good
      PROVE  R \in Good
  <2>1. PICK e \in R : e = Some(R)
    BY <1>2 DEF Some
  <2>2. PICK Q \in SUBSET S : Q = R \ {e}
    OBVIOUS
  <2>3. R = Q \cup {e} /\ e \in Int /\ \A x \in Q : x \in Int
    BY <2>2
  <2>4. Q = {} \/ (Low(Q) /\ High(Q))
    BY <1>2, <2>1, <2>2
  <2>5. CASE Q = {}
    BY <2>3, <2>5
  <2>6. CASE Low(Q) /\ High(Q)
    <3>1. Low(R)
      <4>1. PICK m \in Q : \A x \in Q : m <= x
        BY <2>6
      <4>2. CASE m <= e
        BY <2>3, <4>1, <4>2
      <4>3. CASE ~(m <= e)
        <5>1. \A x \in R : e <= x
          BY <2>3, <4>1, <4>3
        <5> QED
          BY <5>1
      <4> QED
        BY <4>2, <4>3
    <3>2. High(R)
      <4>1. PICK m \in Q : \A x \in Q : x <= m
        BY <2>6
      <4>2. CASE e <= m
        BY <2>3, <4>1, <4>2
      <4>3. CASE ~(e <= m)
        <5>1. \A x \in R : x <= e
          BY <2>3, <4>1, <4>3
        <5> QED
          BY <5>1
      <4> QED
        BY <4>2, <4>3
    <3> QED
      BY <3>1, <3>2
  <2> QED
    BY <2>4, <2>5, <2>6
<1> HIDE DEF Good
<1>3. S \in Good
  BY <1>1, <1>2, SumInduction
<1> QED
  BY <1>3 DEF Good

LEMMA MinProperties ==
  ASSUME NEW S \in SUBSET Int, IsFiniteSet(S), S # {}
  PROVE  Min(S) \in S /\ \A x \in S : Min(S) <= x
BY Extremes DEF Min

LEMMA MaxProperties ==
  ASSUME NEW S \in SUBSET Int, IsFiniteSet(S), S # {}
  PROVE  Max(S) \in S /\ \A x \in S : x <= Max(S)
<1>1. \E m \in S : \A x \in S : m >= x
  BY Extremes
<1> QED
  BY <1>1 DEF Max

LEMMA ImageFinite ==
  ASSUME NEW D, IsFiniteSet(D), NEW f, DOMAIN f = D
  PROVE  IsFiniteSet({f[x] : x \in D})
<1>1. [x \in D |-> f[x]] \in Surjection(D, {f[x] : x \in D})
  BY DEF Surjection
<1> QED
  BY <1>1, FS_Surjection

LEMMA TableIs == ASSUME NEW f PROVE Table(f) = f
BY DEF Table

LEMMA ActionFinite == IsFiniteSet(Action) /\ 0 \in Action
<1>1. NumActions \in Nat \ {0} /\ 0 \in Int /\ NumActions - 1 \in Int
  BY PomdpAssumption
<1> QED
  BY <1>1, FS_Interval DEF Action

\* The greatest value over the actions.
LEMMA MaxOfActions ==
  ASSUME NEW f \in [Action -> Int]
  PROVE  /\ Max({f[a] : a \in Action}) \in Int
         /\ \A a \in Action : f[a] <= Max({f[c] : c \in Action})
<1>1. IsFiniteSet({f[a] : a \in Action})
  BY ActionFinite, ImageFinite
<1>2. {f[a] : a \in Action} \in SUBSET Int /\ {f[a] : a \in Action} # {}
  BY ActionFinite
<1> QED
  BY <1>1, <1>2, MaxProperties

-----------------------------------------------------------------------------
\* Lists.
LEMMA SeqWithin ==
  ASSUME NEW S, NEW st \in Seq(S), NEW T, ToSet(st) \subseteq T
  PROVE  st \in Seq(T)
<1>1. Len(st) \in Nat /\ st \in [1 .. Len(st) -> S]
  OBVIOUS
<1>2. \A i \in 1 .. Len(st) : st[i] \in T
  BY <1>1 DEF ToSet
<1>3. st \in [1 .. Len(st) -> T]
  BY <1>1, <1>2
<1> QED
  BY <1>1, <1>3

LEMMA ListHas ==
  ASSUME NEW S, NEW st \in Seq(S)
  PROVE  /\ Len(st) \in Nat /\ DOMAIN st = 1 .. Len(st)
         /\ \A k \in 1 .. Len(st) : st[k] \in ToSet(st) /\ st[k] \in S
         /\ \A x : x \in ToSet(st) <=> \E k \in 1 .. Len(st) : st[k] = x
BY DEF ToSet

LEMMA RemoveAtProperties ==
  ASSUME NEW S, NEW st \in Seq(S), IsInjective(st), NEW k \in 1 .. Len(st)
  PROVE  LET t == RemoveAt(st, k)
         IN  /\ t \in Seq(S) /\ Len(t) = Len(st) - 1
             /\ ToSet(t) = ToSet(st) \ {st[k]}
             /\ IsInjective(t)
<1> DEFINE t == RemoveAt(st, k)
           f == SubSeq(st, 1, k - 1)
           g == SubSeq(st, k + 1, Len(st))
<1>1. Len(st) \in Nat /\ k \in Nat \ {0} /\ k <= Len(st) /\ DOMAIN st = 1 .. Len(st)
  OBVIOUS
<1>2. f \in Seq(S) /\ \A i \in 1 .. k - 1 : f[i] = st[i]
  BY <1>1
<1>3. Len(f) = k - 1
  <2>1. k - 1 \in 0 .. Len(st)
    BY <1>1
  <2>2. PICK j \in 0 .. Len(st) : j = k - 1
    BY <2>1
  <2>3. Len(SubSeq(st, 1, j)) = j
    OBVIOUS
  <2> QED
    BY <2>2, <2>3
<1>4. /\ g \in Seq(S) /\ Len(g) = Len(st) - k
      /\ \A i \in 1 .. Len(st) - k : g[i] = st[k + i]
  <2>1. \A i \in k + 1 .. Len(st) : st[i] \in S
    BY <1>1
  <2>2. /\ g \in Seq(S)
        /\ Len(g) = IF k + 1 <= Len(st) THEN Len(st) - (k + 1) + 1 ELSE 0
        /\ \A i \in 1 .. Len(st) - (k + 1) + 1 : g[i] = st[k + 1 + i - 1]
    BY <1>1, <2>1, SubSeqProperties
  <2> HIDE DEF g
  <2>3. Len(g) = Len(st) - k
    <3>1. Len(g) = IF k + 1 <= Len(st) THEN Len(st) - (k + 1) + 1 ELSE 0
      BY <2>2
    <3>2. PICK n \in Nat : n = Len(st)
      BY <1>1
    <3>3. k \in 1 .. n
      BY <1>1, <3>2
    <3>4. (IF k + 1 <= n THEN n - (k + 1) + 1 ELSE 0) = n - k
      BY <3>3
    <3> QED
      BY <3>1, <3>2, <3>4
  <2>4. ASSUME NEW i \in 1 .. Len(st) - k PROVE g[i] = st[k + i]
    <3>1. i \in 1 .. Len(st) - (k + 1) + 1 /\ k + 1 + i - 1 = k + i
      BY <1>1
    <3> QED
      BY <2>2, <3>1
  <2> QED
    BY <2>2, <2>3, <2>4
<1>5. t = f \o g
  BY DEF RemoveAt
<1> HIDE DEF t, f, g
<1>6. /\ t \in Seq(S) /\ Len(t) = Len(st) - 1 /\ DOMAIN t = 1 .. Len(st) - 1
      /\ \A i \in 1 .. Len(st) - 1 : t[i] = IF i < k THEN f[i] ELSE g[i - (k - 1)]
  <2>1. Len(f) \in Nat /\ Len(g) \in Nat /\ Len(f) + Len(g) = Len(st) - 1
    BY <1>1, <1>3, <1>4
  <2>2. t \in Seq(S) /\ Len(t) = Len(f) + Len(g)
    BY <1>2, <1>4, <1>5, ConcatProperties
  <2>3. ASSUME NEW i \in 1 .. Len(f) + Len(g)
        PROVE  t[i] = IF i <= Len(f) THEN f[i] ELSE g[i - Len(f)]
    BY <1>2, <1>4, <1>5, ConcatProperties
  <2>4. DOMAIN t = 1 .. Len(t)
    BY <2>2
  <2>5. \A i \in 1 .. Len(st) - 1 : i <= k - 1 <=> i < k
    BY <1>1
  <2> QED
    BY <1>3, <2>1, <2>2, <2>3, <2>4, <2>5
<1>7. ASSUME NEW i \in 1 .. Len(st) - 1
      PROVE  t[i] = IF i < k THEN st[i] ELSE st[i + 1]
  <2>1. CASE i < k
    BY <1>1, <1>2, <1>6, <2>1
  <2>2. CASE ~(i < k)
    <3>1. /\ i - (k - 1) \in 1 .. Len(st) - k /\ k + (i - (k - 1)) = i + 1
      BY <1>1, <2>2
    <3> QED
      BY <1>4, <1>6, <2>2, <3>1
  <2> QED
    BY <2>1, <2>2
<1>8. ASSUME NEW x
      PROVE  x \in ToSet(t) <=> x \in ToSet(st) /\ x # st[k]
  <2>1. ASSUME NEW i \in 1 .. Len(st) - 1 PROVE t[i] \in ToSet(st) /\ t[i] # st[k]
    <3>1. i \in 1 .. Len(st) /\ i + 1 \in 1 .. Len(st) /\ (i < k => i # k)
          /\ (~(i < k) => i + 1 # k)
      BY <1>1
    <3> QED
      BY <1>1, <1>7, <3>1 DEF ToSet, IsInjective
  <2>2. ASSUME NEW i \in 1 .. Len(st), i # k PROVE st[i] \in ToSet(t)
    <3>1. CASE i < k
      BY <1>1, <1>6, <1>7, <3>1 DEF ToSet
    <3>2. CASE i > k
      <4>1. i - 1 \in 1 .. Len(st) - 1 /\ ~(i - 1 < k) /\ i - 1 + 1 = i
        BY <1>1, <3>2
      <4> QED
        BY <1>6, <1>7, <4>1 DEF ToSet
    <3> QED
      BY <1>1, <2>2, <3>1, <3>2
  <2>3. ToSet(t) = {t[i] : i \in 1 .. Len(st) - 1} /\ ToSet(st) = {st[i] : i \in 1 .. Len(st)}
    BY <1>1, <1>6 DEF ToSet
  <2> QED
    BY <2>1, <2>2, <2>3
<1>9. IsInjective(t)
  <2> SUFFICES ASSUME NEW i \in 1 .. Len(st) - 1, NEW j \in 1 .. Len(st) - 1, t[i] = t[j]
               PROVE  i = j
    BY <1>6 DEF IsInjective
  <2> DEFINE at(n) == IF n < k THEN n ELSE n + 1
  <2>1. /\ at(i) \in 1 .. Len(st) /\ at(j) \in 1 .. Len(st)
        /\ t[i] = st[at(i)] /\ t[j] = st[at(j)]
    BY <1>1, <1>7
  <2>2. at(i) = at(j)
    BY <1>1, <2>1 DEF IsInjective
  <2> QED
    BY <1>1, <2>2
<1> QED
  BY <1>6, <1>8, <1>9 DEF t

LEMMA RemoveFirstProperties ==
  ASSUME NEW S, NEW st \in Seq(S), IsInjective(st), NEW x
  PROVE  LET t == RemoveFirst(st, x)
         IN  t \in Seq(S) /\ ToSet(t) = ToSet(st) \ {x} /\ IsInjective(t)
<1>1. Len(st) \in Nat /\ DOMAIN st = 1 .. Len(st)
  OBVIOUS
<1>2. CASE \E i \in 1 .. Len(st) : st[i] = x
  <2> DEFINE I == {i \in 1 .. Len(st) : st[i] = x}
             k == CHOOSE i \in I : \A j \in I : i <= j
  <2>1. I # {} /\ I \in SUBSET Nat
    BY <1>2
  <2>2. k \in I
    <3> HIDE DEF I
    <3>1. \E i \in I : \A j \in I : i <= j
      BY <2>1, LeastNatural
    <3> QED
      BY <3>1
  <2>3. RemoveFirst(st, x) = RemoveAt(st, k)
    <3>1. Min(I) = k
      BY DEF Min
    <3>2. SelectInSeq(st, LAMBDA v : v = x) = Min(I)
      BY <2>1 DEF SelectInSeq
    <3> QED
      BY <1>2, <3>1, <3>2 DEF RemoveFirst
  <2> HIDE DEF k
  <2> QED
    BY <2>2, <2>3, RemoveAtProperties
<1>3. CASE ~ \E i \in 1 .. Len(st) : st[i] = x
  <2>1. RemoveFirst(st, x) = st
    BY <1>3 DEF RemoveFirst
  <2> QED
    BY <1>1, <1>3, <2>1 DEF ToSet
<1> QED
  BY <1>2, <1>3

\* Appending an element that is not in the list.
LEMMA AppendedProperties ==
  ASSUME NEW S, NEW st \in Seq(S), IsInjective(st), NEW x \in S, x \notin ToSet(st)
  PROVE  /\ Append(st, x) \in Seq(S) /\ Len(Append(st, x)) = Len(st) + 1
         /\ ToSet(Append(st, x)) = ToSet(st) \cup {x} /\ IsInjective(Append(st, x))
<1>0. PICK t : t = Append(st, x)
  BY Zenon
<1>1. Len(st) \in Nat /\ DOMAIN st = 1 .. Len(st)
  OBVIOUS
<1>2. /\ t \in Seq(S) /\ Len(t) = Len(st) + 1 /\ DOMAIN t = 1 .. Len(st) + 1
      /\ t[Len(st) + 1] = x /\ \A i \in 1 .. Len(st) : t[i] = st[i]
  BY <1>0
<1>3. (1 .. Len(st)) \cup {Len(st) + 1} = 1 .. Len(st) + 1
  BY <1>1
<1>4. ToSet(t) = ToSet(st) \cup {x}
  BY <1>1, <1>2, <1>3 DEF ToSet
<1>5. IsInjective(t)
  BY <1>1, <1>2, <1>3 DEF ToSet, IsInjective
<1> QED
  BY <1>0, <1>2, <1>4, <1>5, Zenon


-----------------------------------------------------------------------------
\* The value of a belief under the given corners and the points in check.
Bounding(corner, pt, check, b) ==
  {k \in check : Bounds(b, pt[k].b, pt[k].v, Inner(corner, pt[k].b))}

Induced(corner, pt, k, b) ==
  BVValue(b, pt[k].b, pt[k].v, Inner(corner, b), Inner(corner, pt[k].b))

ValueAt(corner, pt, check, b) ==
  Min({Inner(corner, b)} \cup {Induced(corner, pt, k, b) : k \in Bounding(corner, pt, check, b)})

PointsIn(pt, check) ==
  IsFiniteSet(check) /\ \A k \in check : pt[k].b \in Belief /\ pt[k].v \in Int

LEMMA ValueIs ==
  ASSUME NEW b
  PROVE  /\ Value(b) = ValueAt(cornerPts, point, ToSet(PtsToCheck(b)), b)
         /\ Value(b)' = ValueAt(cornerPts', point', ToSet(PtsToCheck(b)'), b)
<1>1. Value(b) = ValueAt(cornerPts, point, ToSet(PtsToCheck(b)), b)
  BY DEF Value, ValueAt, Bounding, Induced, Below
<1>2. Value(b)' = ValueAt(cornerPts', point', ToSet(PtsToCheck(b)'), b)
  BY DEF Value, ValueAt, Bounding, Induced, Below
<1> QED
  BY <1>1, <1>2

LEMMA InducedType ==
  ASSUME NEW corner \in Vector, NEW pt, NEW check, PointsIn(pt, check), NEW b \in Belief
  PROVE  /\ Inner(corner, b) \in Int
         /\ \A k \in check : Inner(corner, pt[k].b) \in Int /\ Induced(corner, pt, k, b) \in Int
<1>1. Inner(corner, b) \in Int
  BY InnerType, BeliefType
<1>2. ASSUME NEW k \in check
      PROVE  Inner(corner, pt[k].b) \in Int /\ Induced(corner, pt, k, b) \in Int
  <2>1. PICK c \in Belief, v \in Int : c = pt[k].b /\ v = pt[k].v
    BY DEF PointsIn
  <2>2. Inner(corner, c) \in Int
    BY InnerType, BeliefType
  <2>3. BVValue(b, c, v, Inner(corner, b), Inner(corner, c)) \in Int
    BY <1>1, <2>2, BVValueType
  <2> QED
    BY <2>1, <2>2, <2>3 DEF Induced
<1> QED
  BY <1>1, <1>2

LEMMA ValueProperties ==
  ASSUME NEW corner \in Vector, NEW pt, NEW check, PointsIn(pt, check), NEW b \in Belief
  PROVE  LET V == ValueAt(corner, pt, check, b)
             B == Bounding(corner, pt, check, b)
         IN  /\ V \in Int
             /\ V <= Inner(corner, b)
             /\ \A k \in B : V <= Induced(corner, pt, k, b)
             /\ V = Inner(corner, b) \/ \E k \in B : V = Induced(corner, pt, k, b)
<1> DEFINE B == Bounding(corner, pt, check, b)
           f == [k \in B |-> Induced(corner, pt, k, b)]
           S == {f[k] : k \in B}
<1>1. Inner(corner, b) \in Int /\ \A k \in B : Induced(corner, pt, k, b) \in Int
  BY InducedType DEF Bounding
<1>2. IsFiniteSet(B)
  BY FS_Subset DEF Bounding, PointsIn
<1>3. DOMAIN f = B /\ S = {Induced(corner, pt, k, b) : k \in B}
  OBVIOUS
<1>4. ValueAt(corner, pt, check, b) = Min(S \cup {Inner(corner, b)})
  BY <1>3 DEF ValueAt
<1>5. IsFiniteSet(S \cup {Inner(corner, b)})
  <2>1. IsFiniteSet(S)
    <3> HIDE DEF f, B
    <3> QED
      BY <1>2, <1>3, ImageFinite
  <2> HIDE DEF S
  <2> QED
    BY <2>1, FS_AddElement
<1>6. S \cup {Inner(corner, b)} \in SUBSET Int /\ S \cup {Inner(corner, b)} # {}
  BY <1>1
<1>7. PICK V : V = ValueAt(corner, pt, check, b)
  BY Zenon
<1>8. V \in S \cup {Inner(corner, b)} /\ \A x \in S \cup {Inner(corner, b)} : V <= x
  <2> HIDE DEF S
  <2> QED
    BY <1>4, <1>5, <1>6, <1>7, MinProperties
<1> QED
  BY <1>1, <1>3, <1>7, <1>8

\* A value stays above any vector that corners and points are above.
LEMMA ValueAbove ==
  ASSUME NEW corner \in Vector, NEW pt, NEW check, PointsIn(pt, check), NEW b \in Belief,
         NEW w \in Vector, \A i \in State : w[i] <= corner[i],
         \A k \in check : Inner(w, pt[k].b) <= pt[k].v
  PROVE  Inner(w, b) <= ValueAt(corner, pt, check, b)
<1>1. Inner(w, b) <= Inner(corner, b)
  BY InnerMonotone
<1>2. ASSUME NEW k \in Bounding(corner, pt, check, b)
      PROVE  Inner(w, b) <= Induced(corner, pt, k, b)
  <2>1. PICK c \in Belief, v \in Int : c = pt[k].b /\ v = pt[k].v
    BY DEF PointsIn, Bounding
  <2>2. Inner(w, c) <= v
    BY <2>1 DEF Bounding
  <2>3. Inner(w, b) <= BVValue(b, c, v, Inner(corner, b), Inner(corner, c))
    BY <2>2, BVValueAbove
  <2> QED
    BY <2>1, <2>3 DEF Induced
<1> QED
  BY <1>1, <1>2, ValueProperties

\* What is needed of a change of corners and points for no value to rise.
LEMMA ValueFalls ==
  ASSUME NEW corner \in Vector, NEW pt, NEW check, PointsIn(pt, check), NEW b \in Belief,
         NEW corner2 \in Vector, NEW pt2, NEW check2, PointsIn(pt2, check2),
         \A i \in State : corner2[i] <= corner[i],
         \A k \in Bounding(corner, pt, check, b) :
           \E l \in check2 : /\ Bounds(b, pt2[l].b, pt2[l].v, Inner(corner, pt2[l].b))
                             /\ Induced(corner, pt2, l, b) <= Induced(corner, pt, k, b)
  PROVE  ValueAt(corner2, pt2, check2, b) <= ValueAt(corner, pt, check, b)
<1> DEFINE V  == ValueAt(corner, pt, check, b)
           V2 == ValueAt(corner2, pt2, check2, b)
<1>1. /\ V \in Int
      /\ V = Inner(corner, b) \/ \E k \in Bounding(corner, pt, check, b) :
                                   V = Induced(corner, pt, k, b)
  BY ValueProperties
<1>2. /\ V2 \in Int /\ V2 <= Inner(corner2, b)
      /\ \A l \in Bounding(corner2, pt2, check2, b) : V2 <= Induced(corner2, pt2, l, b)
  BY ValueProperties
<1>3. /\ Inner(corner, b) \in Int /\ Inner(corner2, b) \in Int
      /\ Inner(corner2, b) <= Inner(corner, b)
  BY InnerMonotone, InnerType, BeliefType
<1> SUFFICES V2 <= V
  OBVIOUS
<1> HIDE DEF V, V2
<1>4. CASE V = Inner(corner, b)
  BY <1>1, <1>2, <1>3, <1>4
<1>5. ASSUME NEW k \in Bounding(corner, pt, check, b), V = Induced(corner, pt, k, b)
      PROVE  V2 <= V
  <2>1. PICK l \in check2 : /\ Bounds(b, pt2[l].b, pt2[l].v, Inner(corner, pt2[l].b))
                            /\ Induced(corner, pt2, l, b) <= Induced(corner, pt, k, b)
    OBVIOUS
  <2>2. PICK c \in Belief, v \in Int : c = pt2[l].b /\ v = pt2[l].v
    BY DEF PointsIn
  <2>3. /\ Induced(corner, pt2, l, b) \in Int /\ Induced(corner2, pt2, l, b) \in Int
        /\ Inner(corner2, c) \in Int
    BY <2>2, InducedType
  <2>4. /\ Induced(corner2, pt2, l, b) <= Induced(corner, pt2, l, b)
        /\ Inner(corner2, c) <= v => Inner(corner2, b) <= Induced(corner, pt2, l, b)
    BY <2>2, BVValueFalls DEF Induced
  <2>5. CASE Inner(corner2, c) <= v
    BY <1>1, <1>2, <1>3, <1>5, <2>1, <2>3, <2>4, <2>5
  <2>6. CASE v < Inner(corner2, c)
    <3>1. l \in Bounding(corner2, pt2, check2, b)
      BY <2>1, <2>2, <2>6 DEF Bounding, Bounds
    <3> QED
      BY <1>1, <1>2, <1>5, <2>1, <2>3, <2>4, <3>1
  <2> QED
    BY <2>3, <2>5, <2>6
<1> QED
  BY <1>1, <1>4, <1>5

\* With a point at b its value is as low as that of the point.
LEMMA ValueBacked ==
  ASSUME NEW corner \in Vector, NEW pt, NEW check, PointsIn(pt, check), NEW b \in Belief,
         NEW k \in check, pt[k].b = b
  PROVE  ValueAt(corner, pt, check, b) <= pt[k].v
<1> DEFINE V == ValueAt(corner, pt, check, b)
<1>1. /\ V \in Int /\ V <= Inner(corner, b)
      /\ \A l \in Bounding(corner, pt, check, b) : V <= Induced(corner, pt, l, b)
  BY ValueProperties
<1>2. PICK v \in Int : v = pt[k].v
  BY DEF PointsIn
<1>3. Inner(corner, b) \in Int /\ Induced(corner, pt, k, b) \in Int
  BY InducedType
<1> SUFFICES V <= v
  BY <1>2
<1> HIDE DEF V
<1>4. CASE Inner(corner, b) <= v
  BY <1>1, <1>2, <1>3, <1>4
<1>5. CASE v < Inner(corner, b)
  <2>1. k \in Bounding(corner, pt, check, b)
    BY <1>2, <1>5 DEF Bounding, Bounds
  <2>2. BVValue(b, b, v, Inner(corner, b), Inner(corner, b)) <= v
    BY <1>3, BVValueSelf
  <2> QED
    BY <1>1, <1>2, <1>3, <2>1, <2>2 DEF Induced
<1> QED
  BY <1>2, <1>3, <1>4, <1>5

-----------------------------------------------------------------------------
\* The initial bounds.
LEMMA Denominators ==
  /\ Den \in Nat \ {0} /\ Den * Den \in Nat \ {0} /\ Den * Den * Den \in Nat \ {0}
<1>1. Den \in Nat \ {0}
  BY PomdpAssumption
<1>2. \A x, y \in Nat \ {0} : x * y \in Nat \ {0}
  OBVIOUS
<1> QED
  BY <1>1, <1>2

LEMMA PomdpFields ==
  ASSUME NEW n \in Problems, NEW p, p = Pomdps[n]
  PROVE  /\ p.initial \in Belief /\ p.reachable \subseteq Belief
         /\ p.discount \in Nat
         /\ \A a \in Action, i \in State : p.reward[a][i] \in Int
         /\ \A a \in Action : p.reward[a] \in Vector
         /\ \A a \in Action, i, j \in State : p.trans[a][i][j] \in Nat
         /\ \A a \in Action, j \in State, o \in Observation : p.obs[a][j][o] \in Nat
<1>1. p \in Pomdp
  BY PomdpsAssumption
<1>2. \A x \in 0 .. Den : x \in Nat
  OBVIOUS
<1>3. p.initial \in Belief /\ p.reachable \subseteq Belief /\ p.discount \in 0 .. Den
  BY <1>1 DEF Pomdp
<1>4. p.reward \in [Action -> Vector]
  BY <1>1 DEF Pomdp
<1>5. p.trans \in [Action -> [State -> [State -> 0 .. Den]]]
  BY <1>1 DEF Pomdp
<1>6. p.obs \in [Action -> [State -> [Observation -> 0 .. Den]]]
  BY <1>1 DEF Pomdp
<1> QED
  BY <1>2, <1>3, <1>4, <1>5, <1>6 DEF Vector

\* A quotient rounded up is above what is, multiplied, below its numerator.
LEMMA BelowQuotient ==
  ASSUME NEW x \in Int, NEW r \in Int, NEW m \in Int, NEW d \in Nat \ {0}, d * (x - r) <= m
  PROVE  x <= r + CeilDiv(m, d)
<1>1. CeilDiv(m, d) \in Int /\ m <= d * CeilDiv(m, d)
  BY CeilDivLeast
<1>2. PICK K \in Int : K = CeilDiv(m, d)
  BY <1>1
<1>3. d * (x - r) <= d * K
  BY <1>1, <1>2, TimesInt
<1>4. x - r <= K
  BY <1>3, TimesStrict
<1> QED
  BY <1>2, <1>4

LEMMA NextAlphaType ==
  ASSUME NEW n \in Problems, NEW p, p = Pomdps[n], NEW a \in Action, NEW alpha \in Vector
  PROVE  /\ NextAlphaAction(p, a, alpha) \in Vector
         /\ \A i \in State :
              Total([j \in State |-> p.trans[a][i][j] * alpha[j]]) \in Int
<1>1. ASSUME NEW i \in State
      PROVE  /\ Total([j \in State |-> p.trans[a][i][j] * alpha[j]]) \in Int
             /\ p.reward[a][i] + CeilDiv(p.discount *
                  Total([j \in State |-> p.trans[a][i][j] * alpha[j]]), Den * Den) \in Int
  <2>1. \A j \in State : p.trans[a][i][j] \in Int /\ alpha[j] \in Int
    BY PomdpFields DEF Vector
  <2>2. [j \in State |-> p.trans[a][i][j] * alpha[j]] \in [State -> Int]
    BY <2>1, TimesInt
  <2>3. PICK S \in Int : S = Total([j \in State |-> p.trans[a][i][j] * alpha[j]])
    BY <2>2, Finite, TotalType
  <2>4. p.discount * S \in Int
    BY PomdpFields, TimesInt
  <2>5. CeilDiv(p.discount * S, Den * Den) \in Int
    BY <2>4, CeilDivLeast, Denominators
  <2>6. p.reward[a][i] \in Int
    BY PomdpFields
  <2> QED
    BY <2>3, <2>5, <2>6
<1> QED
  BY <1>1 DEF NextAlphaAction, Vector

LEMMA MaxOverProperties ==
  ASSUME NEW vectors \in [Action -> Vector]
  PROVE  /\ MaxOver(vectors) \in Vector
         /\ \A a \in Action, i \in State : vectors[a][i] <= MaxOver(vectors)[i]
<1>1. MaxOver(vectors) = [i \in State |-> Max({vectors[a][i] : a \in Action})]
  BY TableIs DEF MaxOver
<1>2. ASSUME NEW i \in State
      PROVE  /\ Max({vectors[a][i] : a \in Action}) \in Int
             /\ \A a \in Action : vectors[a][i] <= Max({vectors[c][i] : c \in Action})
  <2>1. PICK f : f = [a \in Action |-> vectors[a][i]]
    OBVIOUS
  <2>2. f \in [Action -> Int]
    BY <2>1 DEF Vector
  <2>3. \A a \in Action : f[a] = vectors[a][i]
    BY <2>1
  <2>4. {f[a] : a \in Action} = {vectors[a][i] : a \in Action}
    BY <2>3
  <2> QED
    BY <2>2, <2>3, <2>4, MaxOfActions
<1> QED
  BY <1>1, <1>2 DEF Vector

\* The iterations of FullObsUBInitializer.
Iteration(p, alpha) == MaxOver([a \in Action |-> NextAlphaAction(p, a, alpha)])

Iterates(p, g, m) ==
  g = [k \in 0 .. m |-> IF k = 0 THEN [i \in State |-> 0] ELSE Iteration(p, g[k - 1])]

LEMMA IteratesExist ==
  ASSUME NEW p, NEW m \in Nat
  PROVE  \E g : Iterates(p, g, m)
<1> DEFINE Bad == {k \in Nat : ~ \E g : Iterates(p, g, k)}
<1> SUFFICES ASSUME Bad # {} PROVE FALSE
  OBVIOUS
<1>1. PICK k \in Bad : \A l \in Bad : k <= l
  BY LeastNatural
<1>2. CASE k = 0
  <2>1. Iterates(p, [l \in 0 .. 0 |-> [i \in State |-> 0]], 0)
    BY DEF Iterates
  <2> QED
    BY <1>2, <2>1
<1>3. CASE k # 0
  <2>1. k - 1 \in Nat /\ k - 1 \notin Bad
    BY <1>1, <1>3
  <2>2. PICK h : Iterates(p, h, k - 1)
    BY <2>1
  <2> DEFINE g == [l \in 0 .. k |-> IF l = k THEN Iteration(p, h[k - 1]) ELSE h[l]]
  <2>3. ASSUME NEW l \in 0 .. k
        PROVE  g[l] = IF l = 0 THEN [i \in State |-> 0] ELSE Iteration(p, g[l - 1])
    <3>1. CASE l = 0
      <4>1. 0 \in 0 .. k - 1 /\ g[0] = h[0]
        BY <1>3, <2>1
      <4> QED
        BY <2>2, <3>1, <4>1 DEF Iterates
    <3>2. CASE l # 0
      <4>1. l - 1 \in 0 .. k - 1 /\ l - 1 \in 0 .. k /\ l - 1 # k
        BY <3>2, <1>3, <2>1
      <4>2. g[l - 1] = h[l - 1]
        BY <4>1
      <4>3. CASE l = k
        BY <3>2, <4>2, <4>3
      <4>4. CASE l # k
        <5>1. l \in 0 .. k - 1 /\ g[l] = h[l]
          BY <4>4, <2>1
        <5>2. h[l] = Iteration(p, h[l - 1])
          BY <2>2, <3>2, <5>1 DEF Iterates
        <5> QED
          BY <3>2, <4>2, <5>1, <5>2
      <4> QED
        BY <4>3, <4>4
    <3> QED
      BY <3>1, <3>2
  <2>4. Iterates(p, g, k)
    BY <2>3 DEF Iterates
  <2> QED
    BY <2>4
<1> QED
  BY <1>2, <1>3

LEMMA IterationType ==
  ASSUME NEW n \in Problems, NEW p, p = Pomdps[n], NEW alpha \in Vector
  PROVE  Iteration(p, alpha) \in Vector
<1>1. [a \in Action |-> NextAlphaAction(p, a, alpha)] \in [Action -> Vector]
  BY NextAlphaType
<1> QED
  BY <1>1, MaxOverProperties DEF Iteration

LEMMA IteratesType ==
  ASSUME NEW n \in Problems, NEW p, p = Pomdps[n], NEW m \in Nat, NEW g, Iterates(p, g, m)
  PROVE  \A k \in 0 .. m : g[k] \in Vector
<1> DEFINE Bad == {k \in 0 .. m : g[k] \notin Vector}
<1> SUFFICES ASSUME Bad # {} PROVE FALSE
  OBVIOUS
<1>1. Bad \in SUBSET Nat
  OBVIOUS
<1>2. PICK k \in Bad : \A l \in Bad : k <= l
  BY <1>1, LeastNatural
<1>3. g[k] = IF k = 0 THEN [i \in State |-> 0] ELSE Iteration(p, g[k - 1])
  BY DEF Iterates
<1>4. CASE k = 0
  BY <1>3, <1>4 DEF Vector
<1>5. CASE k # 0
  <2>1. k - 1 \in 0 .. m /\ k - 1 \notin Bad
    BY <1>2, <1>5
  <2>2. g[k - 1] \in Vector
    BY <2>1
  <2> QED
    BY <1>3, <1>5, <2>2, IterationType
<1> QED
  BY <1>4, <1>5

LEMMA FullObsType ==
  ASSUME NEW n \in Problems
  PROVE  FullObsValue[n] \in Vector
<1> DEFINE p == Pomdps[n]
           g == CHOOSE g : Iterates(p, g, MaxIters)
<1>1. FullObsValue[n] = ValueIteration(p)
  BY TableIs DEF FullObsValue
<1>2. ValueIteration(p) = g[MaxIters]
  BY DEF ValueIteration, Iterates, Iteration
<1>3. MaxIters \in Nat
  BY SawtoothAssumption
<1>4. Iterates(p, g, MaxIters)
  BY <1>3, IteratesExist
<1> HIDE DEF g
<1>5. g[MaxIters] \in Vector
  BY <1>3, <1>4, IteratesType
<1> QED
  BY <1>1, <1>2, <1>5

-----------------------------------------------------------------------------
\* Policies.

\* What the vector w is worth after action a, for each observation.
Following(p, a, w, i, o) == Total([j \in State |-> p.trans[a][i][j] * p.obs[a][j][o] * w[j]])

LEMMA PlanFields ==
  ASSUME NEW n \in Problems, NEW p, p = Pomdps[n], NEW plan \in Policies[n]
  PROVE  /\ plan.value \in Vector /\ plan.action \in Action
         /\ \A o \in Observation : plan.after[o] \in Vector
         /\ \A o \in Observation : \E then \in Policies[n] : then.value = plan.after[o]
         /\ \A i \in State : Den * Den * Den * (plan.value[i] - p.reward[plan.action][i])
                               <= p.discount * Expected(p, plan, i)
         /\ \A i \in p.terminal : plan.value[i] <= 0
         /\ \A i \in State : plan.value[i] <= FullObsValue[n][i]
<1>1. Policies[n] \subseteq Plan
  BY PoliciesAssumption
<1>2. plan \in [value : Vector, action : Action, after : [Observation -> Vector]]
  BY <1>1 DEF Plan
<1>3. /\ plan.value \in Vector /\ plan.action \in Action
      /\ \A o \in Observation : plan.after[o] \in Vector
  BY <1>2
<1> QED
  BY <1>3, PoliciesAssumption

LEMMA FollowingType ==
  ASSUME NEW n \in Problems, NEW p, p = Pomdps[n], NEW a \in Action, NEW w \in Vector,
         NEW i \in State, NEW o \in Observation
  PROVE  /\ [j \in State |-> p.trans[a][i][j] * p.obs[a][j][o] * w[j]] \in [State -> Int]
         /\ Following(p, a, w, i, o) \in Int
<1>1. \A j \in State : p.trans[a][i][j] \in Int /\ p.obs[a][j][o] \in Int /\ w[j] \in Int
  BY PomdpFields DEF Vector
<1>2. [j \in State |-> p.trans[a][i][j] * p.obs[a][j][o] * w[j]] \in [State -> Int]
  BY <1>1, TimesInt
<1> QED
  BY <1>2, Finite, TotalType DEF Following

LEMMA FollowingMonotone ==
  ASSUME NEW n \in Problems, NEW p, p = Pomdps[n], NEW a \in Action,
         NEW v \in Vector, NEW w \in Vector, \A j \in State : v[j] <= w[j],
         NEW i \in State, NEW o \in Observation
  PROVE  Following(p, a, v, i, o) <= Following(p, a, w, i, o)
<1> DEFINE f == [j \in State |-> p.trans[a][i][j] * p.obs[a][j][o] * v[j]]
           g == [j \in State |-> p.trans[a][i][j] * p.obs[a][j][o] * w[j]]
<1>1. f \in [State -> Int] /\ g \in [State -> Int]
  BY FollowingType
<1>2. ASSUME NEW j \in State PROVE f[j] <= g[j]
  <2>1. PICK t \in Nat, e \in Nat : t = p.trans[a][i][j] /\ e = p.obs[a][j][o]
    BY PomdpFields
  <2>2. v[j] \in Int /\ w[j] \in Int /\ v[j] <= w[j]
    BY DEF Vector
  <2>3. t * e \in Nat
    BY TimesNat
  <2>4. (t * e) * v[j] <= (t * e) * w[j]
    BY <2>2, <2>3, TimesMonotone
  <2> QED
    BY <2>1, <2>4
<1> HIDE DEF f, g
<1>3. Total(f) <= Total(g)
  BY <1>1, <1>2, Finite, TotalMonotone
<1> QED
  BY <1>3 DEF f, g, Following

\* A backup of what is above the plans gone on with is above the plan.
LEMMA PlanBackup ==
  ASSUME NEW n \in Problems, NEW p, p = Pomdps[n], NEW plan \in Policies[n], NEW i \in State,
         NEW F \in [Observation -> Int],
         \A o \in Observation : Following(p, plan.action, plan.after[o], i, o) <= F[o]
  PROVE  /\ Den * Den * Den * (plan.value[i] - p.reward[plan.action][i]) <= p.discount * Total(F)
         /\ plan.value[i] <=
              p.reward[plan.action][i] + CeilDiv(p.discount * Total(F), Den * Den * Den)
<1>1. PICK f \in [Observation -> Int] :
        f = [o \in Observation |-> Following(p, plan.action, plan.after[o], i, o)]
  <2>1. \A o \in Observation : Following(p, plan.action, plan.after[o], i, o) \in Int
    BY PlanFields, FollowingType
  <2> QED
    BY <2>1
<1>2. Total(f) <= Total(F)
  <2>1. \A o \in Observation : f[o] <= F[o]
    BY <1>1
  <2> QED
    BY <2>1, Finite, TotalMonotone
<1>3. PICK x \in Int, r \in Int, D \in Nat \ {0}, c \in Nat, E \in Int, T \in Int :
        /\ x = plan.value[i] /\ r = p.reward[plan.action][i] /\ D = Den * Den * Den
        /\ c = p.discount /\ E = Total(f) /\ T = Total(F)
  <2>1. plan.value[i] \in Int /\ p.reward[plan.action][i] \in Int
    BY PlanFields, PomdpFields DEF Vector
  <2>2. Total(f) \in Int /\ Total(F) \in Int
    BY Finite, TotalType
  <2> QED
    BY <2>1, <2>2, Denominators, PomdpFields
<1>4. D * (x - r) <= c * E
  <2>1. Expected(p, plan, i) = Total(f)
    BY <1>1 DEF Expected, Following
  <2>2. Den * Den * Den * (plan.value[i] - p.reward[plan.action][i])
          <= p.discount * Expected(p, plan, i)
    BY PlanFields
  <2> QED
    BY <1>3, <2>1, <2>2
<1>5. c * E <= c * T
  BY <1>2, <1>3, TimesMonotone
<1>6. D * (x - r) <= c * T
  <2>1. D * (x - r) \in Int /\ c * E \in Int /\ c * T \in Int
    BY TimesInt
  <2> QED
    BY <1>4, <1>5, <2>1
<1>7. x <= r + CeilDiv(c * T, D)
  <2>1. c * T \in Int
    BY TimesInt
  <2> QED
    BY <1>6, <2>1, BelowQuotient
<1> QED
  BY <1>3, <1>6, <1>7

\* The vectors of the fast informed bound begin above all policies, ...
LEMMA InitialAbove ==
  ASSUME NEW n \in Problems, NEW p, p = Pomdps[n], NEW plan \in Policies[n], NEW i \in State
  PROVE  plan.value[i] <= NextAlphaAction(p, plan.action, FullObsValue[n])[i]
<1>1. PICK a \in Action, w \in Vector : a = plan.action /\ w = FullObsValue[n]
  BY PlanFields, FullObsType
<1> DEFINE term(j, o) == p.trans[a][i][j] * p.obs[a][j][o] * w[j]
           byObs == [o \in Observation |-> [j \in State |-> term(j, o)]]
           F == [o \in Observation |-> Following(p, a, w, i, o)]
           f == [j \in State |-> p.trans[a][i][j] * w[j]]
           h == [j \in State |-> Total([o \in Observation |-> byObs[o][j]])]
<1>2. F \in [Observation -> Int] /\ byObs \in [Observation -> [State -> Int]]
  BY FollowingType
<1>3. \A j \in State : p.trans[a][i][j] \in Int /\ w[j] \in Int
  BY PomdpFields DEF Vector
<1>4. f \in [State -> Int]
  BY <1>3, TimesInt
<1>5. F = [o \in Observation |-> Total(byObs[o])]
  BY DEF Following
<1>6. ASSUME NEW j \in State PROVE h[j] = Den * f[j] /\ h[j] \in Int
  <2>1. PICK k \in Int : k = f[j]
    BY <1>4
  <2>2. PICK e \in [Observation -> Int] : e = p.obs[a][j]
    <3>1. p.obs[a][j] \in [Observation -> 0 .. Den]
      BY PomdpsAssumption DEF Pomdp
    <3>2. \A x \in 0 .. Den : x \in Int
      OBVIOUS
    <3> QED
      BY <3>1, <3>2
  <2>3. PICK g : g = [o \in Observation |-> byObs[o][j]]
    OBVIOUS
  <2>4. g \in [Observation -> Int]
    BY <1>2, <2>3
  <2>5. \A o \in Observation : g[o] = k * e[o]
    <3> SUFFICES ASSUME NEW o \in Observation PROVE g[o] = k * e[o]
      OBVIOUS
    <3>1. g[o] = p.trans[a][i][j] * e[o] * w[j]
      BY <2>2, <2>3
    <3>2. PICK t \in Int, eo \in Int, wj \in Int :
            t = p.trans[a][i][j] /\ eo = e[o] /\ wj = w[j]
      BY <1>3
    <3>3. t * eo * wj = (t * wj) * eo
      OBVIOUS
    <3> QED
      BY <2>1, <3>1, <3>2, <3>3
  <2>6. Total(e) = Den
    BY <2>2, SawtoothAssumption
  <2> HIDE DEF byObs, f
  <2>7. Total(g) = k * Total(e)
    BY <2>4, <2>5, Finite, TotalScaled
  <2>8. h[j] = Total(g)
    BY <2>3
  <2> HIDE DEF h
  <2>9. Den \in Int
    BY PomdpAssumption
  <2>10. h[j] = k * Den /\ k * Den = Den * k /\ k * Den \in Int
    BY <2>6, <2>7, <2>8, <2>9, TimesInt
  <2> QED
    BY <2>1, <2>10
<1>7. h \in [State -> Int]
  BY <1>6
<1>8. Total(F) = Total(h)
  <2> HIDE DEF byObs
  <2> QED
    BY <1>2, <1>5, Finite, TotalSwap
<1>9. Total(h) = Den * Total(f)
  <2>1. Den \in Int
    BY PomdpAssumption
  <2> HIDE DEF h, f
  <2> QED
    BY <1>4, <1>6, <1>7, <2>1, Finite, TotalScaled
<1>10. \A o \in Observation : Following(p, a, plan.after[o], i, o) <= F[o]
  BY <1>1, PlanFields, FollowingMonotone
<1> HIDE DEF F, h
<1>11. Den * Den * Den * (plan.value[i] - p.reward[a][i]) <= p.discount * Total(F)
  BY <1>1, <1>2, <1>10, PlanBackup
<1>12. PICK x \in Int, r \in Int, c \in Nat, S \in Int :
         x = plan.value[i] /\ r = p.reward[a][i] /\ c = p.discount /\ S = Total(f)
  <2>1. plan.value[i] \in Int /\ p.reward[a][i] \in Int
    BY PlanFields, PomdpFields DEF Vector
  <2> HIDE DEF f
  <2>2. Total(f) \in Int
    BY <1>4, Finite, TotalType
  <2> QED
    BY <2>1, <2>2, PomdpFields
<1>13. PICK D \in Nat \ {0} : D = Den
  BY PomdpAssumption
<1>14. (D * D) * (x - r) <= c * S
  <2>1. D * D * D * (x - r) <= c * (D * S)
    BY <1>8, <1>9, <1>11, <1>12, <1>13
  <2>2. D * D * D * (x - r) = D * ((D * D) * (x - r)) /\ c * (D * S) = D * (c * S)
    OBVIOUS
  <2>3. (D * D) * (x - r) \in Int /\ c * S \in Int
    BY TimesInt
  <2> QED
    BY <2>1, <2>2, <2>3, TimesStrict
<1>15. x <= r + CeilDiv(c * S, D * D)
  <2>1. D * D \in Nat \ {0} /\ c * S \in Int
    BY <1>13, Denominators, TimesInt
  <2> QED
    BY <1>14, <2>1, BelowQuotient
<1>16. NextAlphaAction(p, a, w)[i] = r + CeilDiv(c * S, D * D)
  BY <1>12, <1>13 DEF NextAlphaAction
<1> QED
  BY <1>1, <1>12, <1>15, <1>16

\* ... each of its iterations keeps them there, ...
LEMMA MaxNextProperties ==
  ASSUME NEW n \in Problems, NEW p, p = Pomdps[n], NEW vectors \in [Action -> Vector],
         NEW a \in Action, NEW i \in State, NEW o \in Observation
  PROVE  /\ MaxNext(p, a, vectors, i, o) \in Int
         /\ \A c \in Action : Following(p, a, vectors[c], i, o) <= MaxNext(p, a, vectors, i, o)
<1> DEFINE f == [c \in Action |-> Following(p, a, vectors[c], i, o)]
<1>1. f \in [Action -> Int]
  BY FollowingType
<1>2. MaxNext(p, a, vectors, i, o) = Max({f[c] : c \in Action})
  BY DEF MaxNext, Following
<1>3. \A c \in Action : f[c] = Following(p, a, vectors[c], i, o)
  OBVIOUS
<1> HIDE DEF f
<1> QED
  BY <1>1, <1>2, <1>3, MaxOfActions

LEMMA FIBAbove ==
  ASSUME NEW n \in Problems, NEW p, p = Pomdps[n], NEW vectors \in [Action -> Vector],
         \A plan \in Policies[n], i \in State : plan.value[i] <= vectors[plan.action][i]
  PROVE  /\ \A a \in Action : FIBAction(p, a, vectors) \in Vector
         /\ \A plan \in Policies[n], i \in State :
              plan.value[i] <= FIBAction(p, plan.action, vectors)[i]
<1> DEFINE F(a, i) == [o \in Observation |-> MaxNext(p, a, vectors, i, o)]
           new(a, i) == p.reward[a][i] + CeilDiv(p.discount * Total(F(a, i)), Den * Den * Den)
<1>1. \A a \in Action : FIBAction(p, a, vectors) = [i \in State |-> new(a, i)]
  BY TableIs DEF FIBAction
<1>2. \A a \in Action, i \in State : F(a, i) \in [Observation -> Int]
  BY MaxNextProperties
<1>3. ASSUME NEW a \in Action, NEW i \in State PROVE new(a, i) \in Int
  <2>1. Total(F(a, i)) \in Int
    BY <1>2, Finite, TotalType
  <2>2. p.discount * Total(F(a, i)) \in Int
    BY <2>1, PomdpFields, TimesInt
  <2>3. CeilDiv(p.discount * Total(F(a, i)), Den * Den * Den) \in Int
    BY <2>2, Denominators, CeilDivLeast
  <2> QED
    BY <2>3, PomdpFields
<1>4. ASSUME NEW plan \in Policies[n], NEW i \in State
      PROVE  plan.value[i] <= new(plan.action, i)
  <2>1. PICK a \in Action : a = plan.action
    BY PlanFields
  <2>2. ASSUME NEW o \in Observation
        PROVE  Following(p, a, plan.after[o], i, o) <= F(a, i)[o]
    <3>1. PICK then \in Policies[n] : then.value = plan.after[o]
      BY PlanFields
    <3>2. PICK c \in Action : c = then.action
      BY PlanFields
    <3>3. \A j \in State : then.value[j] <= vectors[c][j]
      BY <3>2
    <3>4. /\ then.value \in Vector /\ vectors[c] \in Vector
      BY PlanFields
    <3>5. Following(p, a, then.value, i, o) <= Following(p, a, vectors[c], i, o)
      BY <3>3, <3>4, FollowingMonotone
    <3>6. /\ Following(p, a, then.value, i, o) \in Int
          /\ Following(p, a, vectors[c], i, o) \in Int
      BY <3>4, FollowingType
    <3>7. PICK m \in Int : m = MaxNext(p, a, vectors, i, o)
      BY MaxNextProperties
    <3>8. Following(p, a, vectors[c], i, o) <= m
      BY <3>7, MaxNextProperties
    <3> QED
      BY <3>1, <3>5, <3>6, <3>7, <3>8
  <2>3. F(a, i) \in [Observation -> Int]
    BY <1>2
  <2> HIDE DEF F
  <2> QED
    BY <2>1, <2>2, <2>3, PlanBackup
<1> HIDE DEF new
<1>5. \A a \in Action : FIBAction(p, a, vectors) \in Vector
  BY <1>1, <1>3 DEF Vector
<1>6. ASSUME NEW plan \in Policies[n], NEW i \in State
      PROVE  plan.value[i] <= FIBAction(p, plan.action, vectors)[i]
  <2>1. FIBAction(p, plan.action, vectors)[i] = new(plan.action, i)
    BY <1>1, PlanFields
  <2> QED
    BY <1>4, <2>1
<1> QED
  BY <1>5, <1>6

\* ... and so are the corners taken from them.
LEMMA CornersAbove ==
  ASSUME NEW n \in Problems, NEW p, p = Pomdps[n], NEW vectors \in [Action -> Vector],
         \A plan \in Policies[n], i \in State : plan.value[i] <= vectors[plan.action][i]
  PROVE  /\ Corners(p, vectors) \in Vector
         /\ \A plan \in Policies[n], i \in State : plan.value[i] <= Corners(p, vectors)[i]
<1>1. Corners(p, vectors) =
        [i \in State |-> IF i \in p.terminal THEN 0 ELSE MaxOver(vectors)[i]]
  BY TableIs DEF Corners
<1>2. /\ MaxOver(vectors) \in Vector
      /\ \A a \in Action, i \in State : vectors[a][i] <= MaxOver(vectors)[i]
  BY MaxOverProperties
<1>3. Corners(p, vectors) \in Vector
  BY <1>1, <1>2 DEF Vector
<1>4. ASSUME NEW plan \in Policies[n], NEW i \in State
      PROVE  plan.value[i] <= Corners(p, vectors)[i]
  <2>1. CASE i \in p.terminal
    BY <1>1, <2>1, PlanFields
  <2>2. CASE i \notin p.terminal
    <3>1. PICK x \in Int, y \in Int, z \in Int :
            /\ x = plan.value[i] /\ y = vectors[plan.action][i] /\ z = MaxOver(vectors)[i]
      BY <1>2, PlanFields DEF Vector
    <3>2. x <= y /\ y <= z
      BY <1>2, <3>1, PlanFields
    <3> QED
      BY <1>1, <2>2, <3>1, <3>2
  <2> QED
    BY <2>1, <2>2
<1> QED
  BY <1>3, <1>4

-----------------------------------------------------------------------------
\* Backups.
LEMMA PushedType ==
  ASSUME NEW n \in Problems, NEW p, p = Pomdps[n], NEW b \in Belief, NEW a \in Action,
         NEW o \in Observation
  PROVE  /\ Pushed(b, p.trans, p.obs, a, o) \in [State -> Nat]
         /\ \A j \in State :
              /\ [i \in State |-> b[i] * p.trans[a][i][j]] \in [State -> Int]
              /\ Pushed(b, p.trans, p.obs, a, o)[j] =
                   p.obs[a][j][o] * Total([i \in State |-> b[i] * p.trans[a][i][j]])
<1>1. Pushed(b, p.trans, p.obs, a, o) =
        [j \in State |-> p.obs[a][j][o] * Total([i \in State |-> b[i] * p.trans[a][i][j]])]
  BY TableIs DEF Pushed
<1>2. ASSUME NEW j \in State
      PROVE  /\ [i \in State |-> b[i] * p.trans[a][i][j]] \in [State -> Int]
             /\ p.obs[a][j][o] * Total([i \in State |-> b[i] * p.trans[a][i][j]]) \in Nat
  <2>1. PICK f : f = [i \in State |-> b[i] * p.trans[a][i][j]]
    OBVIOUS
  <2>2. \A i \in State : f[i] \in Nat
    BY <2>1, BeliefType, PomdpFields, TimesNat
  <2>3. f \in [State -> Int] /\ \A i \in State : 0 <= f[i]
    BY <2>1, <2>2
  <2>4. PICK z : z = [i \in State |-> 0]
    OBVIOUS
  <2>5. z \in [State -> Int] /\ \A i \in State : z[i] = 0
    BY <2>4
  <2>6. Total(z) = 0
    BY <2>5, Finite, TotalZero
  <2>7. Total(z) <= Total(f)
    <3>1. \A i \in State : z[i] <= f[i]
      BY <2>3, <2>5
    <3> QED
      BY <2>3, <2>5, <3>1, Finite, TotalMonotone
  <2>8. Total(f) \in Int
    BY <2>3, Finite, TotalType
  <2>9. Total(f) \in Nat
    BY <2>6, <2>7, <2>8
  <2>10. p.obs[a][j][o] * Total(f) \in Nat
    BY <2>9, PomdpFields, TimesNat
  <2> QED
    BY <2>1, <2>3, <2>10
<1> QED
  BY <1>1, <1>2

\* A vector earns at the pushed weights what follows from each state of b.
LEMMA PushedValue ==
  ASSUME NEW n \in Problems, NEW p, p = Pomdps[n], NEW b \in Belief, NEW a \in Action,
         NEW o \in Observation, NEW w \in Vector
  PROVE  /\ [i \in State |-> b[i] * Following(p, a, w, i, o)] \in [State -> Int]
         /\ Inner(w, Pushed(b, p.trans, p.obs, a, o)) =
              Total([i \in State |-> b[i] * Following(p, a, w, i, o)])
<1> DEFINE v == Pushed(b, p.trans, p.obs, a, o)
           M == [i \in State |-> [j \in State |->
                   b[i] * (p.trans[a][i][j] * p.obs[a][j][o] * w[j])]]
           rows == [i \in State |-> b[i] * Following(p, a, w, i, o)]
           cols == [j \in State |-> v[j] * w[j]]
<1>1. \A i, j \in State : /\ b[i] \in Int /\ p.trans[a][i][j] \in Int
                          /\ p.obs[a][j][o] \in Int /\ w[j] \in Int
  BY BeliefType, PomdpFields DEF Vector
<1>2. M \in [State -> [State -> Int]]
  BY <1>1, TimesInt
<1>3. rows \in [State -> Int]
  BY <1>1, FollowingType, TimesInt
<1>4. ASSUME NEW i \in State PROVE Total(M[i]) = rows[i]
  <2>1. PICK f \in [State -> Int] :
          f = [j \in State |-> p.trans[a][i][j] * p.obs[a][j][o] * w[j]]
    BY <1>1, TimesInt
  <2>2. PICK g \in [State -> Int] : g = M[i]
    BY <1>2
  <2>3. PICK k \in Int : k = b[i]
    BY <1>1
  <2>4. \A j \in State : g[j] = k * f[j]
    BY <2>1, <2>2, <2>3
  <2>5. Following(p, a, w, i, o) = Total(f)
    BY <2>1 DEF Following
  <2>6. rows[i] = k * Total(f)
    BY <2>3, <2>5
  <2> HIDE DEF M, rows
  <2>7. Total(g) = k * Total(f)
    BY <2>4, Finite, TotalScaled
  <2> QED
    BY <2>2, <2>6, <2>7, Zenon
<1>5. ASSUME NEW j \in State PROVE Total([i \in State |-> M[i][j]]) = cols[j]
  <2>1. PICK f \in [State -> Int] : f = [i \in State |-> b[i] * p.trans[a][i][j]]
    BY <1>1, TimesInt
  <2>2. PICK g \in [State -> Int] : g = [i \in State |-> M[i][j]]
    <3> QED
      BY <1>2
  <2>3. PICK e \in Int, x \in Int : e = p.obs[a][j][o] /\ x = w[j]
    BY <1>1
  <2>4. \A i \in State : g[i] = (e * x) * f[i]
    <3> SUFFICES ASSUME NEW i \in State PROVE g[i] = (e * x) * f[i]
      OBVIOUS
    <3>1. PICK bi \in Int, t \in Int : bi = b[i] /\ t = p.trans[a][i][j]
      BY <1>1
    <3>2. g[i] = bi * (t * e * x) /\ f[i] = bi * t
      BY <2>1, <2>2, <2>3, <3>1
    <3>3. bi * (t * e * x) = (e * x) * (bi * t)
      OBVIOUS
    <3> QED
      BY <3>2, <3>3
  <2>5. v[j] = e * Total(f)
    BY <2>1, <2>3, PushedType
  <2>6. cols[j] = (e * Total(f)) * x
    BY <2>3, <2>5
  <2> HIDE DEF M, cols
  <2>7. e * x \in Int
    BY TimesInt
  <2>8. Total(g) = (e * x) * Total(f)
    BY <2>4, <2>7, Finite, TotalScaled
  <2>9. PICK S \in Int : S = Total(f)
    BY Finite, TotalType
  <2>10. (e * x) * S = (e * S) * x
    OBVIOUS
  <2> QED
    BY <2>2, <2>6, <2>8, <2>9, <2>10
<1>6. Total([i \in State |-> Total(M[i])]) =
        Total([j \in State |-> Total([i \in State |-> M[i][j]])])
  <2> HIDE DEF M
  <2> QED
    BY <1>2, Finite, TotalSwap
<1>7. [i \in State |-> Total(M[i])] = rows
  <2> HIDE DEF M
  <2> QED
    BY <1>4 DEF rows
<1>8. [j \in State |-> Total([i \in State |-> M[i][j]])] = cols
  <2> HIDE DEF M
  <2> QED
    BY <1>5 DEF cols
<1>9. Total(rows) = Total(cols)
  BY <1>6, <1>7, <1>8, Zenon
<1>10. Inner(w, v) = Total(cols)
  BY DEF Inner
<1> QED
  BY <1>3, <1>9, <1>10

LEMMA PlanPushed ==
  ASSUME NEW n \in Problems, NEW p, p = Pomdps[n], NEW b \in Belief, NEW plan \in Policies[n],
         NEW H, H = [o \in Observation |->
                       Inner(plan.after[o], Pushed(b, p.trans, p.obs, plan.action, o))],
         NEW e, e = [i \in State |-> b[i] * Expected(p, plan, i)]
  PROVE  /\ H \in [Observation -> Int] /\ e \in [State -> Int]
         /\ \A i \in State : Expected(p, plan, i) \in Int
         /\ Total(e) = Total(H)
<1>1. PICK a, after : a \in Action /\ a = plan.action /\ after = plan.after
  BY PlanFields
<1>2. \A o \in Observation : after[o] \in Vector
  BY <1>1, PlanFields
<1> DEFINE N == [i \in State |-> [o \in Observation |-> b[i] * Following(p, a, after[o], i, o)]]
           G == [o \in Observation |-> Inner(after[o], Pushed(b, p.trans, p.obs, a, o))]
           rows == [i \in State |-> b[i] * Expected(p, plan, i)]
<1>3. \A i \in State, o \in Observation :
        b[i] \in Int /\ Following(p, a, after[o], i, o) \in Int
  <2> SUFFICES ASSUME NEW i \in State, NEW o \in Observation
               PROVE  b[i] \in Int /\ Following(p, a, after[o], i, o) \in Int
    OBVIOUS
  <2>1. PICK w \in Vector : w = after[o]
    BY <1>2
  <2>2. Following(p, a, w, i, o) \in Int
    BY <1>1, FollowingType
  <2> QED
    BY <2>1, <2>2, BeliefType
<1>4. N \in [State -> [Observation -> Int]]
  BY <1>3, TimesInt
<1>5. ASSUME NEW i \in State
      PROVE  Total(N[i]) = rows[i] /\ Expected(p, plan, i) \in Int
  <2>1. PICK f \in [Observation -> Int] :
          f = [o \in Observation |-> Following(p, a, after[o], i, o)]
    BY <1>3
  <2>2. PICK g \in [Observation -> Int] : g = N[i]
    BY <1>4
  <2>3. PICK k \in Int : k = b[i]
    BY BeliefType
  <2>4. \A o \in Observation : g[o] = k * f[o]
    BY <2>1, <2>2, <2>3
  <2>5. Expected(p, plan, i) = Total(f)
    BY <1>1, <2>1 DEF Expected, Following
  <2>6. rows[i] = k * Total(f)
    BY <2>3, <2>5
  <2> HIDE DEF N, rows
  <2>7. Total(g) = k * Total(f)
    BY <2>4, Finite, TotalScaled
  <2>8. Total(f) \in Int
    BY Finite, TotalType
  <2>9. Total(N[i]) = rows[i]
    BY <2>2, <2>6, <2>7, Zenon
  <2> QED
    BY <2>5, <2>8, <2>9
<1>6. ASSUME NEW o \in Observation
      PROVE  Total([i \in State |-> N[i][o]]) = G[o] /\ G[o] \in Int
  <2>1. PICK f : f = [i \in State |-> b[i] * Following(p, a, after[o], i, o)]
    OBVIOUS
  <2>2. f \in [State -> Int] /\ G[o] = Total(f)
    <3>1. PICK w \in Vector : w = after[o]
      BY <1>2
    <3>2. f = [i \in State |-> b[i] * Following(p, a, w, i, o)] /\ a \in Action
      BY <1>1, <2>1, <3>1
    <3>3. f \in [State -> Int]
      BY <3>2, PushedValue
    <3>4. Inner(w, Pushed(b, p.trans, p.obs, a, o)) = Total(f)
      BY <3>2, PushedValue
    <3> QED
      BY <3>1, <3>3, <3>4
  <2>3. [i \in State |-> N[i][o]] = f
    BY <2>1
  <2>4. Total(f) \in Int
    BY <2>2, Finite, TotalType
  <2> HIDE DEF N, G
  <2> QED
    BY <2>2, <2>3, <2>4
<1> HIDE DEF N
<1>7. Total([i \in State |-> Total(N[i])]) =
        Total([o \in Observation |-> Total([i \in State |-> N[i][o]])])
  BY <1>4, Finite, TotalSwap
<1>8. [i \in State |-> Total(N[i])] = rows
  BY <1>5 DEF rows
<1>9. [o \in Observation |-> Total([i \in State |-> N[i][o]])] = G /\ G \in [Observation -> Int]
  <2>1. DOMAIN G = Observation /\ G = [o \in Observation |-> G[o]]
    OBVIOUS
  <2> HIDE DEF G
  <2>2. G \in [Observation -> Int]
    BY <1>6, <2>1
  <2>3. [o \in Observation |-> Total([i \in State |-> N[i][o]])] = [o \in Observation |-> G[o]]
    BY <1>6
  <2> QED
    BY <2>1, <2>2, <2>3
<1>10. Total(rows) = Total(G)
  BY <1>7, <1>8, <1>9, Zenon
<1>11. rows = e /\ G = H
  BY <1>1
<1>12. e \in [State -> Int]
  BY <1>5, BeliefType, TimesInt
<1> HIDE DEF rows, G
<1> QED
  BY <1>5, <1>9, <1>10, <1>11, <1>12

\* A plan is worth at b no more than a backup with what is above the plans
\* gone on with, at the pushed weights.
LEMMA PlanBelow ==
  ASSUME NEW n \in Problems, NEW p, p = Pomdps[n], NEW b \in Belief, NEW plan \in Policies[n],
         NEW X \in [Observation -> Int],
         \A o \in Observation :
           Inner(plan.after[o], Pushed(b, p.trans, p.obs, plan.action, o)) <= X[o]
  PROVE  Inner(plan.value, b) <=
           Inner(p.reward[plan.action], b) + CeilDiv(p.discount * Total(X), Den * Den * Den)
<1>1. PICK a \in Action, value \in Vector, R \in Vector :
        a = plan.action /\ value = plan.value /\ R = p.reward[a]
  BY PlanFields, PomdpFields
<1>2. PICK D \in Nat \ {0}, c \in Nat : D = Den * Den * Den /\ c = p.discount
  BY Denominators, PomdpFields
<1>3. PICK G, e :
        /\ G = [o \in Observation |->
                  Inner(plan.after[o], Pushed(b, p.trans, p.obs, plan.action, o))]
        /\ e = [i \in State |-> b[i] * Expected(p, plan, i)]
  OBVIOUS
<1>5. /\ G \in [Observation -> Int] /\ e \in [State -> Int] /\ Total(e) = Total(G)
      /\ \A i \in State : Expected(p, plan, i) \in Int
  BY <1>3, PlanPushed
<1>4. Total(G) <= Total(X)
  <2>1. \A o \in Observation : G[o] <= X[o]
    BY <1>3
  <2> QED
    BY <1>5, <2>1, Finite, TotalMonotone
<1>7. PICK u \in [State -> Int] : u = [i \in State |-> b[i] * Minus(value, R)[i]]
  <2>1. Minus(value, R) \in Vector
    BY InnerMinus
  <2> QED
    BY <2>1, BeliefType, TimesInt DEF Vector
<1>8. Total(u) = Inner(value, b) - Inner(R, b)
  BY <1>7, InnerMinus DEF Inner
<1>6. PICK f \in [State -> Int] : f = [i \in State |-> D * u[i]]
  <2>1. \A i \in State : D * u[i] \in Int
    BY TimesInt
  <2> QED
    BY <2>1
<1>9. PICK g \in [State -> Int] : g = [i \in State |-> c * e[i]]
  <2>1. \A i \in State : c * e[i] \in Int
    BY <1>5, TimesInt
  <2> QED
    BY <2>1
<1>10. Total(f) <= Total(g)
  <2>1. ASSUME NEW i \in State PROVE f[i] <= g[i]
    <3>1. PICK bi \in Nat, x \in Int, E \in Int :
            bi = b[i] /\ x = value[i] - R[i] /\ E = Expected(p, plan, i)
      BY <1>5, BeliefType DEF Vector
    <3>2. D * x <= c * E
      BY <1>1, <1>2, <3>1, PlanFields
    <3>3. bi * (D * x) <= bi * (c * E)
      BY <3>2, TimesInt, TimesMonotone
    <3>4. u[i] = bi * x /\ e[i] = bi * E
      BY <1>3, <1>7, <3>1 DEF Minus
    <3>5. f[i] = D * (bi * x) /\ g[i] = c * (bi * E)
      BY <1>6, <1>9, <3>4
    <3>6. D * (bi * x) = bi * (D * x) /\ c * (bi * E) = bi * (c * E)
      OBVIOUS
    <3> QED
      BY <3>3, <3>5, <3>6
  <2> QED
    BY <2>1, Finite, TotalMonotone
<1>11. Total(f) = D * Total(u)
  <2>1. \A i \in State : f[i] = D * u[i]
    BY <1>6
  <2>2. D \in Int
    OBVIOUS
  <2> QED
    BY <2>1, <2>2, Finite, TotalScaled
<1>12. Total(g) = c * Total(e)
  <2>1. \A i \in State : g[i] = c * e[i]
    BY <1>9
  <2>2. c \in Int
    OBVIOUS
  <2> QED
    BY <1>5, <2>1, <2>2, Finite, TotalScaled
<1>13. PICK x \in Int, r \in Int, S \in Int, T \in Int :
         /\ x = Inner(value, b) /\ r = Inner(R, b) /\ S = Total(G) /\ T = Total(X)
  <2>1. Total(G) \in Int /\ Total(X) \in Int
    BY <1>5, Finite, TotalType
  <2> QED
    BY <2>1, InnerType, BeliefType
<1>14. D * (x - r) <= c * S
  BY <1>5, <1>8, <1>10, <1>11, <1>12, <1>13
<1>15. c * S <= c * T
  BY <1>4, <1>13, TimesMonotone
<1>16. D * (x - r) <= c * T /\ c * T \in Int
  <2>1. D * (x - r) \in Int /\ c * S \in Int /\ c * T \in Int
    BY TimesInt
  <2> QED
    BY <1>14, <1>15, <2>1
<1>17. x <= r + CeilDiv(c * T, D)
  BY <1>16, BelowQuotient
<1> QED
  BY <1>1, <1>2, <1>13, <1>17

\* Pushed weights are those of the next belief, by the factor that its first
\* state shows; they earn as much.
LEMMA PushedToNext ==
  ASSUME NEW n \in Problems, NEW p, p = Pomdps[n], NEW b \in p.reachable, NEW a \in Action,
         NEW o \in Observation, NEW w \in Vector,
         NEW c, c = p.next[b][a][o], NEW v, v = Pushed(b, p.trans, p.obs, a, o)
  PROVE  /\ c = NoBelief => Inner(w, v) = 0
         /\ c # NoBelief => /\ c \in p.reachable /\ v[First(c)] \in Nat
                            /\ Inner(w, v) = v[First(c)] * Inner(w, c)
<1>1. b \in Belief /\ p.reachable \subseteq Belief
  BY PomdpFields
<1>2. v \in [State -> Nat]
  BY <1>1, PushedType
<1>3. IF \A i \in State : v[i] = 0 THEN c = NoBelief ELSE c # NoBelief /\ SameBelief(v, c)
  BY NextAssumption
<1>4. c \in p.reachable \cup {NoBelief}
  BY ReachableAssumption DEF Closed
<1>5. CASE c = NoBelief
  <2>1. \A i \in State : v[i] = 0
    BY <1>3, <1>5
  <2>2. PICK f : f = [i \in State |-> v[i] * w[i]]
    OBVIOUS
  <2>3. \A i \in State : w[i] \in Int
    BY DEF Vector
  <2>4. f \in [State -> Int] /\ \A i \in State : f[i] = 0
    BY <2>1, <2>2, <2>3
  <2>5. Total(f) = 0
    BY <2>4, Finite, TotalZero
  <2>6. Inner(w, v) = 0
    BY <2>2, <2>5 DEF Inner
  <2> QED
    BY <1>2, <1>5, <2>6
<1>6. CASE c # NoBelief
  <2>1. c \in p.reachable /\ c \in Belief
    BY <1>1, <1>4, <1>6
  <2>2. First(c) \in State /\ c[First(c)] = 1 /\ c \in [State -> Int] /\ w \in [State -> Int]
    BY <2>1, BeliefType DEF Vector
  <2>3. PICK k \in Int : k = v[First(c)] /\ k \in Nat
    BY <1>2, <2>2
  <2>4. ASSUME NEW j \in State PROVE v[j] = k * c[j]
    <3>1. v[j] * c[First(c)] = v[First(c)] * c[j]
      BY <1>3, <1>6, <2>2 DEF SameBelief
    <3>2. v[j] \in Nat
      BY <1>2
    <3> QED
      BY <2>2, <2>3, <3>1, <3>2
  <2>5. PICK f \in [State -> Int] : f = [i \in State |-> c[i] * w[i]]
    BY <2>2, TimesInt
  <2>6. PICK h \in [State -> Int] : h = [i \in State |-> v[i] * w[i]]
    <3>1. \A i \in State : v[i] \in Int
      BY <1>2
    <3> QED
      BY <2>2, <3>1, TimesInt
  <2>7. \A i \in State : h[i] = k * f[i]
    <3> SUFFICES ASSUME NEW i \in State PROVE h[i] = k * f[i]
      OBVIOUS
    <3>1. PICK ci \in Int, wi \in Int : ci = c[i] /\ wi = w[i]
      BY <2>2
    <3>2. h[i] = (k * ci) * wi /\ f[i] = ci * wi
      BY <2>4, <2>5, <2>6, <3>1
    <3>3. (k * ci) * wi = k * (ci * wi)
      OBVIOUS
    <3> QED
      BY <3>2, <3>3
  <2>8. Total(h) = k * Total(f)
    BY <2>7, Finite, TotalScaled
  <2>9. Inner(w, v) = k * Inner(w, c)
    BY <2>5, <2>6, <2>8 DEF Inner
  <2> QED
    BY <1>2, <1>6, <2>1, <2>3, <2>9
<1> QED
  BY <1>5, <1>6

\* The plans of the problem.
Plans == Policies[problem]

\* Every backup of an action is above the plans that begin with it, if the
\* values it reads are above all plans.
LEMMA NewQAbove ==
  ASSUME problem \in Problems, NEW b \in pomdp.reachable,
         \A c \in pomdp.reachable : Value(c) \in Int
  PROVE  /\ \A a \in Action : NewQ(b, a) \in Int
         /\ (\A c \in pomdp.reachable, plan \in Plans : Inner(plan.value, c) <= Value(c))
              => \A plan \in Plans : Inner(plan.value, b) <= NewQ(b, plan.action)
<1> DEFINE term(a, o) ==
             LET c == pomdp.next[b][a][o]
             IN  IF c = NoBelief THEN 0
                 ELSE Pushed(b, pomdp.trans, pomdp.obs, a, o)[First(c)] * Value(c)
           X(a) == [o \in Observation |-> term(a, o)]
<1>1. b \in Belief /\ pomdp.reachable \subseteq Belief
  BY PomdpFields DEF pomdp
<1>2. \A a \in Action : NewQ(b, a) =
        Inner(pomdp.reward[a], b) + CeilDiv(pomdp.discount * Total(X(a)), Den * Den * Den)
  BY DEF NewQ
<1>3. ASSUME NEW a \in Action, NEW o \in Observation PROVE term(a, o) \in Int
  <2>1. PICK c : c = pomdp.next[b][a][o]
    OBVIOUS
  <2>2. CASE c = NoBelief
    BY <2>1, <2>2
  <2>3. CASE c # NoBelief
    <3>1. c \in pomdp.reachable
      BY <2>1, <2>3, ReachableAssumption DEF Closed, pomdp
    <3>2. Value(c) \in Int /\ First(c) \in State
      BY <1>1, <3>1, BeliefType
    <3>3. Pushed(b, pomdp.trans, pomdp.obs, a, o)[First(c)] \in Int
      BY <1>1, <3>2, PushedType DEF pomdp
    <3>4. term(a, o) = Pushed(b, pomdp.trans, pomdp.obs, a, o)[First(c)] * Value(c)
      BY <2>1, <2>3
    <3> QED
      BY <3>2, <3>3, <3>4, TimesInt
  <2> QED
    BY <2>2, <2>3
<1>4. ASSUME NEW a \in Action
      PROVE  X(a) \in [Observation -> Int] /\ NewQ(b, a) \in Int
  <2>1. X(a) \in [Observation -> Int]
    BY <1>3
  <2> HIDE DEF X
  <2>2. Total(X(a)) \in Int
    BY <2>1, Finite, TotalType
  <2>3. pomdp.discount * Total(X(a)) \in Int
    BY <2>2, PomdpFields, TimesInt DEF pomdp
  <2>4. CeilDiv(pomdp.discount * Total(X(a)), Den * Den * Den) \in Int
    BY <2>3, Denominators, CeilDivLeast
  <2>5. Inner(pomdp.reward[a], b) \in Int
    BY <1>1, PomdpFields, InnerType, BeliefType DEF pomdp
  <2> QED
    BY <1>2, <2>1, <2>4, <2>5
<1>5. ASSUME \A c \in pomdp.reachable, plan \in Plans : Inner(plan.value, c) <= Value(c),
             NEW plan \in Plans
      PROVE  Inner(plan.value, b) <= NewQ(b, plan.action)
  <2>1. PICK a \in Action : a = plan.action
    BY PlanFields DEF Plans
  <2>2. ASSUME NEW o \in Observation
        PROVE  Inner(plan.after[o], Pushed(b, pomdp.trans, pomdp.obs, a, o)) <= X(a)[o]
    <3>1. PICK then \in Plans : then.value = plan.after[o]
      BY PlanFields DEF Plans
    <3>2. PICK w \in Vector : w = then.value
      BY PlanFields DEF Plans
    <3>3. PICK c : c = pomdp.next[b][a][o]
      OBVIOUS
    <3>4. PICK v : v = Pushed(b, pomdp.trans, pomdp.obs, a, o)
      OBVIOUS
    <3>5. /\ c = NoBelief => Inner(w, v) = 0
          /\ c # NoBelief => /\ c \in pomdp.reachable /\ v[First(c)] \in Nat
                             /\ Inner(w, v) = v[First(c)] * Inner(w, c)
      BY <3>3, <3>4, PushedToNext DEF pomdp
    <3>6. CASE c = NoBelief
      <4>1. X(a)[o] = 0
        BY <3>3, <3>6
      <4>2. Inner(w, v) = 0
        BY <3>5, <3>6
      <4> HIDE DEF X
      <4> QED
        BY <3>1, <3>2, <3>4, <4>1, <4>2
    <3>7. CASE c # NoBelief
      <4>1. PICK k \in Nat, x \in Int, y \in Int :
              k = v[First(c)] /\ x = Inner(w, c) /\ y = Value(c)
        BY <1>1, <3>5, <3>7, InnerType, BeliefType
      <4>2. x <= y
        BY <1>5, <3>2, <3>5, <3>7, <4>1
      <4>3. k * x <= k * y
        BY <4>2, TimesMonotone
      <4>4. X(a)[o] = k * y
        BY <3>3, <3>4, <3>7, <4>1
      <4>5. Inner(w, v) = k * x
        BY <3>5, <3>7, <4>1
      <4> HIDE DEF X
      <4> QED
        BY <3>1, <3>2, <3>4, <4>3, <4>4, <4>5
    <3> QED
      BY <3>6, <3>7
  <2>3. X(a) \in [Observation -> Int]
    BY <1>4
  <2> HIDE DEF X
  <2>4. Inner(plan.value, b) <= Inner(pomdp.reward[plan.action], b) +
          CeilDiv(pomdp.discount * Total(X(a)), Den * Den * Den)
    BY <1>1, <2>1, <2>2, <2>3, PlanBelow DEF Plans, pomdp
  <2> QED
    BY <1>2, <2>1, <2>4
<1> QED
  BY <1>4, <1>5

\* Each entry is backed up or taken from the cache.
LEMMA UseCacheEntries ==
  ASSUME NEW cached, NEW new
  PROVE  /\ DOMAIN UseCache(cached, new) = Action
         /\ \A a \in Action : UseCache(cached, new)[a] \in {cached[a], new[a]}
<1>1. PICK U : UseCache(cached, new) = [a \in Action |-> IF a \in U THEN new[a] ELSE cached[a]]
  BY DEF UseCache
<1> QED
  BY <1>1

\* The entries of a node after an update, if those that were backed up before
\* are above the plans.
LEMMA NewQsAbove ==
  ASSUME problem \in Problems, NEW b \in pomdp.reachable,
         \A c \in pomdp.reachable : Value(c) \in Int,
         \A c \in pomdp.reachable, plan \in Plans : Inner(plan.value, c) <= Value(c),
         q[b] \in [Action -> Int],
         q[b][0] # Undefined => \A plan \in Plans : Inner(plan.value, b) <= q[b][plan.action]
  PROVE  /\ NewQs(b) \in [Action -> Int]
         /\ Max(Range(NewQs(b))) \in Int
         /\ \A plan \in Plans : /\ Inner(plan.value, b) <= NewQs(b)[plan.action]
                                /\ Inner(plan.value, b) <= Max(Range(NewQs(b)))
<1> DEFINE new == [a \in Action |-> NewQ(b, a)]
<1>1. new \in [Action -> Int] /\ \A plan \in Plans : Inner(plan.value, b) <= new[plan.action]
  <2>1. \A plan \in Plans : plan.action \in Action
    BY PlanFields DEF Plans
  <2> QED
    BY <2>1, NewQAbove
<1>2. NewQs(b) = IF q[b][0] = Undefined THEN new ELSE UseCache(q[b], new)
  BY TableIs DEF NewQs
<1> HIDE DEF new
<1>3. /\ NewQs(b) \in [Action -> Int]
      /\ \A plan \in Plans : Inner(plan.value, b) <= NewQs(b)[plan.action]
  <2>1. CASE q[b][0] = Undefined
    BY <1>1, <1>2, <2>1
  <2>2. CASE q[b][0] # Undefined
    <3>1. PICK u : u = UseCache(q[b], new)
      OBVIOUS
    <3>2. NewQs(b) = u /\ DOMAIN u = Action
      BY <1>2, <2>2, <3>1, UseCacheEntries
    <3>3. \A a \in Action : u[a] \in {q[b][a], new[a]}
      BY <3>1, UseCacheEntries
    <3>4. u = [a \in Action |-> u[a]]
      <4>1. UseCache(q[b], new) = [a \in Action |-> UseCache(q[b], new)[a]]
        BY DEF UseCache
      <4> QED
        BY <3>1, <4>1
    <3>5. u \in [Action -> Int]
      BY <1>1, <3>3, <3>4
    <3>6. ASSUME NEW plan \in Plans PROVE Inner(plan.value, b) <= u[plan.action]
      <4>1. plan.action \in Action
        BY PlanFields DEF Plans
      <4> QED
        BY <1>1, <2>2, <3>3, <4>1
    <3> QED
      BY <3>2, <3>5, <3>6
  <2> QED
    BY <2>1, <2>2
<1>4. PICK new2 \in [Action -> Int] : new2 = NewQs(b)
  BY <1>3
<1>5. Range(new2) = {new2[a] : a \in Action}
  BY DEF Range
<1>6. Max(Range(new2)) \in Int /\ \A a \in Action : new2[a] <= Max(Range(new2))
  BY <1>5, MaxOfActions
<1>7. ASSUME NEW plan \in Plans PROVE Inner(plan.value, b) <= Max(Range(new2))
  <2>1. plan.action \in Action /\ plan.value \in Vector /\ b \in Belief
    BY PlanFields, PomdpFields DEF Plans, pomdp
  <2>2. Inner(plan.value, b) \in Int /\ new2[plan.action] \in Int
    BY <2>1, InnerType, BeliefType
  <2> QED
    BY <1>3, <1>4, <1>6, <2>1, <2>2
<1> QED
  BY <1>3, <1>4, <1>6, <1>7

-----------------------------------------------------------------------------
\* The points and their lists.
Settings == problem \in Problems /\ useSawtoothSupportList \in BOOLEAN

PointsOK ==
  /\ IsFiniteSet(DOMAIN point) /\ DOMAIN point \subseteq Nat
  /\ \A k \in DOMAIN point : point[k].b \in pomdp.reachable /\ point[k].v \in Int

ListsOK ==
  /\ pts \in Seq(Nat) /\ IsInjective(pts) /\ ToSet(pts) = DOMAIN point
  /\ support \in [State -> Seq(Nat)]
  /\ \A i \in State :
       /\ IsInjective(support[i])
       /\ ToSet(support[i]) = {k \in DOMAIN point : useSawtoothSupportList /\ point[k].b[i] > 0}

BoundOK == cornerPts \in Vector /\ PointsOK /\ ListsOK

\* The points that may matter at b.
Check(pt, use, b) == {k \in DOMAIN pt : use => pt[k].b[First(b)] > 0}

LEMMA ReachableBelief ==
  ASSUME Settings
  PROVE  \A b \in pomdp.reachable :
           /\ b \in Belief /\ b \in [State -> Nat] /\ First(b) \in State
           /\ First(b) \in Support(b) /\ Support(b) \subseteq State
BY PomdpFields, BeliefType DEF Settings, pomdp

LEMMA ValueNow ==
  ASSUME Settings, BoundOK, NEW b \in pomdp.reachable
  PROVE  /\ b \in Belief
         /\ PointsIn(point, Check(point, useSawtoothSupportList, b))
         /\ Value(b) = ValueAt(cornerPts, point, Check(point, useSawtoothSupportList, b), b)
<1>1. b \in Belief /\ First(b) \in State
  BY ReachableBelief
<1>2. PointsIn(point, Check(point, useSawtoothSupportList, b))
  <2>1. IsFiniteSet(Check(point, useSawtoothSupportList, b))
    BY FS_Subset DEF BoundOK, PointsOK, Check
  <2>2. \A k \in DOMAIN point : point[k].b \in Belief /\ point[k].v \in Int
    BY ReachableBelief DEF BoundOK, PointsOK
  <2> QED
    BY <2>1, <2>2 DEF PointsIn, Check
<1>3. ToSet(PtsToCheck(b)) = Check(point, useSawtoothSupportList, b)
  BY <1>1 DEF BoundOK, ListsOK, PtsToCheck, Check, Settings
<1> QED
  BY <1>1, <1>2, <1>3, ValueIs

LEMMA ValueThen ==
  ASSUME Settings, UNCHANGED settings, BoundOK', NEW b \in pomdp.reachable
  PROVE  /\ PointsIn(point', Check(point', useSawtoothSupportList, b))
         /\ Value(b)' = ValueAt(cornerPts', point', Check(point', useSawtoothSupportList, b), b)
<1>1. b \in Belief /\ First(b) \in State
  BY ReachableBelief
<1>2. useSawtoothSupportList' = useSawtoothSupportList /\ problem' = problem
  BY DEF settings
<1>3. PointsIn(point', Check(point', useSawtoothSupportList, b))
  <2>1. IsFiniteSet(Check(point', useSawtoothSupportList, b))
    BY FS_Subset DEF BoundOK, PointsOK, Check
  <2>2. \A k \in DOMAIN point' : point'[k].b \in Belief /\ point'[k].v \in Int
    BY <1>2, ReachableBelief DEF BoundOK, PointsOK, pomdp
  <2> QED
    BY <2>1, <2>2 DEF PointsIn, Check
<1>4. ToSet(PtsToCheck(b)') = Check(point', useSawtoothSupportList, b)
  BY <1>1, <1>2 DEF BoundOK, ListsOK, PtsToCheck, Check, Settings
<1> QED
  BY <1>1, <1>3, <1>4, ValueIs

LEMMA NewIdIsNew ==
  ASSUME PointsOK
  PROVE  NewId \in Nat /\ NewId \notin DOMAIN point
<1> DEFINE S == DOMAIN point \cup {0}
<1>1. IsFiniteSet(S) /\ S \in SUBSET Int /\ S # {}
  BY FS_AddElement DEF PointsOK
<1>2. S = {0} \cup DOMAIN point /\ \A k \in S : k \in Nat
  BY DEF PointsOK
<1> HIDE DEF S
<1>3. Max(S) \in S /\ \A k \in S : k <= Max(S)
  BY <1>1, MaxProperties
<1>4. Max(S) \in Nat /\ Max(S) + 1 \notin S
  <2>1. PICK m \in Nat : m = Max(S)
    BY <1>2, <1>3
  <2>2. \A k \in S : k \in Nat /\ k <= m
    BY <1>2, <1>3, <2>1
  <2>3. m + 1 \notin S
    BY <2>2
  <2> QED
    BY <2>1, <2>3
<1> QED
  BY <1>2, <1>4 DEF NewId

\* What addPoint does to corners, points and lists.
LEMMA AddPointBound ==
  ASSUME Settings, UNCHANGED settings, BoundOK, NEW b \in pomdp.reachable, NEW v \in Int,
         NEW next, NEW prune, AddPoint(b, v, next, prune)
  PROVE  /\ BoundOK'
         /\ \A k \in DOMAIN point : k \in DOMAIN point' /\ point'[k] = point[k]
         /\ \A k \in DOMAIN point' : k \in DOMAIN point \/ (point'[k].b = b /\ point'[k].v = v)
         /\ IsCorner(b) => cornerPts' = [cornerPts EXCEPT ![First(b)] = v]
         /\ ~IsCorner(b) => /\ cornerPts' = cornerPts
                            /\ \E k \in DOMAIN point' : point'[k].b = b /\ point'[k].v = v
         /\ (candidate' = 1 /\ pc' = prune) \/ (candidate' = candidate /\ pc' = next)
<1>1. useSawtoothSupportList' = useSawtoothSupportList /\ problem' = problem /\ pomdp' = pomdp
  BY DEF settings, pomdp
<1>2. (candidate' = 1 /\ pc' = prune) \/ (candidate' = candidate /\ pc' = next)
  BY DEF AddPoint
<1>3. CASE IsCorner(b)
  <2>1. /\ cornerPts' = [cornerPts EXCEPT ![First(b)] = v]
        /\ point' = point /\ pts' = pts /\ support' = support
    BY <1>3 DEF AddPoint
  <2>2. cornerPts' \in Vector
    BY <2>1 DEF BoundOK, Vector
  <2>3. PointsOK' /\ ListsOK'
    BY <1>1, <2>1 DEF BoundOK, PointsOK, ListsOK
  <2> QED
    BY <1>2, <1>3, <2>1, <2>2, <2>3 DEF BoundOK
<1>4. CASE ~IsCorner(b)
  <2>1. PICK id : id = NewId
    BY Zenon
  <2>2. id \in Nat /\ id \notin DOMAIN point
    BY <2>1, NewIdIsNew DEF BoundOK
  <2>3. /\ point' = Extended(point, id, [b |-> b, v |-> v, created |-> numBackups])
        /\ pts' = Append(pts, id)
        /\ support' = [i \in State |-> IF useSawtoothSupportList /\ b[i] > 0
                                       THEN Append(support[i], id) ELSE support[i]]
        /\ cornerPts' = cornerPts
    BY <1>4, <2>1 DEF AddPoint
  <2>4. /\ DOMAIN point' = DOMAIN point \cup {id}
        /\ \A k \in DOMAIN point : k # id /\ point'[k] = point[k]
        /\ point'[id].b = b /\ point'[id].v = v
    BY <2>2, <2>3 DEF Extended
  <2>5. PointsOK'
    <3>1. IsFiniteSet(DOMAIN point') /\ DOMAIN point' \subseteq Nat
      BY <2>2, <2>4, FS_AddElement DEF BoundOK, PointsOK
    <3>2. \A k \in DOMAIN point' : point'[k].b \in pomdp.reachable /\ point'[k].v \in Int
      BY <2>4 DEF BoundOK, PointsOK
    <3> QED
      BY <1>1, <3>1, <3>2 DEF PointsOK
  <2>6. pts' \in Seq(Nat) /\ IsInjective(pts') /\ ToSet(pts') = DOMAIN point'
    <3>1. pts \in Seq(Nat) /\ IsInjective(pts) /\ id \notin ToSet(pts) /\ ToSet(pts) = DOMAIN point
      BY <2>2 DEF BoundOK, ListsOK
    <3>2. /\ Append(pts, id) \in Seq(Nat) /\ IsInjective(Append(pts, id))
          /\ ToSet(Append(pts, id)) = ToSet(pts) \cup {id}
      BY <2>2, <3>1, AppendedProperties
    <3> QED
      BY <2>3, <2>4, <3>1, <3>2
  <2>7. ASSUME NEW i \in State
        PROVE  /\ support'[i] \in Seq(Nat) /\ IsInjective(support'[i])
               /\ ToSet(support'[i]) =
                    {k \in DOMAIN point' : useSawtoothSupportList /\ point'[k].b[i] > 0}
    <3>1. PICK s \in Seq(Nat) : s = support[i]
      BY DEF BoundOK, ListsOK
    <3>2. /\ IsInjective(s)
          /\ ToSet(s) = {k \in DOMAIN point : useSawtoothSupportList /\ point[k].b[i] > 0}
      BY <3>1 DEF BoundOK, ListsOK
    <3>3. CASE useSawtoothSupportList /\ b[i] > 0
      <4>1. id \notin ToSet(s)
        BY <2>2, <3>2
      <4>2. /\ Append(s, id) \in Seq(Nat) /\ IsInjective(Append(s, id))
            /\ ToSet(Append(s, id)) = ToSet(s) \cup {id}
        BY <2>2, <3>2, <4>1, AppendedProperties
      <4>3. support'[i] = Append(s, id)
        BY <2>3, <3>1, <3>3
      <4>4. {k \in DOMAIN point' : useSawtoothSupportList /\ point'[k].b[i] > 0} =
              {k \in DOMAIN point : useSawtoothSupportList /\ point[k].b[i] > 0} \cup {id}
        BY <2>4, <3>3
      <4> QED
        BY <3>2, <4>2, <4>3, <4>4
    <3>4. CASE ~(useSawtoothSupportList /\ b[i] > 0)
      <4>1. support'[i] = s
        BY <2>3, <3>1, <3>4
      <4>2. {k \in DOMAIN point' : useSawtoothSupportList /\ point'[k].b[i] > 0} =
              {k \in DOMAIN point : useSawtoothSupportList /\ point[k].b[i] > 0}
        BY <2>4, <3>4
      <4> QED
        BY <3>2, <4>1, <4>2
    <3> QED
      BY <3>3, <3>4
  <2>8. support' \in [State -> Seq(Nat)]
    <3>1. support' = [i \in State |-> support'[i]]
      BY <2>3
    <3> QED
      BY <2>7, <3>1
  <2>9. BoundOK'
    <3>1. ListsOK'
      BY <1>1, <2>6, <2>7, <2>8 DEF ListsOK
    <3> QED
      BY <2>3, <2>5, <3>1 DEF BoundOK
  <2> QED
    BY <1>2, <1>4, <2>3, <2>4, <2>9
<1> QED
  BY <1>3, <1>4

\* What the loop of prune does when it deletes its candidate.
LEMMA PruneBound ==
  ASSUME Settings, UNCHANGED settings, BoundOK, cornerPts' = cornerPts,
         candidate \in 1 .. Len(pts), NEW y, y = pts[candidate],
         support' = [i \in State |-> RemoveFirst(support[i], y)],
         point' = Restrict(point, DOMAIN point \ {y}),
         pts' = RemoveAt(pts, candidate)
  PROVE  /\ BoundOK' /\ y \in DOMAIN point
         /\ DOMAIN point' = DOMAIN point \ {y}
         /\ \A k \in DOMAIN point' : point'[k] = point[k]
<1>1. useSawtoothSupportList' = useSawtoothSupportList /\ pomdp' = pomdp
  BY DEF settings, pomdp
<1>2. pts \in Seq(Nat) /\ IsInjective(pts) /\ ToSet(pts) = DOMAIN point
  BY DEF BoundOK, ListsOK
<1>3. y \in DOMAIN point
  BY <1>2, ListHas
<1>4. DOMAIN point' = DOMAIN point \ {y} /\ \A k \in DOMAIN point' : point'[k] = point[k]
  BY DEF Restrict
<1>5. PointsOK'
  <2>1. IsFiniteSet(DOMAIN point') /\ DOMAIN point' \subseteq Nat
    <3>1. IsFiniteSet(DOMAIN point) /\ DOMAIN point \subseteq Nat
      BY DEF BoundOK, PointsOK
    <3>2. DOMAIN point' \in SUBSET DOMAIN point
      BY <1>4
    <3>3. IsFiniteSet(DOMAIN point')
      BY <3>1, <3>2, FS_Subset
    <3> QED
      BY <3>1, <3>2, <3>3
  <2>2. \A k \in DOMAIN point' : point'[k].b \in pomdp.reachable /\ point'[k].v \in Int
    BY <1>4 DEF BoundOK, PointsOK
  <2> QED
    BY <1>1, <2>1, <2>2 DEF PointsOK
<1>6. pts' \in Seq(Nat) /\ IsInjective(pts') /\ ToSet(pts') = DOMAIN point'
  <2>1. PICK k \in 1 .. Len(pts) : k = candidate
    OBVIOUS
  <2>2. /\ RemoveAt(pts, k) \in Seq(Nat) /\ IsInjective(RemoveAt(pts, k))
        /\ ToSet(RemoveAt(pts, k)) = ToSet(pts) \ {pts[k]}
    BY <1>2, RemoveAtProperties
  <2> QED
    BY <1>2, <1>4, <2>1, <2>2
<1>7. ASSUME NEW i \in State
      PROVE  /\ support'[i] \in Seq(Nat) /\ IsInjective(support'[i])
             /\ ToSet(support'[i]) =
                  {k \in DOMAIN point' : useSawtoothSupportList /\ point'[k].b[i] > 0}
  <2>1. PICK s \in Seq(Nat) : s = support[i]
    BY DEF BoundOK, ListsOK
  <2>2. /\ IsInjective(s)
        /\ ToSet(s) = {k \in DOMAIN point : useSawtoothSupportList /\ point[k].b[i] > 0}
    BY <2>1 DEF BoundOK, ListsOK
  <2>3. /\ RemoveFirst(s, y) \in Seq(Nat) /\ IsInjective(RemoveFirst(s, y))
        /\ ToSet(RemoveFirst(s, y)) = ToSet(s) \ {y}
    BY <2>2, RemoveFirstProperties
  <2>4. support'[i] = RemoveFirst(s, y)
    BY <2>1
  <2>5. {k \in DOMAIN point' : useSawtoothSupportList /\ point'[k].b[i] > 0} =
          {k \in DOMAIN point : useSawtoothSupportList /\ point[k].b[i] > 0} \ {y}
    BY <1>4
  <2> QED
    BY <2>2, <2>3, <2>4, <2>5
<1>8. support' \in [State -> Seq(Nat)]
  <2>1. support' = [i \in State |-> support'[i]]
    OBVIOUS
  <2> QED
    BY <1>7, <2>1
<1>9. ListsOK'
  BY <1>1, <1>6, <1>7, <1>8 DEF ListsOK
<1>10. BoundOK'
  BY <1>5, <1>9 DEF BoundOK
<1> QED
  BY <1>3, <1>4, <1>10

-----------------------------------------------------------------------------
\* The inductive invariant: types, and all that the bound is computed from or
\* reports is above the plans.
NodesOK ==
  /\ DOMAIN ubVal \subseteq pomdp.reachable /\ \A b \in DOMAIN ubVal : ubVal[b] \in Int
  /\ DOMAIN q \subseteq pomdp.reachable /\ \A b \in DOMAIN q : q[b] \in [Action -> Int]
  /\ node # NoBelief => node \in DOMAIN ubVal /\ node \in DOMAIN q
  /\ fresh \subseteq pomdp.reachable

ControlOK ==
  /\ al \in [Action -> Vector]
  /\ pc = "update" => node # NoBelief
  /\ candidate \in Nat /\ (Pruning => candidate # 0)

VectorsAreAbove ==
  pc = "fib" => \A plan \in Plans, i \in State : plan.value[i] <= al[plan.action][i]

CornersAreAbove ==
  pc # "fib" => \A plan \in Plans, i \in State : plan.value[i] <= cornerPts[i]

PointsAreAbove ==
  \A k \in DOMAIN point, plan \in Plans : Inner(plan.value, point[k].b) <= point[k].v

NodesAreAbove ==
  \A b \in DOMAIN ubVal, plan \in Plans : Inner(plan.value, b) <= ubVal[b]

\* The entries of a node are above the plans once it was updated.
EntriesAreAbove ==
  \A b \in DOMAIN q, plan \in Plans :
    q[b][0] # Undefined => Inner(plan.value, b) <= q[b][plan.action]

Above == VectorsAreAbove /\ CornersAreAbove /\ PointsAreAbove /\ NodesAreAbove /\ EntriesAreAbove

IInv == Settings /\ BoundOK /\ NodesOK /\ ControlOK /\ Above

LEMMA PlanType ==
  ASSUME Settings
  PROVE  \A plan \in Plans : plan.value \in Vector /\ plan.action \in Action
BY PlanFields DEF Settings, Plans

LEMMA ValuesAbove ==
  ASSUME IInv
  PROVE  /\ \A b \in pomdp.reachable : Value(b) \in Int
         /\ pc # "fib" =>
              \A b \in pomdp.reachable, plan \in Plans : Inner(plan.value, b) <= Value(b)
<1>1. Settings /\ BoundOK /\ cornerPts \in Vector
  BY DEF IInv, BoundOK
<1>2. ASSUME NEW b \in pomdp.reachable
      PROVE  /\ Value(b) \in Int
             /\ pc # "fib" => \A plan \in Plans : Inner(plan.value, b) <= Value(b)
  <2>1. PICK check : check = Check(point, useSawtoothSupportList, b)
    OBVIOUS
  <2>2. /\ b \in Belief /\ PointsIn(point, check)
        /\ Value(b) = ValueAt(cornerPts, point, check, b)
    BY <1>1, <2>1, ValueNow
  <2>3. Value(b) \in Int
    BY <1>1, <2>2, ValueProperties
  <2>4. ASSUME pc # "fib", NEW plan \in Plans PROVE Inner(plan.value, b) <= Value(b)
    <3>1. PICK w \in Vector : w = plan.value
      BY <1>1, PlanType
    <3>2. \A i \in State : w[i] <= cornerPts[i]
      BY <2>4, <3>1 DEF IInv, Above, CornersAreAbove
    <3>3. \A k \in check : Inner(w, point[k].b) <= point[k].v
      BY <2>1, <3>1 DEF IInv, Above, PointsAreAbove, Check
    <3>4. Inner(w, b) <= ValueAt(cornerPts, point, check, b)
      BY <1>1, <2>2, <3>2, <3>3, ValueAbove
    <3> QED
      BY <2>2, <3>1, <3>4
  <2> QED
    BY <2>3, <2>4
<1> QED
  BY <1>2

LEMMA InitInv == Init => IInv
<1> SUFFICES ASSUME Init PROVE IInv
  OBVIOUS
<1>1. Settings
  BY DEF Init, Settings
<1>2. PICK p : p = pomdp /\ p = Pomdps[problem]
  BY DEF pomdp
<1>3. problem \in Problems
  BY <1>1 DEF Settings
<1>4. cornerPts \in Vector
  BY DEF Init, Vector
<1>5. DOMAIN point = {} /\ DOMAIN ubVal = {} /\ DOMAIN q = {}
  BY DEF Init
<1>6. PointsOK
  BY <1>5, FS_EmptySet DEF PointsOK
<1>7. ListsOK
  <2>1. <<>> \in Seq(Nat) /\ ToSet(<<>>) = {} /\ IsInjective(<<>>)
    BY DEF ToSet, IsInjective
  <2> QED
    BY <1>5, <2>1 DEF Init, ListsOK
<1>8. NodesOK
  <2>1. fresh \subseteq pomdp.reachable
    BY <1>3, ReachableAssumption DEF Init, pomdp
  <2>2. node = NoBelief
    BY DEF Init
  <2> QED
    BY <1>5, <2>1, <2>2 DEF NodesOK
<1>9. al = [a \in Action |-> NextAlphaAction(p, a, FullObsValue[problem])]
  BY <1>2, TableIs DEF Init
<1>10. ControlOK
  <2>1. al \in [Action -> Vector]
    BY <1>2, <1>3, <1>9, FullObsType, NextAlphaType
  <2>2. pc = "fib" /\ candidate = 0
    BY DEF Init
  <2> QED
    BY <2>1, <2>2 DEF ControlOK, Pruning
<1>11. VectorsAreAbove
  <2>1. ASSUME NEW plan \in Plans, NEW i \in State PROVE plan.value[i] <= al[plan.action][i]
    <3>1. plan.value[i] <= NextAlphaAction(p, plan.action, FullObsValue[problem])[i]
      BY <1>2, <1>3, InitialAbove DEF Plans
    <3>2. plan.action \in Action
      BY <1>1, PlanType
    <3> QED
      BY <1>9, <3>1, <3>2
  <2> QED
    BY <2>1 DEF VectorsAreAbove
<1>12. CornersAreAbove /\ PointsAreAbove /\ NodesAreAbove /\ EntriesAreAbove
  BY <1>5 DEF Init, CornersAreAbove, PointsAreAbove, NodesAreAbove, EntriesAreAbove
<1> QED
  BY <1>1, <1>4, <1>6, <1>7, <1>8, <1>10, <1>11, <1>12 DEF IInv, BoundOK, Above

\* The parts that depend on the settings and on one other variable.
LEMMA SameSettings ==
  ASSUME UNCHANGED settings
  PROVE  /\ problem' = problem /\ useSawtoothSupportList' = useSawtoothSupportList
         /\ pomdp' = pomdp /\ Plans' = Plans /\ (Settings => Settings')
         /\ (UNCHANGED <<cornerPts, point, pts, support>> /\ BoundOK => BoundOK')
         /\ (UNCHANGED point /\ PointsAreAbove => PointsAreAbove')
         /\ (UNCHANGED ubVal /\ NodesAreAbove => NodesAreAbove')
         /\ (UNCHANGED q /\ EntriesAreAbove => EntriesAreAbove')
         /\ (UNCHANGED <<ubVal, q, node, fresh>> /\ NodesOK => NodesOK')
<1>1. /\ problem' = problem /\ useSawtoothSupportList' = useSawtoothSupportList
      /\ pomdp' = pomdp /\ Plans' = Plans /\ (Settings => Settings')
  BY DEF settings, pomdp, Plans, Settings
<1>2. ASSUME UNCHANGED <<cornerPts, point, pts, support>>, BoundOK PROVE BoundOK'
  BY <1>1, <1>2 DEF BoundOK, PointsOK, ListsOK
<1>3. ASSUME UNCHANGED point, PointsAreAbove PROVE PointsAreAbove'
  BY <1>1, <1>3 DEF PointsAreAbove
<1>4. ASSUME UNCHANGED ubVal, NodesAreAbove PROVE NodesAreAbove'
  BY <1>1, <1>4 DEF NodesAreAbove
<1>5. ASSUME UNCHANGED q, EntriesAreAbove PROVE EntriesAreAbove'
  BY <1>1, <1>5 DEF EntriesAreAbove
<1>6. ASSUME UNCHANGED <<ubVal, q, node, fresh>>, NodesOK PROVE NodesOK'
  BY <1>1, <1>6 DEF NodesOK
<1> QED
  BY <1>1, <1>2, <1>3, <1>4, <1>5, <1>6

\* What adds nothing to the bound and only moves it on.
LEMMA MovedOn ==
  ASSUME IInv, UNCHANGED <<settings, al, cornerPts, point, pts, support, ubVal>>,
         pc # "fib", pc' # "fib", NodesOK', EntriesAreAbove',
         candidate' \in Nat, Pruning' => candidate' # 0, pc' = "update" => node' # NoBelief
  PROVE  IInv'
<1>1. Settings' /\ BoundOK' /\ PointsAreAbove' /\ NodesAreAbove' /\ Plans' = Plans
  BY SameSettings DEF IInv, Above
<1>2. ControlOK'
  BY DEF IInv, ControlOK
<1>3. VectorsAreAbove' /\ CornersAreAbove'
  BY <1>1 DEF IInv, Above, VectorsAreAbove, CornersAreAbove
<1> QED
  BY <1>1, <1>2, <1>3 DEF IInv, Above

LEMMA InitFIBInv == IInv /\ InitFIB => IInv'
<1> SUFFICES ASSUME IInv, InitFIB PROVE IInv'
  OBVIOUS
<1>1. PICK p : p = pomdp /\ p = Pomdps[problem]
  BY DEF pomdp
<1>2. /\ problem \in Problems /\ al \in [Action -> Vector]
      /\ \A plan \in Policies[problem], i \in State : plan.value[i] <= al[plan.action][i]
  BY DEF IInv, Settings, ControlOK, Above, VectorsAreAbove, InitFIB, Plans
<1>3. al' = [a \in Action |-> FIBAction(p, a, al)]
  BY <1>1, TableIs DEF InitFIB
<1>4. UNCHANGED <<settings, point, pts, support, ubVal, q, node, fresh, candidate>>
  BY DEF InitFIB
<1>5. /\ Settings' /\ Plans' = Plans /\ PointsAreAbove' /\ NodesAreAbove' /\ EntriesAreAbove'
      /\ NodesOK'
  BY <1>4, SameSettings DEF IInv, Above
<1>6. al' \in [Action -> Vector]
  BY <1>1, <1>2, <1>3, FIBAbove
<1>7. VectorsAreAbove'
  <2>1. ASSUME NEW plan \in Plans, NEW i \in State PROVE plan.value[i] <= al'[plan.action][i]
    <3>1. plan.value[i] <= FIBAction(p, plan.action, al)[i]
      BY <1>1, <1>2, FIBAbove DEF Plans
    <3>2. plan.action \in Action
      BY PlanType DEF IInv
    <3> QED
      BY <1>3, <3>1, <3>2
  <2> QED
    BY <1>5, <2>1 DEF VectorsAreAbove
<1>8. pc' \in {"fib", "expand"} /\ (pc' = "fib" \/ cornerPts' = Corners(p, al))
  BY <1>1 DEF InitFIB
<1>9. cornerPts' \in Vector /\ CornersAreAbove'
  <2>1. /\ Corners(p, al) \in Vector
        /\ \A plan \in Policies[problem], i \in State : plan.value[i] <= Corners(p, al)[i]
    BY <1>1, <1>2, CornersAbove
  <2>2. CASE al' = al
    BY <1>1, <1>5, <2>1, <2>2 DEF InitFIB, CornersAreAbove, Plans
  <2>3. CASE al' # al
    <3>1. cornerPts' = cornerPts /\ pc' = "fib"
      BY <2>3 DEF InitFIB
    <3> QED
      BY <3>1 DEF IInv, BoundOK, CornersAreAbove
  <2> QED
    BY <2>2, <2>3
<1>10. BoundOK'
  <2>1. PointsOK' /\ ListsOK'
    BY <1>4 DEF IInv, BoundOK, PointsOK, ListsOK, settings, pomdp
  <2> QED
    BY <1>9, <2>1 DEF BoundOK
<1>11. ControlOK'
  <2>1. candidate' \in Nat
    BY <1>4 DEF IInv, ControlOK
  <2> QED
    BY <1>6, <1>8, <2>1 DEF ControlOK, Pruning
<1> QED
  BY <1>5, <1>7, <1>9, <1>10, <1>11 DEF IInv, Above

\* A point above the plans leaves corners and points above them.
LEMMA AddPointAbove ==
  ASSUME Settings, UNCHANGED settings, BoundOK, NEW b \in pomdp.reachable, NEW v \in Int,
         NEW next, NEW prune, AddPoint(b, v, next, prune),
         \A plan \in Plans : Inner(plan.value, b) <= v,
         \A plan \in Plans, i \in State : plan.value[i] <= cornerPts[i],
         PointsAreAbove
  PROVE  /\ \A plan \in Plans, i \in State : plan.value[i] <= cornerPts'[i]
         /\ PointsAreAbove'
<1>1. /\ \A k \in DOMAIN point : k \in DOMAIN point' /\ point'[k] = point[k]
      /\ \A k \in DOMAIN point' : k \in DOMAIN point \/ (point'[k].b = b /\ point'[k].v = v)
      /\ IsCorner(b) => cornerPts' = [cornerPts EXCEPT ![First(b)] = v]
      /\ ~IsCorner(b) => cornerPts' = cornerPts
  BY AddPointBound
<1>2. PointsAreAbove'
  <2>1. Plans' = Plans
    BY SameSettings
  <2>2. ASSUME NEW k \in DOMAIN point', NEW plan \in Plans
        PROVE  Inner(plan.value, point'[k].b) <= point'[k].v
    BY <1>1 DEF PointsAreAbove
  <2> QED
    BY <2>1, <2>2 DEF PointsAreAbove
<1>3. ASSUME NEW plan \in Plans, NEW i \in State PROVE plan.value[i] <= cornerPts'[i]
  <2>1. CASE IsCorner(b) /\ i = First(b)
    <3>1. Inner(plan.value, b) = plan.value[First(b)]
      BY <2>1, InnerCorner, PlanType, ReachableBelief
    <3>2. cornerPts'[i] = v
      BY <1>1, <2>1 DEF BoundOK, Vector
    <3> QED
      BY <2>1, <3>1, <3>2
  <2>2. CASE ~(IsCorner(b) /\ i = First(b))
    <3>1. cornerPts'[i] = cornerPts[i]
      BY <1>1, <2>2 DEF BoundOK, Vector
    <3> QED
      BY <3>1
  <2> QED
    BY <2>1, <2>2
<1> QED
  BY <1>2, <1>3

\* A terminal belief earns nothing, whatever the plan.
LEMMA TerminalEarnsNothing ==
  ASSUME Settings, NEW b \in pomdp.reachable, Terminal(b), NEW plan \in Plans
  PROVE  Inner(plan.value, b) <= 0
<1>1. PICK w \in Vector : w = plan.value
  BY PlanType
<1>2. \A i \in State : b[i] \in Nat /\ b[i] \in Int /\ w[i] \in Int
  BY ReachableBelief DEF Vector
<1>3. PICK f \in [State -> Int] : f = [i \in State |-> b[i] * w[i]]
  BY <1>2, TimesInt
<1>4. PICK z : z = [i \in State |-> 0]
  OBVIOUS
<1>5. z \in [State -> Int] /\ \A i \in State : z[i] = 0
  BY <1>4
<1>6. ASSUME NEW i \in State PROVE f[i] <= z[i]
  <2>1. PICK bi \in Nat, wi \in Int : bi = b[i] /\ wi = w[i]
    BY <1>2
  <2>2. CASE bi = 0
    <3>1. f[i] = 0 * wi
      BY <1>3, <2>1, <2>2
    <3>2. 0 * wi = 0
      OBVIOUS
    <3> QED
      BY <1>5, <3>1, <3>2
  <2>3. CASE bi # 0
    <3>1. i \in pomdp.terminal
      BY <2>1, <2>3 DEF Terminal, TerminalIn, Support
    <3>2. wi <= 0
      BY <1>1, <2>1, <3>1, PlanFields DEF Settings, Plans, pomdp
    <3>3. bi * wi <= bi * 0
      BY <3>2, TimesMonotone
    <3>4. bi * wi <= 0
      BY <3>3
    <3> QED
      BY <1>3, <1>5, <2>1, <3>4
  <2> QED
    BY <2>2, <2>3
<1>7. Total(f) <= Total(z)
  BY <1>5, <1>6, Finite, TotalMonotone
<1>8. Total(z) = 0
  <2>1. \A i \in State : z[i] = 0
    BY <1>5
  <2> QED
    BY <1>5, <2>1, Finite, TotalZero
<1>9. Inner(plan.value, b) = Total(f)
  BY <1>1, <1>3 DEF Inner
<1> QED
  BY <1>7, <1>8, <1>9

LEMMA InitNodeInv ==
  ASSUME IInv, NEW b \in Belief, InitNode(b)
  PROVE  IInv'
<1>1. UNCHANGED <<settings, al, q, node>> /\ pc = "expand" /\ fresh' = fresh \ {b}
  BY DEF InitNode
<1>2. b \in pomdp.reachable /\ Settings /\ BoundOK
  BY DEF InitNode, IInv, NodesOK
<1>3. PICK v \in Int : /\ ubVal' = Extended(ubVal, b, v)
                       /\ \A plan \in Plans : Inner(plan.value, b) <= v
                       /\ Terminal(b) => v = 0
  <2>1. CASE Terminal(b)
    BY <1>2, <2>1, TerminalEarnsNothing DEF InitNode
  <2>2. CASE ~Terminal(b)
    <3>1. ubVal' = Extended(ubVal, b, Value(b))
      BY <2>2 DEF InitNode
    <3>2. Value(b) \in Int /\ \A plan \in Plans : Inner(plan.value, b) <= Value(b)
      BY <1>1, <1>2, ValuesAbove
    <3> QED
      BY <2>2, <3>1, <3>2
  <2> QED
    BY <2>1, <2>2
<1>4. /\ \A plan \in Plans, i \in State : plan.value[i] <= cornerPts[i]
      /\ PointsAreAbove
  BY <1>1 DEF IInv, Above, CornersAreAbove
<1>5. /\ BoundOK' /\ PointsAreAbove'
      /\ \A plan \in Plans, i \in State : plan.value[i] <= cornerPts'[i]
      /\ pc' \in {"expand", "pruneInExpand"}
      /\ candidate' \in Nat /\ (Pruning' => candidate' # 0)
  <2>1. candidate \in Nat
    BY DEF IInv, ControlOK
  <2>2. CASE Terminal(b)
    <3>1. AddPoint(b, v, "expand", "pruneInExpand")
      BY <1>3, <2>2 DEF InitNode
    <3>2. /\ BoundOK'
          /\ \/ candidate' = 1 /\ pc' = "pruneInExpand"
             \/ candidate' = candidate /\ pc' = "expand"
      BY <1>1, <1>2, <3>1, AddPointBound
    <3>3. /\ PointsAreAbove'
          /\ \A plan \in Plans, i \in State : plan.value[i] <= cornerPts'[i]
      BY <1>1, <1>2, <1>3, <1>4, <3>1, AddPointAbove
    <3> QED
      BY <2>1, <3>2, <3>3 DEF Pruning
  <2>3. CASE ~Terminal(b)
    <3>1. UNCHANGED <<cornerPts, point, pts, support, pc, candidate>>
      BY <2>3 DEF InitNode
    <3> QED
      BY <1>1, <1>2, <1>4, <2>1, <3>1, SameSettings DEF Pruning
  <2> QED
    BY <2>2, <2>3
<1>6. /\ DOMAIN ubVal' = DOMAIN ubVal \cup {b} /\ ubVal'[b] = v
      /\ \A c \in DOMAIN ubVal : c # b => ubVal'[c] = ubVal[c]
  BY <1>3 DEF Extended
<1>7. /\ Settings' /\ pomdp' = pomdp /\ Plans' = Plans /\ EntriesAreAbove'
  BY <1>1, SameSettings DEF IInv, Above
<1>8. NodesOK'
  <2>1. DOMAIN ubVal' \subseteq pomdp.reachable /\ \A c \in DOMAIN ubVal' : ubVal'[c] \in Int
    BY <1>2, <1>6 DEF IInv, NodesOK
  <2> QED
    BY <1>1, <1>6, <1>7, <2>1 DEF IInv, NodesOK
<1>9. NodesAreAbove'
  BY <1>3, <1>6, <1>7 DEF IInv, Above, NodesAreAbove
<1>10. ControlOK'
  BY <1>1, <1>5 DEF IInv, ControlOK
<1>11. VectorsAreAbove' /\ CornersAreAbove'
  BY <1>5, <1>7 DEF VectorsAreAbove, CornersAreAbove
<1> QED
  BY <1>5, <1>7, <1>8, <1>9, <1>10, <1>11 DEF IInv, Above

LEMMA UpdateInv ==
  ASSUME IInv, NEW b \in Belief, Update(b)
  PROVE  IInv'
<1>1. /\ UNCHANGED <<settings, al, cornerPts, point, pts, support, ubVal, candidate>>
      /\ node' = b /\ b \in DOMAIN ubVal /\ pc = "idle" /\ pc' \in {"update", "expand"}
  BY DEF Update
<1>2. /\ problem \in Problems /\ pomdp' = pomdp /\ Plans' = Plans /\ b \in pomdp.reachable
      /\ pomdp = Pomdps[problem]
  BY <1>1, SameSettings DEF IInv, Settings, NodesOK, pomdp
<1>3. /\ b \in DOMAIN q' /\ DOMAIN q' = DOMAIN q \cup {b}
      /\ \A c \in DOMAIN q' : \/ c \in DOMAIN q /\ q'[c] = q[c]
                              \/ q'[c] = [a \in Action |-> Undefined]
      /\ fresh' = fresh \/ fresh' \subseteq SuccessorsIn(pomdp, b)
  <2>1. CASE b \in DOMAIN q
    BY <2>1 DEF Update
  <2>2. CASE b \notin DOMAIN q
    BY <2>2 DEF Update, Extended
  <2> QED
    BY <2>1, <2>2
<1>4. SuccessorsIn(pomdp, b) \subseteq pomdp.reachable
  BY <1>2, ReachableAssumption DEF SuccessorsIn, Closed
<1>5. [a \in Action |-> Undefined] \in [Action -> Int]
  BY DEF Undefined
<1>6. NodesOK'
  <2>1. /\ DOMAIN q' \subseteq pomdp.reachable
        /\ \A c \in DOMAIN q' : q'[c] \in [Action -> Int]
    BY <1>2, <1>3, <1>5 DEF IInv, NodesOK
  <2>2. fresh' \subseteq pomdp.reachable
    BY <1>3, <1>4 DEF IInv, NodesOK
  <2> QED
    BY <1>1, <1>2, <1>3, <2>1, <2>2 DEF IInv, NodesOK
<1>7. EntriesAreAbove'
  <2> SUFFICES ASSUME NEW c \in DOMAIN q', NEW plan \in Plans, q'[c][0] # Undefined
               PROVE  Inner(plan.value, c) <= q'[c][plan.action]
    BY <1>2 DEF EntriesAreAbove
  <2>1. c \in DOMAIN q /\ q'[c] = q[c]
    BY <1>3, ActionFinite
  <2> QED
    BY <2>1 DEF IInv, Above, EntriesAreAbove
<1>8. candidate' \in Nat /\ ~Pruning' /\ node' # NoBelief
  BY <1>1, PomdpAssumption DEF IInv, ControlOK, Pruning
<1> QED
  BY <1>1, <1>6, <1>7, <1>8, MovedOn

LEMMA UpdateValueInv == IInv /\ UpdateValue => IInv'
<1> SUFFICES ASSUME IInv, UpdateValue PROVE IInv'
  OBVIOUS
<1>1. UNCHANGED <<settings, al, node, fresh>> /\ pc = "update"
  BY DEF UpdateValue
<1>2. Settings /\ BoundOK /\ problem \in Problems
  BY DEF IInv, Settings
<1>3. PICK b \in pomdp.reachable : b = node /\ b \in DOMAIN ubVal /\ b \in DOMAIN q
  BY <1>1 DEF IInv, ControlOK, NodesOK
<1>4. PICK new, v : new = NewQs(b) /\ v = Max(Range(NewQs(b)))
  OBVIOUS
<1>5. /\ q' = [q EXCEPT ![b] = new] /\ ubVal' = [ubVal EXCEPT ![b] = v]
      /\ AddPoint(b, v, "updated", "pruneInUpdate")
  BY <1>3, <1>4 DEF UpdateValue, AddPoint
<1>6. /\ new \in [Action -> Int] /\ v \in Int
      /\ \A plan \in Plans : Inner(plan.value, b) <= new[plan.action] /\ Inner(plan.value, b) <= v
  <2>1. /\ \A c \in pomdp.reachable : Value(c) \in Int
        /\ \A c \in pomdp.reachable, plan \in Plans : Inner(plan.value, c) <= Value(c)
    BY <1>1, ValuesAbove
  <2>2. /\ q[b] \in [Action -> Int]
        /\ q[b][0] # Undefined => \A plan \in Plans : Inner(plan.value, b) <= q[b][plan.action]
    BY <1>3 DEF IInv, NodesOK, Above, EntriesAreAbove
  <2> QED
    BY <1>2, <1>4, <2>1, <2>2, NewQsAbove
<1>7. /\ \A plan \in Plans, i \in State : plan.value[i] <= cornerPts[i]
      /\ PointsAreAbove
  BY <1>1 DEF IInv, Above, CornersAreAbove
<1>8. /\ BoundOK'
      /\ \/ candidate' = 1 /\ pc' = "pruneInUpdate"
         \/ candidate' = candidate /\ pc' = "updated"
  BY <1>1, <1>2, <1>5, <1>6, AddPointBound
<1>9. /\ PointsAreAbove'
      /\ \A plan \in Plans, i \in State : plan.value[i] <= cornerPts'[i]
  BY <1>1, <1>2, <1>5, <1>6, <1>7, AddPointAbove
<1>10. /\ Settings' /\ pomdp' = pomdp /\ Plans' = Plans
  BY <1>1, SameSettings DEF IInv
<1>11. /\ DOMAIN ubVal' = DOMAIN ubVal /\ ubVal'[b] = v
       /\ \A c \in DOMAIN ubVal : c # b => ubVal'[c] = ubVal[c]
       /\ DOMAIN q' = DOMAIN q /\ q'[b] = new
       /\ \A c \in DOMAIN q : c # b => q'[c] = q[c]
  BY <1>3, <1>5
<1>12. NodesOK'
  <2>1. DOMAIN ubVal' \subseteq pomdp.reachable /\ \A c \in DOMAIN ubVal' : ubVal'[c] \in Int
    BY <1>6, <1>11 DEF IInv, NodesOK
  <2>2. /\ DOMAIN q' \subseteq pomdp.reachable
        /\ \A c \in DOMAIN q' : q'[c] \in [Action -> Int]
    BY <1>6, <1>11 DEF IInv, NodesOK
  <2> QED
    BY <1>1, <1>10, <1>11, <2>1, <2>2 DEF IInv, NodesOK
<1>13. NodesAreAbove'
  BY <1>6, <1>10, <1>11 DEF IInv, Above, NodesAreAbove
<1>14. EntriesAreAbove'
  BY <1>6, <1>10, <1>11 DEF IInv, Above, EntriesAreAbove
<1>15. ControlOK'
  BY <1>1, <1>8 DEF IInv, ControlOK, Pruning
<1>16. VectorsAreAbove' /\ CornersAreAbove'
  BY <1>8, <1>9, <1>10 DEF VectorsAreAbove, CornersAreAbove
<1> QED
  BY <1>8, <1>9, <1>10, <1>12, <1>13, <1>14, <1>15, <1>16 DEF IInv, Above

\* What an update of a node does to it and to the bound.
LEMMA UpdatedNode ==
  ASSUME IInv, UpdateValue
  PROVE  \E b \in pomdp.reachable, v \in Int :
           /\ AddPoint(b, v, "updated", "pruneInUpdate") /\ UNCHANGED settings
           /\ DOMAIN ubVal' = DOMAIN ubVal /\ ubVal'[b] = v
           /\ \A c \in DOMAIN ubVal : c # b => ubVal'[c] = ubVal[c]
<1>1. UNCHANGED settings /\ pc = "update"
  BY DEF UpdateValue
<1>2. PICK b \in pomdp.reachable : b = node /\ b \in DOMAIN ubVal /\ b \in DOMAIN q
  BY <1>1 DEF IInv, ControlOK, NodesOK
<1>3. PICK v : v = Max(Range(NewQs(b)))
  OBVIOUS
<1>4. /\ ubVal' = [ubVal EXCEPT ![b] = v]
      /\ AddPoint(b, v, "updated", "pruneInUpdate")
  BY <1>2, <1>3 DEF UpdateValue, AddPoint
<1>5. v \in Int
  <2>1. /\ \A c \in pomdp.reachable : Value(c) \in Int
        /\ \A c \in pomdp.reachable, plan \in Plans : Inner(plan.value, c) <= Value(c)
    BY <1>1, ValuesAbove
  <2>2. /\ q[b] \in [Action -> Int]
        /\ q[b][0] # Undefined => \A plan \in Plans : Inner(plan.value, b) <= q[b][plan.action]
    BY <1>2 DEF IInv, NodesOK, Above, EntriesAreAbove
  <2> QED
    BY <1>3, <2>1, <2>2, NewQsAbove DEF IInv, Settings
<1> QED
  BY <1>1, <1>2, <1>4, <1>5

\* A candidate that goes was dominated by an opponent.
LEMMA Pruned ==
  ASSUME IInv, PruneCandidate
  PROVE  /\ UNCHANGED <<settings, al, cornerPts, ubVal, q, node, fresh, pc>> /\ Pruning
         /\ \/ UNCHANGED <<point, pts, support>> /\ candidate' = candidate + 1
            \/ /\ candidate' = candidate /\ BoundOK'
               /\ \E y \in DOMAIN point :
                    /\ DOMAIN point' = DOMAIN point \ {y}
                    /\ \A k \in DOMAIN point' : point'[k] = point[k]
                    /\ \E x \in Opponents(y) : Dominates(x, y)
<1>1. UNCHANGED <<settings, al, cornerPts, ubVal, q, node, fresh, pc>> /\ Pruning
  BY DEF PruneCandidate
<1>2. PICK y : y = pts[candidate]
  OBVIOUS
<1>3. CASE \E x \in Opponents(y) : Dominates(x, y)
  <2>1. /\ support' = [i \in State |-> RemoveFirst(support[i], y)]
        /\ point' = Restrict(point, DOMAIN point \ {y})
        /\ pts' = RemoveAt(pts, candidate) /\ candidate' = candidate
    BY <1>2, <1>3 DEF PruneCandidate
  <2>2. candidate \in 1 .. Len(pts)
    <3>1. Len(pts) \in Nat
      BY ListHas DEF IInv, BoundOK, ListsOK
    <3> QED
      BY <1>1, <3>1 DEF IInv, ControlOK, PruneCandidate
  <2>3. /\ BoundOK' /\ y \in DOMAIN point
        /\ DOMAIN point' = DOMAIN point \ {y}
        /\ \A k \in DOMAIN point' : point'[k] = point[k]
    BY <1>1, <1>2, <2>1, <2>2, PruneBound DEF IInv
  <2> QED
    BY <1>1, <1>3, <2>1, <2>3
<1>4. CASE ~ \E x \in Opponents(y) : Dominates(x, y)
  BY <1>1, <1>2, <1>4 DEF PruneCandidate
<1> QED
  BY <1>3, <1>4

LEMMA PruneCandidateInv == IInv /\ PruneCandidate => IInv'
<1> SUFFICES ASSUME IInv, PruneCandidate PROVE IInv'
  OBVIOUS
<1>1. UNCHANGED <<settings, al, cornerPts, ubVal, q, node, fresh, pc>> /\ Pruning
  BY Pruned
<1>2. /\ Settings' /\ Plans' = Plans /\ NodesOK' /\ NodesAreAbove' /\ EntriesAreAbove'
  BY <1>1, SameSettings DEF IInv, Above
<1>3. BoundOK' /\ PointsAreAbove'
  <2>1. CASE UNCHANGED <<point, pts, support>>
    BY <1>1, <2>1, SameSettings DEF IInv, Above
  <2>2. CASE /\ BoundOK'
             /\ \E y \in DOMAIN point :
                  /\ DOMAIN point' = DOMAIN point \ {y}
                  /\ \A k \in DOMAIN point' : point'[k] = point[k]
    BY <1>2, <2>2 DEF IInv, Above, PointsAreAbove
  <2> QED
    BY <2>1, <2>2, Pruned
<1>4. candidate' \in Nat \ {0}
  <2>1. candidate \in Nat \ {0}
    BY <1>1 DEF IInv, ControlOK
  <2>2. candidate' = candidate \/ candidate' = candidate + 1
    BY Pruned
  <2> QED
    BY <2>1, <2>2
<1>5. ControlOK' /\ VectorsAreAbove' /\ CornersAreAbove'
  BY <1>1, <1>2, <1>4 DEF IInv, ControlOK, Above, VectorsAreAbove, CornersAreAbove
<1> QED
  BY <1>2, <1>3, <1>5 DEF IInv, Above

LEMMA NextInv == IInv /\ [Next]_vars => IInv'
<1> SUFFICES ASSUME IInv, [Next]_vars PROVE IInv'
  OBVIOUS
<1> USE SameSettings DEF IInv
<1>1. CASE InitFIB
  BY <1>1, InitFIBInv
<1>2. ASSUME NEW b \in Belief, InitNode(b) PROVE IInv'
  BY <1>2, InitNodeInv
<1>3. ASSUME NEW b \in Belief, Update(b) PROVE IInv'
  BY <1>3, UpdateInv
<1>4. CASE Expanded
  <2>1. /\ UNCHANGED <<settings, al, cornerPts, point, pts, support, ubVal, q, node, fresh, candidate>>
        /\ pc = "expand" /\ pc' = IF node = NoBelief THEN "idle" ELSE "update"
    BY <1>4 DEF Expanded
  <2>2. NodesOK' /\ EntriesAreAbove'
    BY <2>1 DEF Above
  <2> QED
    BY <2>1, <2>2, MovedOn DEF ControlOK, Pruning
<1>5. CASE UpdateValue
  BY <1>5, UpdateValueInv
<1>6. CASE EndUpdate
  <2>1. /\ UNCHANGED <<settings, al, cornerPts, point, pts, support, ubVal, q, node, fresh, candidate>>
        /\ pc = "updated" /\ pc' = "idle"
    BY <1>6 DEF EndUpdate
  <2>2. NodesOK' /\ EntriesAreAbove'
    BY <2>1 DEF Above
  <2> QED
    BY <2>1, <2>2, MovedOn DEF ControlOK, Pruning
<1>7. CASE PruneCandidate
  BY <1>7, PruneCandidateInv
<1>8. CASE EndPrune
  <2>1. /\ UNCHANGED <<settings, al, cornerPts, point, pts, support, ubVal, q, node, fresh, candidate>>
        /\ pc # "fib" /\ pc' \in {"expand", "updated"}
    BY <1>8 DEF EndPrune, Pruning
  <2>2. NodesOK' /\ EntriesAreAbove'
    BY <2>1 DEF Above
  <2> QED
    BY <2>1, <2>2, MovedOn DEF ControlOK, Pruning
<1>9. CASE UNCHANGED vars
  <2>1. UNCHANGED <<settings, al, cornerPts, point, pts, support, ubVal, q, node, fresh, candidate, pc>>
    BY <1>9 DEF vars
  <2>2. NodesOK' /\ EntriesAreAbove' /\ Settings' /\ BoundOK' /\ PointsAreAbove' /\ NodesAreAbove'
    BY <2>1 DEF Above
  <2>3. ControlOK' /\ VectorsAreAbove' /\ CornersAreAbove'
    BY <2>1 DEF ControlOK, Pruning, Above, VectorsAreAbove, CornersAreAbove
  <2> QED
    BY <2>2, <2>3 DEF Above
<1> QED
  BY <1>1, <1>2, <1>3, <1>4, <1>5, <1>6, <1>7, <1>8, <1>9 DEF Next

LEMMA Invariant == Spec => []IInv
BY InitInv, NextInv, PTL DEF Spec

\* The bound is above what any policy earns, at every belief that the search or
\* the execution may come to, and so is what each node reports.
THEOREM UpperBoundStaysSound == Spec => []UpperBoundSound
<1>1. IInv => UpperBoundSound
  <2> SUFFICES ASSUME IInv PROVE UpperBoundSound
    OBVIOUS
  <2>1. pc # "fib" => \A b \in pomdp.reachable : AbovePolicies(Value(b), b)
    BY ValuesAbove DEF AbovePolicies, Plans
  <2>2. \A b \in DOMAIN ubVal : AbovePolicies(ubVal[b], b)
    BY DEF IInv, Above, NodesAreAbove, AbovePolicies, Plans
  <2> QED
    BY <2>1, <2>2 DEF UpperBoundSound
<1> QED
  BY <1>1, Invariant, PTL

-----------------------------------------------------------------------------
\* Values that fall.
LEMMA SameValue ==
  ASSUME UNCHANGED <<settings, cornerPts, point, pts, support>>, NEW b
  PROVE  Value(b)' = Value(b)
<1>1. ToSet(PtsToCheck(b)') = ToSet(PtsToCheck(b))
  BY DEF PtsToCheck, settings
<1> QED
  BY <1>1, ValueIs

\* A new point lowers values only, if no corner rises, and its belief gets a
\* value as low as the point.
LEMMA AddPointFalls ==
  ASSUME Settings, UNCHANGED settings, BoundOK, NEW b \in pomdp.reachable, NEW v \in Int,
         NEW next, NEW prune, AddPoint(b, v, next, prune),
         \A i \in State : cornerPts'[i] <= cornerPts[i]
  PROVE  /\ \A c \in pomdp.reachable : Value(c) \in Int /\ Value(c)' \in Int /\ Value(c)' <= Value(c)
         /\ Value(b)' <= v
<1>1. /\ BoundOK'
      /\ \A k \in DOMAIN point : k \in DOMAIN point' /\ point'[k] = point[k]
      /\ IsCorner(b) => cornerPts' = [cornerPts EXCEPT ![First(b)] = v]
      /\ ~IsCorner(b) => \E k \in DOMAIN point' : point'[k].b = b /\ point'[k].v = v
  BY AddPointBound
<1>2. cornerPts \in Vector /\ cornerPts' \in Vector
  BY <1>1 DEF BoundOK
<1>3. ASSUME NEW c \in pomdp.reachable
      PROVE  Value(c) \in Int /\ Value(c)' \in Int /\ Value(c)' <= Value(c)
  <2>1. PICK check, check2 : /\ check = Check(point, useSawtoothSupportList, c)
                             /\ check2 = Check(point', useSawtoothSupportList, c)
    OBVIOUS
  <2>2. /\ c \in Belief /\ PointsIn(point, check)
        /\ Value(c) = ValueAt(cornerPts, point, check, c)
    BY <2>1, ValueNow
  <2>3. PointsIn(point', check2) /\ Value(c)' = ValueAt(cornerPts', point', check2, c)
    BY <1>1, <2>1, ValueThen
  <2>4. ASSUME NEW k \in Bounding(cornerPts, point, check, c)
        PROVE  /\ k \in check2 /\ Bounds(c, point'[k].b, point'[k].v, Inner(cornerPts, point'[k].b))
               /\ Induced(cornerPts, point', k, c) <= Induced(cornerPts, point, k, c)
    <3>1. k \in check /\ k \in check2 /\ point'[k] = point[k]
      BY <1>1, <2>1 DEF Bounding, Check
    <3>2. Induced(cornerPts, point', k, c) = Induced(cornerPts, point, k, c)
      BY <3>1 DEF Induced
    <3>3. Induced(cornerPts, point, k, c) \in Int
      BY <1>2, <2>2, <3>1, InducedType
    <3> QED
      BY <3>1, <3>2, <3>3 DEF Bounding
  <2>5. ValueAt(cornerPts', point', check2, c) <= ValueAt(cornerPts, point, check, c)
    BY <1>2, <2>2, <2>3, <2>4, ValueFalls
  <2>6. Value(c) \in Int /\ Value(c)' \in Int
    BY <1>2, <2>2, <2>3, ValueProperties
  <2> QED
    BY <2>2, <2>3, <2>5, <2>6
<1>4. Value(b)' <= v
  <2>1. PICK check2 : check2 = Check(point', useSawtoothSupportList, b)
    OBVIOUS
  <2>2. /\ b \in Belief /\ PointsIn(point', check2)
        /\ Value(b)' = ValueAt(cornerPts', point', check2, b)
    BY <1>1, <2>1, ReachableBelief, ValueThen
  <2>3. CASE IsCorner(b)
    <3>1. Inner(cornerPts', b) = cornerPts'[First(b)]
      BY <1>2, <2>2, <2>3, InnerCorner
    <3>2. cornerPts'[First(b)] = v
      BY <1>1, <1>2, <2>3, ReachableBelief DEF Vector
    <3>3. ValueAt(cornerPts', point', check2, b) <= Inner(cornerPts', b)
      BY <1>2, <2>2, ValueProperties
    <3> QED
      BY <2>2, <3>1, <3>2, <3>3
  <2>4. CASE ~IsCorner(b)
    <3>1. PICK k \in DOMAIN point' : point'[k].b = b /\ point'[k].v = v
      BY <1>1, <2>4
    <3>2. b[First(b)] = 1
      BY <2>2, BeliefType
    <3>3. k \in check2
      BY <2>1, <3>1, <3>2 DEF Check
    <3>4. ValueAt(cornerPts', point', check2, b) <= point'[k].v
      BY <1>2, <2>2, <3>1, <3>3, ValueBacked
    <3> QED
      BY <2>2, <3>1, <3>4
  <2> QED
    BY <2>3, <2>4
<1> QED
  BY <1>3, <1>4

\* Without a point that another one dominates no value changes for the worse:
\* the other one is checked wherever the point bounds anything.
LEMMA PruneFalls ==
  ASSUME IInv, PruneCandidate, NEW c \in pomdp.reachable
  PROVE  Value(c) \in Int /\ Value(c)' \in Int /\ Value(c)' <= Value(c)
<1>1. /\ UNCHANGED settings /\ cornerPts' = cornerPts
      /\ Settings /\ BoundOK /\ cornerPts \in Vector
  BY Pruned DEF IInv, BoundOK
<1>2. Value(c) \in Int
  BY ValuesAbove
<1>3. CASE UNCHANGED <<point, pts, support>>
  <2>1. Value(c)' = Value(c)
    BY <1>1, <1>3, SameValue
  <2> QED
    BY <1>2, <2>1
<1>4. ASSUME BoundOK', NEW y \in DOMAIN point, DOMAIN point' = DOMAIN point \ {y},
             \A k \in DOMAIN point' : point'[k] = point[k],
             NEW x \in Opponents(y), Dominates(x, y)
      PROVE  Value(c)' \in Int /\ Value(c)' <= Value(c)
  <2>1. PICK check, check2 : /\ check = Check(point, useSawtoothSupportList, c)
                             /\ check2 = Check(point', useSawtoothSupportList, c)
    OBVIOUS
  <2>2. /\ c \in Belief /\ PointsIn(point, check)
        /\ Value(c) = ValueAt(cornerPts, point, check, c)
    BY <1>1, <2>1, ValueNow
  <2>3. PointsIn(point', check2) /\ Value(c)' = ValueAt(cornerPts', point', check2, c)
    BY <1>1, <1>4, <2>1, ValueThen
  <2>4. PICK B \in Belief, vy \in Int : B = point[y].b /\ vy = point[y].v /\ B \in pomdp.reachable
    BY <1>1, <1>4, ReachableBelief DEF BoundOK, PointsOK
  <2>5. x # y /\ x \in DOMAIN point /\ (useSawtoothSupportList => point[x].b[First(B)] > 0)
    <3>1. ToSet(PtsToCheck(B)) = Check(point, useSawtoothSupportList, B)
      BY <1>1, <2>4, ReachableBelief DEF BoundOK, ListsOK, PtsToCheck, Check, Settings
    <3> QED
      BY <1>4, <2>4, <3>1 DEF Opponents, Check
  <2>6. PICK X \in Belief, vx \in Int : X = point[x].b /\ vx = point[x].v
    BY <1>1, <2>5, ReachableBelief DEF BoundOK, PointsOK
  <2>7. /\ vx < Inner(cornerPts, X) /\ Support(X) \subseteq Support(B)
        /\ BVValue(B, X, vx, Inner(cornerPts, B), Inner(cornerPts, X)) <= vy
    BY <1>4, <2>4, <2>6 DEF Dominates, Bounds, Below
  <2>8. ASSUME NEW k \in Bounding(cornerPts, point, check, c)
        PROVE  \E l \in check2 :
                 /\ Bounds(c, point'[l].b, point'[l].v, Inner(cornerPts, point'[l].b))
                 /\ Induced(cornerPts, point', l, c) <= Induced(cornerPts, point, k, c)
    <3>1. k \in check /\ Bounds(c, point[k].b, point[k].v, Inner(cornerPts, point[k].b))
      BY DEF Bounding
    <3>2. CASE k # y
      <4>1. k \in check2 /\ point'[k] = point[k]
        BY <1>4, <2>1, <3>1, <3>2 DEF Check
      <4>2. Induced(cornerPts, point', k, c) = Induced(cornerPts, point, k, c)
        BY <4>1 DEF Induced
      <4>3. Induced(cornerPts, point, k, c) \in Int
        BY <1>1, <2>2, <3>1, InducedType
      <4> QED
        BY <3>1, <4>1, <4>2, <4>3
    <3>3. CASE k = y
      <4>1. Support(B) \subseteq Support(c) /\ (useSawtoothSupportList => B[First(c)] > 0)
        BY <2>1, <2>4, <3>1, <3>3 DEF Bounds, Check
      <4>2. useSawtoothSupportList => First(B) = First(c)
        <5>1. ASSUME useSawtoothSupportList PROVE First(B) = First(c)
          <6>1. /\ First(c) \in State /\ First(B) \in Support(B) /\ First(B) \in State
                /\ \A i \in Support(B) : First(B) <= i
                /\ \A i \in Support(c) : First(c) <= i
            BY <2>2, BeliefType
          <6>2. First(c) \in Support(B)
            BY <4>1, <5>1, <6>1 DEF Support
          <6>3. First(B) \in Nat /\ First(c) \in Nat
            BY <6>1, PomdpAssumption
          <6>4. First(B) <= First(c) /\ First(c) <= First(B)
            BY <4>1, <6>1, <6>2
          <6> QED
            BY <6>3, <6>4
        <5> QED
          BY <5>1
      <4>3. x \in check2 /\ point'[x] = point[x]
        BY <1>4, <2>1, <2>5, <4>2 DEF Check
      <4>4. Bounds(c, X, vx, Inner(cornerPts, X))
        BY <2>7, <4>1 DEF Bounds
      <4>5. BVValue(c, X, vx, Inner(cornerPts, c), Inner(cornerPts, X))
              <= BVValue(c, B, vy, Inner(cornerPts, c), Inner(cornerPts, B))
        BY <1>1, <2>2, <2>7, BVValueTransitive
      <4>6. Induced(cornerPts, point', x, c) <= Induced(cornerPts, point, k, c)
        BY <2>4, <2>6, <3>3, <4>3, <4>5 DEF Induced
      <4> QED
        BY <2>6, <4>3, <4>4, <4>6
    <3> QED
      BY <3>2, <3>3
  <2>9. \A i \in State : cornerPts'[i] <= cornerPts[i]
    BY <1>1 DEF Vector
  <2>10. ValueAt(cornerPts', point', check2, c) <= ValueAt(cornerPts, point, check, c)
    BY <1>1, <2>2, <2>3, <2>8, <2>9, ValueFalls
  <2>11. Value(c)' \in Int
    BY <1>1, <2>2, <2>3, ValueProperties
  <2> QED
    BY <2>2, <2>3, <2>10, <2>11
<1>5. UNCHANGED <<point, pts, support>> \/ (/\ BoundOK'
              /\ \E y \in DOMAIN point :
                   /\ DOMAIN point' = DOMAIN point \ {y}
                   /\ \A k \in DOMAIN point' : point'[k] = point[k]
                   /\ \E x \in Opponents(y) : Dominates(x, y))
  BY Pruned
<1> QED
  BY <1>2, <1>3, <1>4, <1>5

\* Every step after the initial bound, unless it raises a corner.
LEMMA NextFalls ==
  ASSUME IInv, [Next]_vars, pc # "fib", CornersFall, NEW c \in pomdp.reachable
  PROVE  Value(c) \in Int /\ Value(c)' \in Int /\ Value(c)' <= Value(c)
<1>1. Value(c) \in Int /\ Settings /\ BoundOK
  BY ValuesAbove DEF IInv
<1>2. \A i \in State : cornerPts'[i] <= cornerPts[i]
  BY DEF CornersFall
<1>3. CASE UNCHANGED <<settings, cornerPts, point, pts, support>>
  <2>1. Value(c)' = Value(c)
    BY <1>3, SameValue
  <2> QED
    BY <1>1, <2>1
<1>4. ASSUME NEW b \in Belief, InitNode(b)
      PROVE  Value(c)' \in Int /\ Value(c)' <= Value(c)
  <2>1. b \in pomdp.reachable /\ UNCHANGED settings
    BY <1>4 DEF InitNode, IInv, NodesOK
  <2>2. CASE Terminal(b)
    <3>1. AddPoint(b, 0, "expand", "pruneInExpand")
      BY <1>4, <2>2 DEF InitNode
    <3> QED
      BY <1>1, <1>2, <2>1, <3>1, AddPointFalls
  <2>3. CASE ~Terminal(b)
    BY <1>3, <1>4, <2>1, <2>3 DEF InitNode
  <2> QED
    BY <2>2, <2>3
<1>5. CASE UpdateValue
  <2>1. PICK b \in pomdp.reachable, v \in Int :
          AddPoint(b, v, "updated", "pruneInUpdate") /\ UNCHANGED settings
    BY <1>5, UpdatedNode
  <2> QED
    BY <1>1, <1>2, <2>1, AddPointFalls
<1>6. CASE PruneCandidate
  BY <1>6, PruneFalls
<1>7. CASE Expanded \/ EndUpdate \/ EndPrune \/ UNCHANGED vars
  BY <1>3, <1>7 DEF Expanded, EndUpdate, EndPrune, vars
<1>8. ASSUME NEW b \in Belief, Update(b)
      PROVE  Value(c)' \in Int /\ Value(c)' <= Value(c)
  BY <1>3, <1>8 DEF Update
<1>9. CASE InitFIB
  BY <1>9 DEF InitFIB
<1> QED
  BY <1>1, <1>4, <1>5, <1>6, <1>7, <1>8, <1>9 DEF Next

\* The bound at a belief that can be reached rises only with a corner: no
\* backup and no deleted point raises it.
THEOREM BoundRisesWithCornersOnly == Spec => BoundNeverRises
<1>1. IInv /\ [Next]_vars =>
        [pc # "fib" /\ CornersFall => \A b \in pomdp.reachable : Value(b)' <= Value(b)]_vars
  BY NextFalls
<1> QED
  BY <1>1, Invariant, PTL DEF Spec, BoundNeverRises

\* What every node reports is backed at all times after the initial bound.
Backed ==
  /\ pc = "fib" => DOMAIN ubVal = {}
  /\ pc # "fib" => \A b \in DOMAIN ubVal : Value(b) <= ubVal[b]

LEMMA NextBacked ==
  ASSUME IInv, IInv', Backed, [Next]_vars, [CornersFall]_vars
  PROVE  Backed'
<1>1. /\ DOMAIN ubVal \subseteq pomdp.reachable /\ \A b \in DOMAIN ubVal : ubVal[b] \in Int
      /\ Settings /\ BoundOK
  BY DEF IInv, NodesOK
<1>2. CASE UNCHANGED <<pc, ubVal, settings, cornerPts, point, pts, support>>
  BY <1>2, SameValue DEF Backed
<1>3. CASE UNCHANGED vars
  BY <1>2, <1>3 DEF vars
<1>4. CASE ~ UNCHANGED vars /\ pc = "fib"
  <2>1. DOMAIN ubVal' = {}
    BY <1>4 DEF Backed, Next, InitFIB, InitNode, Update, Expanded, UpdateValue, EndUpdate,
                PruneCandidate, EndPrune, Pruning
  <2> QED
    BY <2>1 DEF Backed
<1>5. CASE ~ UNCHANGED vars /\ pc # "fib"
  <2>1. CornersFall /\ Next /\ \A b \in DOMAIN ubVal : Value(b) <= ubVal[b]
    BY <1>5 DEF Backed
  <2>2. \A b \in DOMAIN ubVal : Value(b) \in Int /\ Value(b)' \in Int /\ Value(b)' <= Value(b)
    BY <1>1, <1>5, <2>1, NextFalls
  <2>3. \A b \in DOMAIN ubVal : Value(b)' <= ubVal[b]
    BY <1>1, <2>1, <2>2
  <2>4. \A i \in State : cornerPts'[i] <= cornerPts[i]
    BY <1>5, <2>1 DEF CornersFall
  <2>5. ASSUME NEW b \in Belief, InitNode(b)
        PROVE  pc' # "fib" /\ \A c \in DOMAIN ubVal' : Value(c)' <= ubVal'[c]
    <3>1. b \in pomdp.reachable /\ UNCHANGED settings
      BY <2>5 DEF InitNode, IInv, NodesOK
    <3>2. CASE Terminal(b)
      <4>1. /\ AddPoint(b, 0, "expand", "pruneInExpand") /\ ubVal' = Extended(ubVal, b, 0)
        BY <2>5, <3>2 DEF InitNode
      <4>2. /\ DOMAIN ubVal' = DOMAIN ubVal \cup {b} /\ ubVal'[b] = 0
            /\ \A c \in DOMAIN ubVal : c # b => ubVal'[c] = ubVal[c]
        BY <4>1 DEF Extended
      <4>3. Value(b)' <= 0
        BY <1>1, <2>4, <3>1, <4>1, AddPointFalls
      <4>4. pc' # "fib"
        BY <4>1 DEF AddPoint
      <4> QED
        BY <2>3, <4>2, <4>3, <4>4
    <3>3. CASE ~Terminal(b)
      <4>1. /\ UNCHANGED <<cornerPts, point, pts, support, pc>>
            /\ ubVal' = Extended(ubVal, b, Value(b))
        BY <2>5, <3>3 DEF InitNode
      <4>2. /\ DOMAIN ubVal' = DOMAIN ubVal \cup {b} /\ ubVal'[b] = Value(b)
            /\ \A c \in DOMAIN ubVal : c # b => ubVal'[c] = ubVal[c]
        BY <4>1 DEF Extended
      <4>3. Value(b)' = Value(b) /\ Value(b) \in Int
        BY <3>1, <4>1, SameValue, ValuesAbove
      <4>4. pc' # "fib"
        BY <1>5, <4>1
      <4> QED
        BY <2>3, <4>2, <4>3, <4>4
    <3> QED
      BY <3>2, <3>3
  <2>6. CASE UpdateValue
    <3>1. PICK b \in pomdp.reachable, v \in Int :
            /\ AddPoint(b, v, "updated", "pruneInUpdate") /\ UNCHANGED settings
            /\ DOMAIN ubVal' = DOMAIN ubVal /\ ubVal'[b] = v
            /\ \A c \in DOMAIN ubVal : c # b => ubVal'[c] = ubVal[c]
      BY <2>6, UpdatedNode
    <3>2. Value(b)' <= v
      BY <1>1, <2>4, <3>1, AddPointFalls
    <3>3. pc' # "fib"
      BY <3>1 DEF AddPoint
    <3> QED
      BY <2>3, <3>1, <3>2, <3>3 DEF Backed
  <2>7. ASSUME NEW b \in Belief, Update(b)
        PROVE  ubVal' = ubVal /\ pc' # "fib"
    BY <2>7 DEF Update
  <2>8. CASE Expanded \/ EndUpdate \/ PruneCandidate \/ EndPrune
    <3>1. ubVal' = ubVal /\ pc' # "fib"
      BY <1>5, <2>8 DEF Expanded, EndUpdate, PruneCandidate, EndPrune
    <3> QED
      BY <2>3, <3>1 DEF Backed
  <2>9. CASE InitFIB
    BY <1>5, <2>9 DEF InitFIB
  <2> QED
    BY <2>1, <2>3, <2>5, <2>6, <2>7, <2>8, <2>9 DEF Next, Backed
<1> QED
  BY <1>3, <1>4, <1>5

\* As long as no corner rises, what a node reports is backed: the points that
\* are left give its belief a value as low, whatever was pruned.
THEOREM NodesStayBacked == Spec /\ [][CornersFall]_vars => []NodesAreBacked
<1>1. Init => Backed
  BY DEF Init, Backed
<1>2. IInv /\ IInv' /\ Backed /\ [Next]_vars /\ [CornersFall]_vars => Backed'
  BY NextBacked
<1>3. Backed => NodesAreBacked
  BY DEF Backed, NodesAreBacked
<1> QED
  BY <1>1, <1>2, <1>3, Invariant, PTL DEF Spec
=============================================================================
