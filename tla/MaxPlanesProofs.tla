--------------------------- MODULE MaxPlanesProofs ---------------------------
(***************************************************************************)
(* The heap of planes: proofs for any POMDP, any settings and any order of *)
(* updates.                                                                *)
(***************************************************************************)
EXTENDS MaxPlanes, FiniteSetTheorems, SequenceTheorems,
        NaturalsInduction, WellFoundedInduction, TLAPS

\* Whether the mask of plane p covers all states, as those of the blind
\* policies do.
Full(p) == config.masking => plane[p].mask = State

\* Planes cover the beliefs that can be reached: there is a full one, or else
\* every plane was made at a node, whose successors have planes of their own.
Coverage ==
  /\ touched \subseteq pomdp.reachable
  /\ IF pc = "start" THEN touched = {} ELSE pomdp.initial \in touched
  /\ \A b \in expanded : Successors(b) \subseteq touched
  /\ \A p \in DOMAIN plane : Full(p) \/ \E b \in expanded : plane[p].mask = Support(b)
  /\ pc = "start" \/ ~config.extraPruning => \E p \in DOMAIN plane : Full(p)

\* Plane p delivers the bound of node b.
Delivers(p, b) == Applicable(p, b) /\ ValueAt(p, b) >= lbVal[b]

Delivered ==
  \A b \in touched : \E p \in DOMAIN plane :
    Delivers(p, b) /\ (config.cache => p = bestPlane[b])

\* Where the loops and the update are.
InPlace ==
  /\ \A p \in DOMAIN plane :
       p <= NumActions + numBackups + (IF pc = "prune" THEN 1 ELSE 0)
  /\ pc \in {"update", "prune"} => numBackups < MaxBackups
  /\ pc = "update" => node \in expanded
  /\ Pruning /\ member > 0 => candidate <= Len(planes)

\* The inductive invariant, as long as no other program has read the policy.
Inv == TypeOK /\ PointersAgree /\ ListsAgree /\ Coverage /\ Delivered /\ InPlace

\* What was written is of the planes the solver ended with.
FileOK == pc = "written" => file = PolicyFile

\* The inductive invariant of the solver and of the program that reads its policy.
IInv ==
  IF pc = "read" THEN HeapSound /\ touched = {} /\ EveryBeliefCovered /\ LowerBoundSound
  ELSE Inv /\ LowerBoundSound /\ FileOK

-----------------------------------------------------------------------------
\* A nonempty set of natural numbers has a least element.
LEMMA LeastNatural ==
  ASSUME NEW T \in SUBSET Nat, T # {}
  PROVE  \E m \in T : \A k \in T : m <= k
<1> DEFINE R == {ss \in Nat \X Nat : ss[1] < ss[2]}
<1>1. IsWellFoundedOn(R, Nat)
  BY NatLessThanWellFounded DEF OpToRel
<1>2. PICK m \in T : \A k \in T : ~(<<k, m>> \in R)
  <2> HIDE DEF R
  <2> QED
    BY <1>1, WFMin
<1>3. ASSUME NEW k \in T PROVE m <= k
  <2>1. m \in Nat /\ k \in Nat /\ <<k, m>> \notin R
    BY <1>2
  <2>2. ~(k < m)
    BY <2>1
  <2> QED
    BY <2>1, <2>2
<1> QED
  BY <1>3

\* Sums, which the library defines by recursion over sets.
Some(S) == CHOOSE x \in S : TRUE

Small(D, n) == {S \in SUBSET D : Cardinality(S) <= n}

\* h adds up f over each of the sets in X.
Adds(h, f, X) ==
  h = [S \in X |-> IF S = {} THEN 0 ELSE f[Some(S)] + h[S \ {Some(S)}]]

LEMMA RestIsSmaller ==
  ASSUME NEW D, IsFiniteSet(D), NEW n \in Nat, NEW S \in Small(D, n), S # {}
  PROVE  n # 0 /\ S \ {Some(S)} \in Small(D, n - 1) /\ Some(S) \in S
<1>1. Some(S) \in S
  BY DEF Some
<1>2. IsFiniteSet(S) /\ S \in SUBSET D /\ Cardinality(S) <= n
  BY FS_Subset DEF Small
<1>3. Cardinality(S \ {Some(S)}) = Cardinality(S) - 1 /\ Cardinality(S) \in Nat
  BY <1>1, <1>2, FS_RemoveElement, FS_CardinalityType
<1>4. Cardinality(S \ {Some(S)}) \in Nat
  BY <1>2, FS_CardinalityType, FS_Subset
<1> QED
  BY <1>1, <1>2, <1>3, <1>4 DEF Small

LEMMA SmallSets ==
  ASSUME NEW D, IsFiniteSet(D)
  PROVE  /\ Small(D, Cardinality(D)) = SUBSET D /\ Cardinality(D) \in Nat
         /\ \A S \in SUBSET D : IsFiniteSet(S) /\ Cardinality(S) \in Nat
         /\ \A S \in SUBSET D : S \in Small(D, Cardinality(S))
<1>1. Cardinality(D) \in Nat
  BY FS_CardinalityType
<1>2. \A S \in SUBSET D : /\ IsFiniteSet(S) /\ Cardinality(S) \in Nat
                          /\ Cardinality(S) <= Cardinality(D)
  BY FS_Subset, FS_CardinalityType
<1> QED
  BY <1>1, <1>2 DEF Small

\* Sums exist, by induction over the number of summands.
LEMMA SumExists ==
  ASSUME NEW D, IsFiniteSet(D), NEW f
  PROVE  \E h : Adds(h, f, SUBSET D)
<1> DEFINE Without == {n \in Nat : ~ \E h : Adds(h, f, Small(D, n))}
<1>1. Without = {}
  <2>1. SUFFICES ASSUME Without # {} PROVE FALSE
    OBVIOUS
  <2>2. PICK n \in Without : \A k \in Without : n <= k
    <3>1. Without \in SUBSET Nat
      OBVIOUS
    <3> HIDE DEF Without
    <3> QED
      BY <2>1, <3>1, LeastNatural
  <2>3. n \in Nat
    OBVIOUS
  <2>4. PICK h : n # 0 => Adds(h, f, Small(D, n - 1))
    <3>1. n # 0 => n - 1 \in Nat /\ ~(n <= n - 1)
      BY <2>3
    <3> QED
      BY <2>2, <3>1
  <2> DEFINE g == [S \in Small(D, n) |->
                     IF S = {} THEN 0 ELSE f[Some(S)] + h[S \ {Some(S)}]]
  <2>5. ASSUME NEW S \in Small(D, n), S # {}
        PROVE  h[S \ {Some(S)}] = g[S \ {Some(S)}]
    <3> DEFINE R == S \ {Some(S)}
    <3>1. n # 0 /\ R \in Small(D, n - 1)
      BY <2>3, <2>5, RestIsSmaller
    <3>2. R \in Small(D, n)
      BY <2>3, <3>1, SmallSets DEF Small
    <3>3. g[R] = IF R = {} THEN 0 ELSE f[Some(R)] + h[R \ {Some(R)}]
      BY <3>2
    <3> HIDE DEF R, g
    <3>4. h[R] = IF R = {} THEN 0 ELSE f[Some(R)] + h[R \ {Some(R)}]
      BY <2>4, <3>1 DEF Adds
    <3> QED
      BY <3>3, <3>4 DEF R
  <2>6. Adds(g, f, Small(D, n))
    BY <2>5, Zenon DEF Adds
  <2> QED
    BY <2>3, <2>6
<1>2. Cardinality(D) \notin Without /\ Cardinality(D) \in Nat
  BY <1>1, SmallSets
<1>3. PICK h : Adds(h, f, Small(D, Cardinality(D)))
  BY <1>2
<1> QED
  BY <1>3, SmallSets

\* Total is the sum.
LEMMA TotalIsSum ==
  ASSUME NEW D, IsFiniteSet(D), NEW f, DOMAIN f = D
  PROVE  \E h : Adds(h, f, SUBSET D) /\ Total(f) = h[D]
<1> DEFINE h == CHOOSE g : g = [S \in SUBSET D |->
                   IF S = {} THEN 0
                   ELSE f[CHOOSE x \in S : TRUE] + g[S \ {CHOOSE x \in S : TRUE}]]
<1>1. Total(f) = h[D]
  BY DEF Total, MapThenSumSet, MapThenFoldSet
<1>2. Adds(h, f, SUBSET D)
  <2>1. \E g : Adds(g, f, SUBSET D)
    BY SumExists
  <2> QED
    BY <2>1 DEF Adds, Some
<1> HIDE DEF h
<1> QED
  BY <1>1, <1>2

\* Induction over the subsets of a finite set.
LEMMA SumInduction ==
  ASSUME NEW D, IsFiniteSet(D), NEW Good \in SUBSET SUBSET D, {} \in Good,
         \A S \in SUBSET D : S # {} /\ S \ {Some(S)} \in Good => S \in Good
  PROVE  D \in Good
<1> DEFINE Bad == {n \in Nat : \E S \in SUBSET D : Cardinality(S) = n /\ S \notin Good}
<1>1. Bad = {}
  <2>1. SUFFICES ASSUME Bad # {} PROVE FALSE
    OBVIOUS
  <2>2. PICK n \in Bad : \A k \in Bad : n <= k
    <3>1. Bad \in SUBSET Nat
      OBVIOUS
    <3> HIDE DEF Bad
    <3> QED
      BY <2>1, <3>1, LeastNatural
  <2>3. PICK S \in SUBSET D : Cardinality(S) = n /\ S \notin Good
    OBVIOUS
  <2> DEFINE R == S \ {Some(S)}
  <2>4. n \in Nat /\ S \in Small(D, n) /\ S # {}
    BY <2>3, SmallSets
  <2>5. n # 0 /\ R \in Small(D, n - 1)
    BY <2>4, RestIsSmaller
  <2>6. R \in SUBSET D /\ Cardinality(R) \in Nat /\ Cardinality(R) <= n - 1
    BY <2>5, SmallSets DEF Small
  <2>7. ~(n <= Cardinality(R))
    BY <2>4, <2>6
  <2>8. Cardinality(R) \notin Bad
    <3> HIDE DEF Bad, R
    <3> QED
      BY <2>2, <2>7
  <2>9. R \in Good
    BY <2>6, <2>8
  <2> QED
    BY <2>3, <2>4, <2>9
<1>2. Cardinality(D) \in Nat /\ D \in SUBSET D
  BY SmallSets
<1> QED
  BY <1>1, <1>2

\* Two sums of the same values are equal.
LEMMA SumUnique ==
  ASSUME NEW D, IsFiniteSet(D), NEW f, NEW g, NEW F, NEW G, NEW X, NEW Y,
         SUBSET D \subseteq X, SUBSET D \subseteq Y, Adds(F, f, X), Adds(G, g, Y),
         \A x \in D : f[x] = g[x]
  PROVE  F[D] = G[D]
<1> DEFINE Good == {S \in SUBSET D : F[S] = G[S]}
<1>1. {} \in Good
  BY DEF Adds
<1>2. ASSUME NEW S \in SUBSET D, S # {}, S \ {Some(S)} \in Good
      PROVE  S \in Good
  <2>1. Some(S) \in S
    BY <1>2 DEF Some
  <2>2. S \in X /\ S \in Y
    OBVIOUS
  <2>3. /\ F[S] = f[Some(S)] + F[S \ {Some(S)}]
        /\ G[S] = g[Some(S)] + G[S \ {Some(S)}]
    BY <1>2, <2>2, Zenon DEF Adds
  <2>4. F[S \ {Some(S)}] = G[S \ {Some(S)}] /\ f[Some(S)] = g[Some(S)]
    BY <1>2, <2>1
  <2>5. F[S] = G[S]
    BY <2>3, <2>4, Zenon
  <2> QED
    BY <2>5
<1>3. D \in Good
  <2>1. Good \in SUBSET SUBSET D
    OBVIOUS
  <2> HIDE DEF Good
  <2> QED
    BY <1>1, <1>2, <2>1, SumInduction
<1> QED
  BY <1>3 DEF Good

\* f on S only.
Part(f, S) == [x \in S |-> f[x]]

LEMMA TotalStep ==
  ASSUME NEW S, IsFiniteSet(S), NEW f
  PROVE  Total(Part(f, S)) =
           IF S = {} THEN 0 ELSE f[Some(S)] + Total(Part(f, S \ {Some(S)}))
<1> DEFINE x == Some(S)
           R == S \ {x}
<1>1. IsFiniteSet(R) /\ DOMAIN Part(f, S) = S /\ DOMAIN Part(f, R) = R
  BY FS_Subset DEF Part
<1>2. PICK F : Adds(F, Part(f, S), SUBSET S) /\ Total(Part(f, S)) = F[S]
  BY <1>1, TotalIsSum
<1>3. PICK G : Adds(G, Part(f, R), SUBSET R) /\ Total(Part(f, R)) = G[R]
  BY <1>1, TotalIsSum
<1>4. CASE S = {}
  BY <1>2, <1>4 DEF Adds
<1>5. CASE S # {}
  <2>1. x \in S
    BY <1>5 DEF Some
  <2>2. F[S] = Part(f, S)[x] + F[R]
    BY <1>2, <1>5 DEF Adds
  <2>3. Part(f, S)[x] = f[x]
    BY <2>1 DEF Part
  <2>4. F[R] = G[R]
    <3>1. SUBSET R \subseteq SUBSET S /\ SUBSET R \subseteq SUBSET R
      OBVIOUS
    <3>2. \A y \in R : Part(f, S)[y] = Part(f, R)[y]
      BY DEF Part
    <3> HIDE DEF R
    <3> QED
      BY <1>1, <1>2, <1>3, <3>1, <3>2, SumUnique
  <2> QED
    BY <1>2, <1>3, <1>5, <2>2, <2>3, <2>4
<1> QED
  BY <1>4, <1>5

LEMMA TotalType ==
  ASSUME NEW D, IsFiniteSet(D), NEW f \in [D -> Int]
  PROVE  Total(f) \in Int
<1> DEFINE Good == {S \in SUBSET D : Total(Part(f, S)) \in Int}
<1>1. {} \in Good
  <2>1. Total(Part(f, {})) = 0
    BY TotalStep, FS_EmptySet
  <2> QED
    BY <2>1
<1>2. ASSUME NEW S \in SUBSET D, S # {}, S \ {Some(S)} \in Good
      PROVE  S \in Good
  <2>1. Some(S) \in S /\ IsFiniteSet(S)
    BY <1>2, FS_Subset DEF Some
  <2>2. Total(Part(f, S)) = f[Some(S)] + Total(Part(f, S \ {Some(S)}))
    BY <1>2, <2>1, TotalStep
  <2>3. f[Some(S)] \in Int /\ Total(Part(f, S \ {Some(S)})) \in Int
    BY <1>2, <2>1
  <2>4. Total(Part(f, S)) \in Int
    BY <2>2, <2>3
  <2> QED
    BY <2>4
<1>3. D \in Good
  <2>1. Good \in SUBSET SUBSET D
    OBVIOUS
  <2> HIDE DEF Good
  <2> QED
    BY <1>1, <1>2, <2>1, SumInduction
<1>4. Part(f, D) = f
  BY DEF Part
<1> QED
  BY <1>3, <1>4 DEF Good

\* One step of a sum of integers.
LEMMA TotalRestType ==
  ASSUME NEW D, IsFiniteSet(D), NEW f \in [D -> Int], NEW S \in SUBSET D, S # {}
  PROVE  /\ Some(S) \in S /\ f[Some(S)] \in Int
         /\ Total(Part(f, S \ {Some(S)})) \in Int
<1> DEFINE R == S \ {Some(S)}
<1>1. Some(S) \in S /\ IsFiniteSet(R)
  BY FS_Subset DEF Some
<1>2. Part(f, R) \in [R -> Int]
  BY DEF Part
<1>3. Total(Part(f, R)) \in Int
  BY <1>1, <1>2, TotalType
<1> QED
  BY <1>1, <1>3

LEMMA TotalRest ==
  ASSUME NEW D, IsFiniteSet(D), NEW f \in [D -> Int], NEW S \in SUBSET D, S # {}
  PROVE  Total(Part(f, S)) = f[Some(S)] + Total(Part(f, S \ {Some(S)}))
BY FS_Subset, TotalStep

LEMMA TotalNone == ASSUME NEW f PROVE Total(Part(f, {})) = 0
BY TotalStep, FS_EmptySet

LEMMA TotalMonotone ==
  ASSUME NEW D, IsFiniteSet(D), NEW f \in [D -> Int], NEW g \in [D -> Int],
         \A x \in D : f[x] <= g[x]
  PROVE  Total(f) <= Total(g)
<1> DEFINE Good == {S \in SUBSET D : Total(Part(f, S)) <= Total(Part(g, S))}
<1>1. {} \in Good
  BY TotalNone
<1>2. ASSUME NEW S \in SUBSET D, S # {}, S \ {Some(S)} \in Good
      PROVE  S \in Good
  <2>1. f[Some(S)] <= g[Some(S)]
    BY <1>2, TotalRestType
  <2>2. Total(Part(f, S \ {Some(S)})) <= Total(Part(g, S \ {Some(S)}))
    BY <1>2
  <2>3. Total(Part(f, S)) <= Total(Part(g, S))
    <3> HIDE DEF Good
    <3> QED
      BY <1>2, <2>1, <2>2, TotalRest, TotalRestType
  <2> QED
    BY <2>3
<1>3. D \in Good
  <2>1. Good \in SUBSET SUBSET D
    OBVIOUS
  <2> HIDE DEF Good
  <2> QED
    BY <1>1, <1>2, <2>1, SumInduction
<1>4. Part(f, D) = f /\ Part(g, D) = g
  BY DEF Part
<1> QED
  BY <1>3, <1>4

LEMMA TimesSum ==
  ASSUME NEW k \in Int, NEW a \in Int, NEW b \in Int, NEW c \in Int, NEW d \in Int
  PROVE  (k * a + b) + (k * c + d) = k * (a + c) + (b + d)
OBVIOUS

LEMMA TotalLinear ==
  ASSUME NEW D, IsFiniteSet(D), NEW k \in Int, NEW f \in [D -> Int], NEW g \in [D -> Int],
         NEW h \in [D -> Int], \A x \in D : h[x] = k * f[x] + g[x]
  PROVE  Total(h) = k * Total(f) + Total(g)
<1> DEFINE Good == {S \in SUBSET D :
                      Total(Part(h, S)) = k * Total(Part(f, S)) + Total(Part(g, S))}
<1>1. {} \in Good
  <2>1. k * 0 + 0 = 0
    OBVIOUS
  <2> QED
    BY <2>1, TotalNone
<1>2. ASSUME NEW S \in SUBSET D, S # {}, S \ {Some(S)} \in Good
      PROVE  S \in Good
  <2> DEFINE OneStep(e) ==
               /\ Some(S) \in S /\ e[Some(S)] \in Int
               /\ Total(Part(e, S \ {Some(S)})) \in Int
               /\ Total(Part(e, S)) = e[Some(S)] + Total(Part(e, S \ {Some(S)}))
  <2>1. ASSUME NEW e \in [D -> Int] PROVE OneStep(e)
    <3> HIDE DEF Good
    <3>1. /\ Some(S) \in S /\ e[Some(S)] \in Int
          /\ Total(Part(e, S \ {Some(S)})) \in Int
      BY <1>2, TotalRestType
    <3>2. Total(Part(e, S)) = e[Some(S)] + Total(Part(e, S \ {Some(S)}))
      BY <1>2, TotalRest
    <3> QED
      BY <3>1, <3>2
  <2>2. OneStep(f) /\ OneStep(g) /\ OneStep(h)
    BY <2>1, Zenon
  <2> DEFINE x == Some(S)
             R == S \ {x}
  <2>3. Total(Part(h, R)) = k * Total(Part(f, R)) + Total(Part(g, R))
    BY <1>2
  <2>4. h[x] = k * f[x] + g[x]
    BY <2>2
  <2>5. /\ Total(Part(f, S)) = f[x] + Total(Part(f, R))
        /\ Total(Part(g, S)) = g[x] + Total(Part(g, R))
        /\ Total(Part(h, S)) = h[x] + Total(Part(h, R))
        /\ f[x] \in Int /\ g[x] \in Int
        /\ Total(Part(f, R)) \in Int /\ Total(Part(g, R)) \in Int
    BY <2>2, Zenon
  <2>6. Total(Part(h, S)) = k * Total(Part(f, S)) + Total(Part(g, S))
    <3> HIDE DEF Good, x, R
    <3>1. Total(Part(h, S)) = (k * f[x] + g[x]) + (k * Total(Part(f, R)) + Total(Part(g, R)))
      BY <2>3, <2>4, <2>5, Zenon
    <3> QED
      BY <2>5, <3>1, TimesSum
  <2> QED
    BY <2>6
<1>3. D \in Good
  <2>1. Good \in SUBSET SUBSET D
    OBVIOUS
  <2> HIDE DEF Good
  <2> QED
    BY <1>1, <1>2, <2>1, SumInduction
<1>4. Part(f, D) = f /\ Part(g, D) = g /\ Part(h, D) = h
  BY DEF Part
<1> QED
  BY <1>3, <1>4

LEMMA TotalZero ==
  ASSUME NEW D, IsFiniteSet(D), NEW f \in [D -> Int], \A x \in D : f[x] = 0
  PROVE  Total(f) = 0
<1>1. \A x \in D : f[x] = 1 * f[x] + f[x]
  OBVIOUS
<1>2. Total(f) = 1 * Total(f) + Total(f)
  BY <1>1, TotalLinear
<1>3. PICK t \in Int : t = Total(f)
  BY TotalType, Zenon
<1>4. t = 1 * t + t => t = 0
  OBVIOUS
<1> QED
  BY <1>2, <1>3, <1>4, Zenon

LEMMA TotalScaled ==
  ASSUME NEW D, IsFiniteSet(D), NEW k \in Int, NEW f \in [D -> Int], NEW h \in [D -> Int]
  PROVE  (\A x \in D : h[x] = k * f[x]) => Total(h) = k * Total(f)
<1>1. ASSUME \A x \in D : h[x] = k * f[x]
      PROVE  Total(h) = k * Total(f)
  <2> DEFINE zero == [x \in D |-> 0]
  <2>0. zero \in [D -> Int]
    OBVIOUS
  <2>1. \A x \in D : zero[x] = 0
    OBVIOUS
  <2> HIDE DEF zero
  <2>2. \A x \in D : h[x] = k * f[x] + zero[x]
    BY <1>1, <2>1
  <2>3. Total(h) = k * Total(f) + Total(zero)
    BY <2>0, <2>2, TotalLinear
  <2>4. Total(zero) = 0
    BY <2>0, <2>1, TotalZero
  <2>5. PICK t \in Int : t = Total(f)
    BY TotalType, Zenon
  <2>6. k * t + 0 = k * t
    OBVIOUS
  <2> QED
    BY <2>3, <2>4, <2>5, <2>6, Zenon
<1> QED
  BY <1>1

LEMMA TotalDifference ==
  ASSUME NEW D, IsFiniteSet(D),
         NEW f \in [D -> Int], NEW g \in [D -> Int], NEW h \in [D -> Int]
  PROVE  (\A x \in D : h[x] = f[x] - g[x]) => Total(h) = Total(f) - Total(g)
<1>1. ASSUME \A x \in D : h[x] = f[x] - g[x]
      PROVE  Total(h) = Total(f) - Total(g)
  <2>1. \A x \in D : f[x] = 1 * h[x] + g[x]
    BY <1>1
  <2>2. Total(f) = 1 * Total(h) + Total(g)
    BY <2>1, TotalLinear
  <2>3. PICK s \in Int, t \in Int : s = Total(h) /\ t = Total(g)
    BY TotalType, Zenon
  <2>4. s = (1 * s + t) - t
    OBVIOUS
  <2> QED
    BY <2>2, <2>3, <2>4, Zenon
<1> QED
  BY <1>1

\* A sum with one summand that is not 0.
LEMMA TotalSingle ==
  ASSUME NEW D, IsFiniteSet(D), NEW f \in [D -> Int], NEW i \in D,
         \A x \in D \ {i} : f[x] = 0
  PROVE  Total(f) = f[i]
<1> DEFINE Good == {S \in SUBSET D : Total(Part(f, S)) = IF i \in S THEN f[i] ELSE 0}
<1>1. {} \in Good
  BY TotalNone
<1>2. ASSUME NEW S \in SUBSET D, S # {}, S \ {Some(S)} \in Good
      PROVE  S \in Good
  <2>1. Total(Part(f, S \ {Some(S)})) = IF i \in S \ {Some(S)} THEN f[i] ELSE 0
    BY <1>2
  <2>2. Total(Part(f, S)) = IF i \in S THEN f[i] ELSE 0
    <3> HIDE DEF Good
    <3> QED
      BY <1>2, <2>1, TotalRest, TotalRestType
  <2> QED
    BY <2>2
<1>3. D \in Good
  <2>1. Good \in SUBSET SUBSET D
    OBVIOUS
  <2> HIDE DEF Good
  <2> QED
    BY <1>1, <1>2, <2>1, SumInduction
<1>4. Part(f, D) = f
  BY DEF Part
<1> QED
  BY <1>3, <1>4

\* The rows or the columns first.
LEMMA TotalSwap ==
  ASSUME NEW D, IsFiniteSet(D), NEW E, IsFiniteSet(E), NEW F \in [D -> [E -> Int]]
  PROVE  Total([x \in D |-> Total(F[x])]) = Total([y \in E |-> Total([x \in D |-> F[x][y]])])
<1> DEFINE rows    == [x \in D |-> Total(F[x])]
           col(y)  == [x \in D |-> F[x][y]]
           cols(S) == [y \in E |-> Total(Part(col(y), S))]
           Good    == {S \in SUBSET D : Total(Part(rows, S)) = Total(cols(S))}
<1>0. rows \in [D -> Int]
  BY TotalType
<1>1. \A y \in E : col(y) \in [D -> Int]
  OBVIOUS
<1>2. ASSUME NEW S \in SUBSET D PROVE cols(S) \in [E -> Int]
  <2>1. ASSUME NEW y \in E PROVE Total(Part(col(y), S)) \in Int
    <3>1. IsFiniteSet(S) /\ Part(col(y), S) \in [S -> Int]
      BY FS_Subset DEF Part
    <3> QED
      BY <3>1, TotalType
  <2> QED
    BY <2>1
<1>3. {} \in Good
  <2>1. \A y \in E : cols({})[y] = 0
    BY TotalNone
  <2>2. cols({}) \in [E -> Int]
    BY <1>2
  <2>3. Total(cols({})) = 0
    <3> HIDE DEF cols
    <3> QED
      BY <2>1, <2>2, TotalZero
  <2>4. Total(Part(rows, {})) = 0
    BY TotalNone
  <2> QED
    BY <2>3, <2>4
<1>4. ASSUME NEW S \in SUBSET D, S # {}, S \ {Some(S)} \in Good
      PROVE  S \in Good
  <2> DEFINE OneStep(e) ==
               /\ Some(S) \in S /\ e[Some(S)] \in Int
               /\ Total(Part(e, S)) = e[Some(S)] + Total(Part(e, S \ {Some(S)}))
  <2>1. ASSUME NEW e \in [D -> Int] PROVE OneStep(e)
    <3> HIDE DEF Good
    <3>1. /\ Some(S) \in S /\ e[Some(S)] \in Int
          /\ Total(Part(e, S \ {Some(S)})) \in Int
      BY <1>4, TotalRestType
    <3>2. Total(Part(e, S)) = e[Some(S)] + Total(Part(e, S \ {Some(S)}))
      BY <1>4, TotalRest
    <3> QED
      BY <3>1, <3>2
  <2> DEFINE x == Some(S)
             R == S \ {x}
  <2>2. Total(Part(rows, R)) = Total(cols(R))
    BY <1>4
  <2>3. x \in D /\ Total(Part(rows, S)) = rows[x] + Total(Part(rows, R))
    BY <1>0, <2>1, Zenon
  <2>4. ASSUME NEW y \in E PROVE cols(S)[y] = 1 * F[x][y] + cols(R)[y]
    <3>1. /\ Total(Part(col(y), S)) = col(y)[x] + Total(Part(col(y), R))
          /\ col(y)[x] \in Int
      BY <1>1, <2>1, Zenon
    <3>2. col(y)[x] = F[x][y]
      BY <2>3
    <3> QED
      BY <3>1, <3>2
  <2>5. Total(cols(S)) = 1 * Total(F[x]) + Total(cols(R))
    <3>1. F[x] \in [E -> Int] /\ cols(S) \in [E -> Int] /\ cols(R) \in [E -> Int]
      BY <1>2, <2>3
    <3> HIDE DEF cols, x, R
    <3> QED
      BY <2>4, <3>1, TotalLinear
  <2>6. Total(F[x]) \in Int /\ rows[x] = Total(F[x])
    BY <2>3, TotalType
  <2>7. Total(Part(rows, S)) = Total(cols(S))
    <3> HIDE DEF cols, x, R, rows
    <3> QED
      BY <2>2, <2>3, <2>5, <2>6
  <2> QED
    BY <2>7
<1>5. D \in Good
  <2>1. Good \in SUBSET SUBSET D
    OBVIOUS
  <2> HIDE DEF Good
  <2> QED
    BY <1>3, <1>4, <2>1, SumInduction
<1>6. Part(rows, D) = rows /\ \A y \in E : Part(col(y), D) = col(y)
  BY DEF Part
<1>7. cols(D) = [y \in E |-> Total(col(y))]
  BY <1>6
<1> QED
  BY <1>5, <1>6, <1>7

\* Products and quotients.
LEMMA TimesMonotone ==
  ASSUME NEW c \in Nat, NEW x \in Int, NEW y \in Int, x <= y
  PROVE  c * x <= c * y
OBVIOUS

LEMMA TimesStrict ==
  ASSUME NEW c \in Nat \ {0}, NEW x \in Int, NEW y \in Int, c * x <= c * y
  PROVE  x <= y
<1>1. y + 1 <= x => c * (y + 1) <= c * x
  BY TimesMonotone
<1>2. c * (y + 1) = c * y + c
  OBVIOUS
<1> QED
  BY <1>1, <1>2

LEMMA TimesInt == \A x, y \in Int : x * y \in Int
OBVIOUS

LEMMA TimesNat == \A x, y \in Nat : x * y \in Nat
OBVIOUS

-----------------------------------------------------------------------------
\* Lists.
LEMMA SeqWithin ==
  ASSUME NEW S, NEW st \in Seq(S), NEW T, ToSet(st) \subseteq T
  PROVE  st \in Seq(T)
<1>1. Len(st) \in Nat /\ st \in [1 .. Len(st) -> S]
  OBVIOUS
<1>2. \A i \in 1 .. Len(st) : st[i] \in T
  BY <1>1 DEF ToSet
<1>3. st \in [1 .. Len(st) -> T]
  BY <1>1, <1>2
<1> QED
  BY <1>1, <1>3

LEMMA ListHas ==
  ASSUME NEW S, NEW st \in Seq(S)
  PROVE  /\ Len(st) \in Nat /\ DOMAIN st = 1 .. Len(st)
         /\ \A k \in 1 .. Len(st) : st[k] \in ToSet(st) /\ st[k] \in S
         /\ \A x : x \in ToSet(st) <=> \E k \in 1 .. Len(st) : st[k] = x
BY DEF ToSet

LEMMA RemoveAtProperties ==
  ASSUME NEW S, NEW st \in Seq(S), IsInjective(st), NEW k \in 1 .. Len(st)
  PROVE  LET t == RemoveAt(st, k)
         IN  /\ t \in Seq(S) /\ Len(t) = Len(st) - 1
             /\ ToSet(t) = ToSet(st) \ {st[k]}
             /\ IsInjective(t)
<1> DEFINE t == RemoveAt(st, k)
           f == SubSeq(st, 1, k - 1)
           g == SubSeq(st, k + 1, Len(st))
<1>1. Len(st) \in Nat /\ k \in Nat \ {0} /\ k <= Len(st) /\ DOMAIN st = 1 .. Len(st)
  OBVIOUS
<1>2. f \in Seq(S) /\ \A i \in 1 .. k - 1 : f[i] = st[i]
  BY <1>1
<1>3. Len(f) = k - 1
  <2>1. k - 1 \in 0 .. Len(st)
    BY <1>1
  <2>2. PICK j \in 0 .. Len(st) : j = k - 1
    BY <2>1
  <2>3. Len(SubSeq(st, 1, j)) = j
    OBVIOUS
  <2> QED
    BY <2>2, <2>3
<1>4. /\ g \in Seq(S) /\ Len(g) = Len(st) - k
      /\ \A i \in 1 .. Len(st) - k : g[i] = st[k + i]
  <2>1. \A i \in k + 1 .. Len(st) : st[i] \in S
    BY <1>1
  <2>2. /\ g \in Seq(S)
        /\ Len(g) = IF k + 1 <= Len(st) THEN Len(st) - (k + 1) + 1 ELSE 0
        /\ \A i \in 1 .. Len(st) - (k + 1) + 1 : g[i] = st[k + 1 + i - 1]
    BY <1>1, <2>1, SubSeqProperties
  <2> HIDE DEF g
  <2>3. Len(g) = Len(st) - k
    <3>1. Len(g) = IF k + 1 <= Len(st) THEN Len(st) - (k + 1) + 1 ELSE 0
      BY <2>2
    <3>2. PICK n \in Nat : n = Len(st)
      BY <1>1
    <3>3. k \in 1 .. n
      BY <1>1, <3>2
    <3>4. (IF k + 1 <= n THEN n - (k + 1) + 1 ELSE 0) = n - k
      BY <3>3
    <3> QED
      BY <3>1, <3>2, <3>4
  <2>4. ASSUME NEW i \in 1 .. Len(st) - k PROVE g[i] = st[k + i]
    <3>1. i \in 1 .. Len(st) - (k + 1) + 1 /\ k + 1 + i - 1 = k + i
      BY <1>1
    <3> QED
      BY <2>2, <3>1
  <2> QED
    BY <2>2, <2>3, <2>4
<1>5. t = f \o g
  BY DEF RemoveAt
<1> HIDE DEF t, f, g
<1>6. /\ t \in Seq(S) /\ Len(t) = Len(st) - 1 /\ DOMAIN t = 1 .. Len(st) - 1
      /\ \A i \in 1 .. Len(st) - 1 : t[i] = IF i < k THEN f[i] ELSE g[i - (k - 1)]
  <2>1. Len(f) \in Nat /\ Len(g) \in Nat /\ Len(f) + Len(g) = Len(st) - 1
    BY <1>1, <1>3, <1>4
  <2>2. t \in Seq(S) /\ Len(t) = Len(f) + Len(g)
    BY <1>2, <1>4, <1>5, ConcatProperties
  <2>3. ASSUME NEW i \in 1 .. Len(f) + Len(g)
        PROVE  t[i] = IF i <= Len(f) THEN f[i] ELSE g[i - Len(f)]
    BY <1>2, <1>4, <1>5, ConcatProperties
  <2>4. DOMAIN t = 1 .. Len(t)
    BY <2>2
  <2>5. \A i \in 1 .. Len(st) - 1 : i <= k - 1 <=> i < k
    BY <1>1
  <2> QED
    BY <1>3, <2>1, <2>2, <2>3, <2>4, <2>5
<1>7. ASSUME NEW i \in 1 .. Len(st) - 1
      PROVE  t[i] = IF i < k THEN st[i] ELSE st[i + 1]
  <2>1. CASE i < k
    BY <1>1, <1>2, <1>6, <2>1
  <2>2. CASE ~(i < k)
    <3>1. /\ i - (k - 1) \in 1 .. Len(st) - k /\ k + (i - (k - 1)) = i + 1
      BY <1>1, <2>2
    <3> QED
      BY <1>4, <1>6, <2>2, <3>1
  <2> QED
    BY <2>1, <2>2
<1>8. ASSUME NEW x
      PROVE  x \in ToSet(t) <=> x \in ToSet(st) /\ x # st[k]
  <2>1. ASSUME NEW i \in 1 .. Len(st) - 1 PROVE t[i] \in ToSet(st) /\ t[i] # st[k]
    <3>1. i \in 1 .. Len(st) /\ i + 1 \in 1 .. Len(st) /\ (i < k => i # k)
          /\ (~(i < k) => i + 1 # k)
      BY <1>1
    <3> QED
      BY <1>1, <1>7, <3>1 DEF ToSet, IsInjective
  <2>2. ASSUME NEW i \in 1 .. Len(st), i # k PROVE st[i] \in ToSet(t)
    <3>1. CASE i < k
      BY <1>1, <1>6, <1>7, <3>1 DEF ToSet
    <3>2. CASE i > k
      <4>1. i - 1 \in 1 .. Len(st) - 1 /\ ~(i - 1 < k) /\ i - 1 + 1 = i
        BY <1>1, <3>2
      <4> QED
        BY <1>6, <1>7, <4>1 DEF ToSet
    <3> QED
      BY <1>1, <2>2, <3>1, <3>2
  <2>3. ToSet(t) = {t[i] : i \in 1 .. Len(st) - 1} /\ ToSet(st) = {st[i] : i \in 1 .. Len(st)}
    BY <1>1, <1>6 DEF ToSet
  <2> QED
    BY <2>1, <2>2, <2>3
<1>9. IsInjective(t)
  <2> SUFFICES ASSUME NEW i \in 1 .. Len(st) - 1, NEW j \in 1 .. Len(st) - 1, t[i] = t[j]
               PROVE  i = j
    BY <1>6 DEF IsInjective
  <2> DEFINE at(n) == IF n < k THEN n ELSE n + 1
  <2>1. /\ at(i) \in 1 .. Len(st) /\ at(j) \in 1 .. Len(st)
        /\ t[i] = st[at(i)] /\ t[j] = st[at(j)]
    BY <1>1, <1>7
  <2>2. at(i) = at(j)
    BY <1>1, <2>1 DEF IsInjective
  <2> QED
    BY <1>1, <2>2
<1> QED
  BY <1>6, <1>8, <1>9 DEF t

LEMMA RemoveFirstProperties ==
  ASSUME NEW S, NEW st \in Seq(S), IsInjective(st), NEW x
  PROVE  LET t == RemoveFirst(st, x)
         IN  t \in Seq(S) /\ ToSet(t) = ToSet(st) \ {x} /\ IsInjective(t)
<1>1. Len(st) \in Nat /\ DOMAIN st = 1 .. Len(st)
  OBVIOUS
<1>2. CASE \E i \in 1 .. Len(st) : st[i] = x
  <2> DEFINE I == {i \in 1 .. Len(st) : st[i] = x}
             k == CHOOSE i \in I : \A j \in I : i <= j
  <2>1. I # {} /\ I \in SUBSET Nat
    BY <1>2
  <2>2. k \in I
    <3> HIDE DEF I
    <3>1. \E i \in I : \A j \in I : i <= j
      BY <2>1, LeastNatural
    <3> QED
      BY <3>1
  <2>3. RemoveFirst(st, x) = RemoveAt(st, k)
    <3>1. Min(I) = k
      BY DEF Min
    <3>2. SelectInSeq(st, LAMBDA v : v = x) = Min(I)
      BY <2>1 DEF SelectInSeq
    <3> QED
      BY <1>2, <3>1, <3>2 DEF RemoveFirst
  <2> HIDE DEF k
  <2> QED
    BY <2>2, <2>3, RemoveAtProperties
<1>3. CASE ~ \E i \in 1 .. Len(st) : st[i] = x
  <2>1. RemoveFirst(st, x) = st
    BY <1>3 DEF RemoveFirst
  <2> QED
    BY <1>1, <1>3, <2>1 DEF ToSet
<1> QED
  BY <1>2, <1>3

\* Appending an element that is not in the list.
LEMMA AppendedProperties ==
  ASSUME NEW S, NEW st \in Seq(S), IsInjective(st), NEW x \in S, x \notin ToSet(st)
  PROVE  /\ Append(st, x) \in Seq(S) /\ Len(Append(st, x)) = Len(st) + 1
         /\ ToSet(Append(st, x)) = ToSet(st) \cup {x} /\ IsInjective(Append(st, x))
<1>0. PICK t : t = Append(st, x)
  BY Zenon
<1>1. Len(st) \in Nat /\ DOMAIN st = 1 .. Len(st)
  OBVIOUS
<1>2. /\ t \in Seq(S) /\ Len(t) = Len(st) + 1 /\ DOMAIN t = 1 .. Len(st) + 1
      /\ t[Len(st) + 1] = x /\ \A i \in 1 .. Len(st) : t[i] = st[i]
  BY <1>0
<1>3. (1 .. Len(st)) \cup {Len(st) + 1} = 1 .. Len(st) + 1
  BY <1>1
<1>4. ToSet(t) = ToSet(st) \cup {x}
  BY <1>1, <1>2, <1>3 DEF ToSet
<1>5. IsInjective(t)
  BY <1>1, <1>2, <1>3 DEF ToSet, IsInjective
<1> QED
  BY <1>0, <1>2, <1>4, <1>5, Zenon

\* Moving an element to the front.
LEMMA PromotedProperties ==
  ASSUME NEW S, NEW st \in Seq(S), IsInjective(st), NEW k \in 1 .. Len(st)
  PROVE  LET t == Promoted(st, k)
         IN  t \in Seq(S) /\ Len(t) = Len(st) /\ ToSet(t) = ToSet(st) /\ IsInjective(t)
<1>1. PICK r : r = RemoveAt(st, k)
  BY Zenon
<1>2. /\ r \in Seq(S) /\ Len(r) = Len(st) - 1 /\ Len(st) \in Nat
      /\ ToSet(r) = ToSet(st) \ {st[k]} /\ IsInjective(r)
  <2>1. /\ RemoveAt(st, k) \in Seq(S) /\ Len(RemoveAt(st, k)) = Len(st) - 1
        /\ ToSet(RemoveAt(st, k)) = ToSet(st) \ {st[k]} /\ IsInjective(RemoveAt(st, k))
    BY RemoveAtProperties, Zenon
  <2>2. Len(st) \in Nat
    OBVIOUS
  <2> QED
    BY <1>1, <2>1, <2>2, Zenon
<1>3. PICK x \in S : x = st[k] /\ x \in ToSet(st)
  BY ListHas
<1>4. PICK n \in Nat : n = Len(r) /\ Len(st) = n + 1 /\ DOMAIN r = 1 .. n
  BY <1>2
<1>5. PICK t : t = <<x>> \o r
  OBVIOUS
<1>6. /\ t \in Seq(S) /\ Len(t) = n + 1 /\ DOMAIN t = 1 .. n + 1
      /\ t[1] = x /\ \A i \in 1 .. n : t[i + 1] = r[i]
  <2>1. <<x>> \in Seq(S) /\ Len(<<x>>) = 1 /\ r \in Seq(S) /\ Len(r) = n
    BY <1>2, <1>4
  <2>2. t \in Seq(S) /\ Len(t) = 1 + n
    BY <1>5, <2>1, ConcatProperties
  <2>3. \A i \in 1 .. 1 + n : t[i] = IF i <= 1 THEN <<x>>[i] ELSE r[i - 1]
    BY <1>5, <2>1, ConcatProperties
  <2>4. \A i \in 1 .. n : i + 1 \in 1 .. 1 + n /\ ~(i + 1 <= 1) /\ i + 1 - 1 = i
    OBVIOUS
  <2>5. 1 \in 1 .. 1 + n /\ 1 + n = n + 1
    OBVIOUS
  <2> QED
    BY <2>2, <2>3, <2>4, <2>5
<1>7. ASSUME NEW i \in 1 .. n + 1, i # 1
      PROVE  i - 1 \in 1 .. n /\ t[i] = r[i - 1] /\ t[i] \in ToSet(r)
  <2>1. i - 1 \in 1 .. n /\ i - 1 + 1 = i
    BY <1>7
  <2>2. t[i] = r[i - 1]
    BY <1>6, <2>1
  <2> QED
    BY <1>4, <2>1, <2>2 DEF ToSet
<1>8. ToSet(t) = ToSet(st)
  <2>1. ToSet(t) = {t[i] : i \in 1 .. n + 1} /\ ToSet(r) = {r[i] : i \in 1 .. n}
    BY <1>4, <1>6 DEF ToSet
  <2>2. 1 \in 1 .. n + 1 /\ \A i \in 1 .. n : i + 1 \in 1 .. n + 1
    OBVIOUS
  <2>3. ToSet(t) \subseteq ToSet(r) \cup {x}
    <3>1. \A i \in 1 .. n + 1 : t[i] = x \/ t[i] \in ToSet(r)
      BY <1>6, <1>7
    <3> QED
      BY <2>1, <3>1, Zenon
  <2>4. x \in ToSet(t) /\ ToSet(r) \subseteq ToSet(t)
    BY <1>6, <2>1, <2>2
  <2>5. ToSet(t) = ToSet(r) \cup {x}
    BY <2>3, <2>4, Zenon
  <2> QED
    BY <1>2, <1>3, <2>5, Zenon
<1>9. IsInjective(t)
  <2> SUFFICES ASSUME NEW i \in 1 .. n + 1, NEW j \in 1 .. n + 1, t[i] = t[j]
               PROVE  i = j
    BY <1>6 DEF IsInjective
  <2>1. x \notin ToSet(r)
    BY <1>2, <1>3
  <2>2. CASE i # 1 /\ j # 1
    <3>1. /\ i - 1 \in 1 .. n /\ j - 1 \in 1 .. n
          /\ r[i - 1] = r[j - 1]
      BY <1>7, <2>2
    <3>2. i - 1 = j - 1
      BY <1>2, <1>4, <3>1, Zenon DEF IsInjective
    <3> QED
      BY <3>2
  <2> QED
    BY <1>6, <1>7, <2>1, <2>2
<1>10. Promoted(st, k) = t
  BY <1>1, <1>3, <1>5 DEF Promoted
<1> QED
  BY <1>4, <1>6, <1>8, <1>9, <1>10

-----------------------------------------------------------------------------
\* The best of a number of places, and the first of the best.
LEMMA HasMaximum ==
  ASSUME NEW n \in Nat, NEW P \in SUBSET (0 .. n), P # {}, NEW v \in [P -> Int]
  PROVE  \E k \in P : \A j \in P : v[j] <= v[k]
<1> DEFINE Good(m) == \A Q \in SUBSET P : Q \subseteq 0 .. m /\ Q # {} =>
                         \E k \in Q : \A j \in Q : v[j] <= v[k]
           Bad == {m \in Nat : ~Good(m)}
<1>1. Bad = {}
  <2>1. SUFFICES ASSUME Bad # {} PROVE FALSE
    OBVIOUS
  <2>2. PICK m \in Bad : \A k \in Bad : m <= k
    <3>1. Bad \in SUBSET Nat
      OBVIOUS
    <3> HIDE DEF Bad
    <3> QED
      BY <2>1, <3>1, LeastNatural
  <2>3. m \in Nat /\ ~Good(m)
    OBVIOUS
  <2>4. PICK Q \in SUBSET P : /\ Q \subseteq 0 .. m /\ Q # {}
                              /\ ~ \E k \in Q : \A j \in Q : v[j] <= v[k]
    BY <2>3
  <2>5. CASE m = 0
    <3>1. Q = {0}
      <4>1. 0 .. m = {0}
        BY <2>5
      <4> QED
        BY <2>4, <4>1
    <3>2. v[0] \in Int
      BY <2>4, <3>1
    <3> QED
      BY <2>4, <3>1, <3>2
  <2>6. CASE m # 0
    <3>1. m - 1 \in Nat /\ ~(m <= m - 1) /\ 0 .. m = (0 .. m - 1) \cup {m}
      BY <2>3, <2>6
    <3>2. Good(m - 1)
      <4>1. m - 1 \notin Bad
        <5> HIDE DEF Bad
        <5> QED
          BY <2>2, <3>1
      <4> QED
        BY <3>1, <4>1
    <3>3. Q \ {m} \in SUBSET P /\ Q \ {m} \subseteq 0 .. m - 1
      BY <2>4, <3>1
    <3>4. CASE Q \ {m} = {}
      <4>1. Q = {m} /\ v[m] \in Int
        BY <2>4, <3>4
      <4> QED
        BY <2>4, <4>1
    <3>5. CASE Q \ {m} # {}
      <4>1. PICK k \in Q \ {m} : \A j \in Q \ {m} : v[j] <= v[k]
        BY <3>2, <3>3, <3>5
      <4>2. v[k] \in Int /\ \A j \in Q : v[j] \in Int
        BY <4>1
      <4>3. CASE m \in Q /\ v[k] < v[m]
        <5>1. \A j \in Q : v[j] <= v[m]
          BY <4>1, <4>2, <4>3
        <5> QED
          BY <2>4, <4>3, <5>1
      <4>4. CASE m \notin Q \/ ~(v[k] < v[m])
        <5>1. \A j \in Q : v[j] <= v[k]
          BY <4>1, <4>2, <4>4
        <5> QED
          BY <2>4, <5>1
      <4> QED
        BY <4>3, <4>4
    <3> QED
      BY <3>4, <3>5
  <2> QED
    BY <2>5, <2>6
<1>2. Good(n)
  BY <1>1
<1> QED
  BY <1>2

LEMMA FirstBest ==
  ASSUME NEW n \in Nat, NEW P \in SUBSET (0 .. n), P # {}, NEW v \in [P -> Int]
  PROVE  \E k \in P : \A j \in P : v[j] <= v[k] /\ (j < k => v[j] < v[k])
<1>1. PICK m \in P : \A j \in P : v[j] <= v[m]
  BY HasMaximum
<1>2. PICK T : T = {k \in P : v[k] = v[m]}
  OBVIOUS
<1>3. T \in SUBSET Nat /\ T # {}
  <2>1. m \in T /\ T \subseteq P
    BY <1>2
  <2>2. P \subseteq Nat
    OBVIOUS
  <2> QED
    BY <2>1, <2>2
<1>4. PICK k \in T : \A j \in T : k <= j
  BY <1>3, LeastNatural
<1>5. k \in P /\ v[k] = v[m] /\ v[k] \in Int
  BY <1>2
<1>6. ASSUME NEW j \in P PROVE v[j] <= v[k] /\ (j < k => v[j] < v[k])
  <2>1. v[j] \in Int /\ v[j] <= v[k] /\ j \in Nat /\ k \in Nat
    BY <1>1, <1>5
  <2>2. v[j] = v[k] => k <= j
    BY <1>2, <1>4, <1>5
  <2> QED
    BY <1>5, <2>1, <2>2
<1> QED
  BY <1>5, <1>6

-----------------------------------------------------------------------------
\* Values of planes.
LEMMA PomdpType == ASSUME problem \in Problems PROVE pomdp \in Pomdp
BY PomdpsAssumption DEF pomdp

LEMMA TableIs == ASSUME NEW f PROVE Table(f) = f
BY DEF Table

\* The initial bounds.
LEMMA Denominators ==
  /\ Den \in Nat \ {0} /\ Den * Den \in Nat \ {0} /\ Den * Den * Den \in Nat \ {0}
<1>1. Den \in Nat \ {0}
  BY PomdpAssumption
<1>2. \A x, y \in Nat \ {0} : x * y \in Nat \ {0}
  OBVIOUS
<1> QED
  BY <1>1, <1>2

LEMMA PomdpFields ==
  ASSUME NEW n \in Problems, NEW p, p = Pomdps[n]
  PROVE  /\ p.initial \in Belief /\ p.reachable \subseteq Belief
         /\ p.discount \in Nat
         /\ \A a \in Action, i \in State : p.reward[a][i] \in Int
         /\ \A a \in Action : p.reward[a] \in Vector
         /\ \A a \in Action, i, j \in State : p.trans[a][i][j] \in Nat
         /\ \A a \in Action, j \in State, o \in Observation : p.obs[a][j][o] \in Nat
<1>1. p \in Pomdp
  BY PomdpsAssumption
<1>2. \A x \in 0 .. Den : x \in Nat
  OBVIOUS
<1>3. p.initial \in Belief /\ p.reachable \subseteq Belief /\ p.discount \in 0 .. Den
  BY <1>1 DEF Pomdp
<1>4. p.reward \in [Action -> Vector]
  BY <1>1 DEF Pomdp
<1>5. p.trans \in [Action -> [State -> [State -> 0 .. Den]]]
  BY <1>1 DEF Pomdp
<1>6. p.obs \in [Action -> [State -> [Observation -> 0 .. Den]]]
  BY <1>1 DEF Pomdp
<1> QED
  BY <1>2, <1>3, <1>4, <1>5, <1>6 DEF Vector

\* Sums over the states.
LEMMA Finite == IsFiniteSet(State) /\ IsFiniteSet(Observation)
BY PomdpAssumption

LEMMA BeliefType ==
  ASSUME NEW b \in Belief
  PROVE  /\ b \in [State -> Nat] /\ b \in [State -> Int]
         /\ Support(b) # {} /\ Support(b) \subseteq State
         /\ First(b) \in Support(b) /\ b[First(b)] = 1
         /\ \A i \in Support(b) : First(b) <= i
<1>1. b \in [State -> Nat] /\ Support(b) # {} /\ b[First(b)] = 1
  BY PomdpAssumption
<1>2. Support(b) \in SUBSET Nat /\ Support(b) \subseteq State
  BY PomdpAssumption DEF Support
<1>3. \E i \in Support(b) : \A j \in Support(b) : i <= j
  BY <1>1, <1>2, LeastNatural
<1>4. First(b) \in Support(b) /\ \A i \in Support(b) : First(b) <= i
  BY <1>3 DEF First, Min
<1> QED
  BY <1>1, <1>2, <1>4

LEMMA InnerType ==
  ASSUME NEW v \in Vector, NEW b \in [State -> Int]
  PROVE  Inner(v, b) \in Int
<1>1. \A i \in State : v[i] \in Int /\ b[i] \in Int
  BY DEF Vector
<1>2. [i \in State |-> b[i] * v[i]] \in [State -> Int]
  BY <1>1, TimesInt
<1> QED
  BY <1>2, Finite, TotalType DEF Inner

\* The difference of two vectors.
Minus(v, w) == [i \in State |-> v[i] - w[i]]

LEMMA InnerMinus ==
  ASSUME NEW v \in Vector, NEW w \in Vector, NEW b \in Belief
  PROVE  Minus(v, w) \in Vector /\ Inner(Minus(v, w), b) = Inner(v, b) - Inner(w, b)
<1>1. \A i \in State : v[i] \in Int /\ w[i] \in Int /\ b[i] \in Int
  BY BeliefType DEF Vector
<1>2. Minus(v, w) \in Vector
  BY <1>1 DEF Minus, Vector
<1> DEFINE f == [i \in State |-> b[i] * v[i]]
           g == [i \in State |-> b[i] * w[i]]
           h == [i \in State |-> b[i] * Minus(v, w)[i]]
<1>3. f \in [State -> Int] /\ g \in [State -> Int] /\ h \in [State -> Int]
  <2>1. \A i \in State : Minus(v, w)[i] \in Int
    BY <1>2 DEF Vector
  <2> QED
    BY <1>1, <2>1, TimesInt
<1>4. ASSUME NEW i \in State PROVE h[i] = f[i] - g[i]
  <2>1. b[i] * (v[i] - w[i]) = b[i] * v[i] - b[i] * w[i]
    BY <1>1
  <2> QED
    BY <2>1 DEF Minus
<1>5. Total(h) = Total(f) - Total(g)
  <2> HIDE DEF f, g, h
  <2> QED
    BY <1>3, <1>4, Finite, TotalDifference
<1> QED
  BY <1>2, <1>5 DEF Inner

\* What the vector w is worth after action a, for each observation.
Observed(p, a, w, i, o) == Total([j \in State |-> p.trans[a][i][j] * p.obs[a][j][o] * w[j]])

LEMMA ObservedType ==
  ASSUME NEW n \in Problems, NEW p, p = Pomdps[n], NEW a \in Action, NEW w \in Vector,
         NEW i \in State, NEW o \in Observation
  PROVE  /\ [j \in State |-> p.trans[a][i][j] * p.obs[a][j][o] * w[j]] \in [State -> Int]
         /\ Observed(p, a, w, i, o) \in Int
<1>1. \A j \in State : p.trans[a][i][j] \in Int /\ p.obs[a][j][o] \in Int /\ w[j] \in Int
  BY PomdpFields DEF Vector
<1>2. [j \in State |-> p.trans[a][i][j] * p.obs[a][j][o] * w[j]] \in [State -> Int]
  BY <1>1, TimesInt
<1> QED
  BY <1>2, Finite, TotalType DEF Observed

\* Backups.
LEMMA PushedType ==
  ASSUME NEW n \in Problems, NEW p, p = Pomdps[n], NEW b \in Belief, NEW a \in Action,
         NEW o \in Observation
  PROVE  /\ Pushed(b, p.trans, p.obs, a, o) \in [State -> Nat]
         /\ \A j \in State :
              /\ [i \in State |-> b[i] * p.trans[a][i][j]] \in [State -> Int]
              /\ Pushed(b, p.trans, p.obs, a, o)[j] =
                   p.obs[a][j][o] * Total([i \in State |-> b[i] * p.trans[a][i][j]])
<1>1. Pushed(b, p.trans, p.obs, a, o) =
        [j \in State |-> p.obs[a][j][o] * Total([i \in State |-> b[i] * p.trans[a][i][j]])]
  BY TableIs DEF Pushed
<1>2. ASSUME NEW j \in State
      PROVE  /\ [i \in State |-> b[i] * p.trans[a][i][j]] \in [State -> Int]
             /\ p.obs[a][j][o] * Total([i \in State |-> b[i] * p.trans[a][i][j]]) \in Nat
  <2>1. PICK f : f = [i \in State |-> b[i] * p.trans[a][i][j]]
    OBVIOUS
  <2>2. \A i \in State : f[i] \in Nat
    BY <2>1, BeliefType, PomdpFields, TimesNat
  <2>3. f \in [State -> Int] /\ \A i \in State : 0 <= f[i]
    BY <2>1, <2>2
  <2>4. PICK z : z = [i \in State |-> 0]
    OBVIOUS
  <2>5. z \in [State -> Int] /\ \A i \in State : z[i] = 0
    BY <2>4
  <2>6. Total(z) = 0
    BY <2>5, Finite, TotalZero
  <2>7. Total(z) <= Total(f)
    <3>1. \A i \in State : z[i] <= f[i]
      BY <2>3, <2>5
    <3> QED
      BY <2>3, <2>5, <3>1, Finite, TotalMonotone
  <2>8. Total(f) \in Int
    BY <2>3, Finite, TotalType
  <2>9. Total(f) \in Nat
    BY <2>6, <2>7, <2>8
  <2>10. p.obs[a][j][o] * Total(f) \in Nat
    BY <2>9, PomdpFields, TimesNat
  <2> QED
    BY <2>1, <2>3, <2>10
<1> QED
  BY <1>1, <1>2

\* A vector earns at the pushed weights what follows from each state of b.
LEMMA PushedValue ==
  ASSUME NEW n \in Problems, NEW p, p = Pomdps[n], NEW b \in Belief, NEW a \in Action,
         NEW o \in Observation, NEW w \in Vector
  PROVE  /\ [i \in State |-> b[i] * Observed(p, a, w, i, o)] \in [State -> Int]
         /\ Inner(w, Pushed(b, p.trans, p.obs, a, o)) =
              Total([i \in State |-> b[i] * Observed(p, a, w, i, o)])
<1> DEFINE v == Pushed(b, p.trans, p.obs, a, o)
           M == [i \in State |-> [j \in State |->
                   b[i] * (p.trans[a][i][j] * p.obs[a][j][o] * w[j])]]
           rows == [i \in State |-> b[i] * Observed(p, a, w, i, o)]
           cols == [j \in State |-> v[j] * w[j]]
<1>1. \A i, j \in State : /\ b[i] \in Int /\ p.trans[a][i][j] \in Int
                          /\ p.obs[a][j][o] \in Int /\ w[j] \in Int
  BY BeliefType, PomdpFields DEF Vector
<1>2. M \in [State -> [State -> Int]]
  BY <1>1, TimesInt
<1>3. rows \in [State -> Int]
  BY <1>1, ObservedType, TimesInt
<1>4. ASSUME NEW i \in State PROVE Total(M[i]) = rows[i]
  <2>1. PICK f \in [State -> Int] :
          f = [j \in State |-> p.trans[a][i][j] * p.obs[a][j][o] * w[j]]
    BY <1>1, TimesInt
  <2>2. PICK g \in [State -> Int] : g = M[i]
    BY <1>2
  <2>3. PICK k \in Int : k = b[i]
    BY <1>1
  <2>4. \A j \in State : g[j] = k * f[j]
    BY <2>1, <2>2, <2>3
  <2>5. Observed(p, a, w, i, o) = Total(f)
    BY <2>1 DEF Observed
  <2>6. rows[i] = k * Total(f)
    BY <2>3, <2>5
  <2> HIDE DEF M, rows
  <2>7. Total(g) = k * Total(f)
    BY <2>4, Finite, TotalScaled
  <2> QED
    BY <2>2, <2>6, <2>7, Zenon
<1>5. ASSUME NEW j \in State PROVE Total([i \in State |-> M[i][j]]) = cols[j]
  <2>1. PICK f \in [State -> Int] : f = [i \in State |-> b[i] * p.trans[a][i][j]]
    BY <1>1, TimesInt
  <2>2. PICK g \in [State -> Int] : g = [i \in State |-> M[i][j]]
    <3> QED
      BY <1>2
  <2>3. PICK e \in Int, x \in Int : e = p.obs[a][j][o] /\ x = w[j]
    BY <1>1
  <2>4. \A i \in State : g[i] = (e * x) * f[i]
    <3> SUFFICES ASSUME NEW i \in State PROVE g[i] = (e * x) * f[i]
      OBVIOUS
    <3>1. PICK bi \in Int, t \in Int : bi = b[i] /\ t = p.trans[a][i][j]
      BY <1>1
    <3>2. g[i] = bi * (t * e * x) /\ f[i] = bi * t
      BY <2>1, <2>2, <2>3, <3>1
    <3>3. bi * (t * e * x) = (e * x) * (bi * t)
      OBVIOUS
    <3> QED
      BY <3>2, <3>3
  <2>5. v[j] = e * Total(f)
    BY <2>1, <2>3, PushedType
  <2>6. cols[j] = (e * Total(f)) * x
    BY <2>3, <2>5
  <2> HIDE DEF M, cols
  <2>7. e * x \in Int
    BY TimesInt
  <2>8. Total(g) = (e * x) * Total(f)
    BY <2>4, <2>7, Finite, TotalScaled
  <2>9. PICK S \in Int : S = Total(f)
    BY Finite, TotalType
  <2>10. (e * x) * S = (e * S) * x
    OBVIOUS
  <2> QED
    BY <2>2, <2>6, <2>8, <2>9, <2>10
<1>6. Total([i \in State |-> Total(M[i])]) =
        Total([j \in State |-> Total([i \in State |-> M[i][j]])])
  <2> HIDE DEF M
  <2> QED
    BY <1>2, Finite, TotalSwap
<1>7. [i \in State |-> Total(M[i])] = rows
  <2> HIDE DEF M
  <2> QED
    BY <1>4 DEF rows
<1>8. [j \in State |-> Total([i \in State |-> M[i][j]])] = cols
  <2> HIDE DEF M
  <2> QED
    BY <1>5 DEF cols
<1>9. Total(rows) = Total(cols)
  BY <1>6, <1>7, <1>8, Zenon
<1>10. Inner(w, v) = Total(cols)
  BY DEF Inner
<1> QED
  BY <1>3, <1>9, <1>10

\* Pushed weights are those of the next belief, by the factor that its first
\* state shows; they earn as much.
LEMMA PushedToNext ==
  ASSUME NEW n \in Problems, NEW p, p = Pomdps[n], NEW b \in p.reachable, NEW a \in Action,
         NEW o \in Observation, NEW w \in Vector,
         NEW c, c = p.next[b][a][o], NEW v, v = Pushed(b, p.trans, p.obs, a, o)
  PROVE  /\ c = NoBelief => Inner(w, v) = 0
         /\ c # NoBelief => /\ c \in p.reachable /\ v[First(c)] \in Nat
                            /\ Inner(w, v) = v[First(c)] * Inner(w, c)
<1>1. b \in Belief /\ p.reachable \subseteq Belief
  BY PomdpFields
<1>2. v \in [State -> Nat]
  BY <1>1, PushedType
<1>3. IF \A i \in State : v[i] = 0 THEN c = NoBelief ELSE c # NoBelief /\ SameBelief(v, c)
  BY NextAssumption
<1>4. c \in p.reachable \cup {NoBelief}
  BY ReachableAssumption DEF Closed
<1>5. CASE c = NoBelief
  <2>1. \A i \in State : v[i] = 0
    BY <1>3, <1>5
  <2>2. PICK f : f = [i \in State |-> v[i] * w[i]]
    OBVIOUS
  <2>3. \A i \in State : w[i] \in Int
    BY DEF Vector
  <2>4. f \in [State -> Int] /\ \A i \in State : f[i] = 0
    BY <2>1, <2>2, <2>3
  <2>5. Total(f) = 0
    BY <2>4, Finite, TotalZero
  <2>6. Inner(w, v) = 0
    BY <2>2, <2>5 DEF Inner
  <2> QED
    BY <1>2, <1>5, <2>6
<1>6. CASE c # NoBelief
  <2>1. c \in p.reachable /\ c \in Belief
    BY <1>1, <1>4, <1>6
  <2>2. First(c) \in State /\ c[First(c)] = 1 /\ c \in [State -> Int] /\ w \in [State -> Int]
    BY <2>1, BeliefType DEF Vector
  <2>3. PICK k \in Int : k = v[First(c)] /\ k \in Nat
    BY <1>2, <2>2
  <2>4. ASSUME NEW j \in State PROVE v[j] = k * c[j]
    <3>1. v[j] * c[First(c)] = v[First(c)] * c[j]
      BY <1>3, <1>6, <2>2 DEF SameBelief
    <3>2. v[j] \in Nat
      BY <1>2
    <3> QED
      BY <2>2, <2>3, <3>1, <3>2
  <2>5. PICK f \in [State -> Int] : f = [i \in State |-> c[i] * w[i]]
    BY <2>2, TimesInt
  <2>6. PICK h \in [State -> Int] : h = [i \in State |-> v[i] * w[i]]
    <3>1. \A i \in State : v[i] \in Int
      BY <1>2
    <3> QED
      BY <2>2, <3>1, TimesInt
  <2>7. \A i \in State : h[i] = k * f[i]
    <3> SUFFICES ASSUME NEW i \in State PROVE h[i] = k * f[i]
      OBVIOUS
    <3>1. PICK ci \in Int, wi \in Int : ci = c[i] /\ wi = w[i]
      BY <2>2
    <3>2. h[i] = (k * ci) * wi /\ f[i] = ci * wi
      BY <2>4, <2>5, <2>6, <3>1
    <3>3. (k * ci) * wi = k * (ci * wi)
      OBVIOUS
    <3> QED
      BY <3>2, <3>3
  <2>8. Total(h) = k * Total(f)
    BY <2>7, Finite, TotalScaled
  <2>9. Inner(w, v) = k * Inner(w, c)
    BY <2>5, <2>6, <2>8 DEF Inner
  <2> QED
    BY <1>2, <1>6, <2>1, <2>3, <2>9
<1> QED
  BY <1>5, <1>6

LEMMA TimesPositive == \A x, y \in Nat : x > 0 /\ y > 0 => x * y > 0
OBVIOUS

LEMMA TimesZero == \A x, y \in Nat : x * y # 0 => x > 0 /\ y > 0
OBVIOUS

\* A sum of natural numbers is one, and positive if one of them is.
LEMMA TotalPositive ==
  ASSUME NEW D, IsFiniteSet(D), NEW f \in [D -> Nat]
  PROVE  /\ Total(f) \in Nat
         /\ (\A x \in D : f[x] = 0) => Total(f) = 0
         /\ \A x \in D : f[x] > 0 => Total(f) > 0
<1>1. f \in [D -> Int]
  OBVIOUS
<1>2. (\A x \in D : f[x] = 0) => Total(f) = 0
  BY <1>1, TotalZero
<1>3. Total(f) \in Int
  BY <1>1, TotalType
<1>4. ASSUME NEW m \in Nat, NEW x \in D, m <= f[x]
      PROVE  m <= Total(f)
  <2>0. PICK z : z = [y \in D |-> IF y = x THEN m ELSE 0]
    BY Zenon
  <2>5. z \in [D -> Int]
    BY <2>0
  <2>1. z = [y \in D |-> IF y = x THEN m ELSE 0]
    BY <2>0
  <2>2. Total(z) = z[x]
    <3>1. \A y \in D \ {x} : z[y] = 0
      BY <2>1
    <3> QED
      BY <2>5, <3>1, TotalSingle
  <2>3. z[x] = m /\ \A y \in D : z[y] <= f[y]
    BY <1>4, <2>1
  <2>4. Total(z) <= Total(f)
    BY <1>1, <2>3, <2>5, TotalMonotone
  <2> QED
    BY <2>2, <2>3, <2>4
<1>5. 0 <= Total(f)
  <2>1. CASE D = {}
    BY <1>2, <2>1
  <2>2. CASE D # {}
    <3>1. PICK x \in D : TRUE
      BY <2>2
    <3>2. 0 <= f[x]
      OBVIOUS
    <3> QED
      BY <1>4, <3>2
  <2> QED
    BY <2>1, <2>2
<1>6. ASSUME NEW x \in D, f[x] > 0 PROVE Total(f) > 0
  <2>1. 1 <= f[x]
    BY <1>6
  <2>2. 1 <= Total(f)
    BY <1>4, <2>1
  <2> QED
    BY <1>3, <2>2
<1> QED
  BY <1>2, <1>3, <1>5, <1>6

LEMMA InnerMonotone ==
  ASSUME NEW u \in Vector, NEW v \in Vector, NEW b \in Belief,
         \A i \in State : u[i] <= v[i]
  PROVE  Inner(u, b) \in Int /\ Inner(v, b) \in Int /\ Inner(u, b) <= Inner(v, b)
<1> DEFINE f == [i \in State |-> b[i] * u[i]]
           g == [i \in State |-> b[i] * v[i]]
<1>1. ASSUME NEW i \in State
      PROVE  f[i] \in Int /\ g[i] \in Int /\ f[i] <= g[i]
  <2>1. PICK w \in Nat : w = b[i]
    BY PomdpAssumption
  <2>2. PICK x \in Int : x = u[i]
    BY DEF Vector
  <2>3. PICK y \in Int : y = v[i]
    BY DEF Vector
  <2>4. x <= y
    BY <2>2, <2>3
  <2>5. w * x \in Int /\ w * y \in Int /\ w * x <= w * y
    BY <2>4
  <2> QED
    BY <2>1, <2>2, <2>3, <2>5
<1>2. f \in [State -> Int] /\ g \in [State -> Int] /\ IsFiniteSet(State)
  BY <1>1, PomdpAssumption
<1> HIDE DEF f, g
<1>3. Total(f) \in Int /\ Total(g) \in Int /\ Total(f) <= Total(g)
  BY <1>1, <1>2, TotalMonotone, TotalType
<1> QED
  BY <1>3 DEF Inner, f, g

LEMMA ValueType ==
  ASSUME plane \in [DOMAIN plane -> Plane], NEW p \in DOMAIN plane, NEW b \in Belief
  PROVE  plane[p] \in Plane /\ plane[p].alpha \in Vector /\ ValueAt(p, b) \in Int
<1>1. plane[p] \in Plane /\ plane[p].alpha \in Vector
  BY DEF Plane
<1>2. PICK u \in Vector : u = plane[p].alpha
  BY <1>1
<1>3. \A i \in State : u[i] <= u[i]
  BY DEF Vector
<1> QED
  BY <1>1, <1>2, <1>3, InnerMonotone DEF ValueAt

-----------------------------------------------------------------------------
\* The planes a search finds.
LEMMA BestOfProperties ==
  ASSUME plane \in [DOMAIN plane -> Plane], NEW b \in Belief,
         NEW list \in Seq(DOMAIN plane), NEW P \in SUBSET DOMAIN list, P # {}
  PROVE  \E k \in P : /\ BestOf(list, P, b) = list[k] /\ list[k] \in DOMAIN plane
                      /\ \A j \in P : ValueAt(list[j], b) <= ValueAt(list[k], b)
<1>1. /\ Len(list) \in Nat /\ P \in SUBSET (0 .. Len(list))
      /\ \A k \in P : list[k] \in DOMAIN plane
  OBVIOUS
<1> DEFINE v == [k \in P |-> ValueAt(list[k], b)]
<1>2. v \in [P -> Int]
  BY <1>1, ValueType
<1> HIDE DEF v
<1>3. \E k \in P : \A j \in P : v[j] <= v[k] /\ (j < k => v[j] < v[k])
  BY <1>1, <1>2, FirstBest
<1>4. \A k \in P : v[k] = ValueAt(list[k], b)
  BY DEF v
<1> DEFINE Highest(k) == \A j \in P : /\ ValueAt(list[j], b) <= ValueAt(list[k], b)
                                      /\ j < k => ValueAt(list[j], b) < ValueAt(list[k], b)
<1>5. \E k \in P : Highest(k)
  BY <1>3, <1>4
<1>6. PICK k : k = CHOOSE l \in P : Highest(l)
  BY Zenon
<1>7. k \in P /\ Highest(k)
  <2> HIDE DEF Highest
  <2> QED
    BY <1>5, <1>6
<1>8. BestOf(list, P, b) = list[k]
  BY <1>6 DEF BestOf
<1> QED
  BY <1>1, <1>7, <1>8

\* A plane that may be used at b is searched for b, and only such as are
\* allocated.
LEMMA PlanesToCheckProperties ==
  ASSUME TypeOK, ListsAgree, NEW b \in Belief
  PROVE  /\ PlanesToCheck(b) \in Seq(DOMAIN plane)
         /\ \A p \in DOMAIN plane :
              Applicable(p, b) => \E k \in DOMAIN PlanesToCheck(b) : PlanesToCheck(b)[k] = p
<1>1. planes \in Seq(DOMAIN plane) /\ ToSet(planes) = DOMAIN plane
  BY DEF TypeOK, ListsAgree
<1>2. CASE ~config.supportList
  <2>1. PlanesToCheck(b) = planes
    BY <1>2 DEF PlanesToCheck
  <2> QED
    BY <1>1, <2>1 DEF ToSet
<1>3. CASE config.supportList
  <2>1. Support(b) # {} /\ Support(b) \in SUBSET Nat /\ Support(b) \subseteq State
    BY PomdpAssumption DEF Support
  <2>2. Min(Support(b)) \in Support(b)
    <3>1. \E i \in Support(b) : \A j \in Support(b) : i <= j
      BY <2>1, LeastNatural
    <3> QED
      BY <3>1 DEF Min
  <2>3. PICK i \in State : i = Min(Support(b)) /\ i \in Support(b)
    BY <2>1, <2>2
  <2>4. PlanesToCheck(b) = support[i]
    BY <1>3, <2>3 DEF PlanesToCheck, First
  <2>5. support[i] \in Seq(DOMAIN plane)
    BY <2>3 DEF TypeOK
  <2>6. ToSet(support[i]) = {p \in DOMAIN plane : i \in plane[p].mask}
    BY <1>3, <2>3 DEF ListsAgree
  <2>7. config.masking
    BY <1>3, MaxPlanesAssumption DEF config, Config, TypeOK
  <2>8. ASSUME NEW p \in DOMAIN plane, Applicable(p, b)
        PROVE  p \in ToSet(support[i])
    BY <2>3, <2>6, <2>7, <2>8 DEF Applicable
  <2>9. ASSUME NEW p \in ToSet(support[i])
        PROVE  \E k \in DOMAIN support[i] : support[i][k] = p
    BY DEF ToSet
  <2> QED
    BY <2>4, <2>5, <2>8, <2>9
<1> QED
  BY <1>2, <1>3

\* Where there is a plane, BestPlane finds one that is worth as much as any.
LEMMA BestPlaneProperties ==
  ASSUME TypeOK, ListsAgree, NEW b \in Belief,
         \E p \in DOMAIN plane : Applicable(p, b)
  PROVE  /\ BestPlane(b) \in DOMAIN plane
         /\ Applicable(BestPlane(b), b)
         /\ \A p \in DOMAIN plane :
              Applicable(p, b) => ValueAt(p, b) <= ValueAt(BestPlane(b), b)
<1>1. PICK list \in Seq(DOMAIN plane) : list = PlanesToCheck(b)
  BY PlanesToCheckProperties
<1>2. \A p \in DOMAIN plane : Applicable(p, b) => \E k \in DOMAIN list : list[k] = p
  BY <1>1, PlanesToCheckProperties
<1>3. PICK P \in SUBSET DOMAIN list : P = {k \in DOMAIN list : Applicable(list[k], b)}
  OBVIOUS
<1>4. P # {}
  BY <1>2, <1>3
<1>5. BestPlane(b) = BestOf(list, P, b)
  BY <1>1, <1>3 DEF BestPlane
<1>6. plane \in [DOMAIN plane -> Plane]
  BY DEF TypeOK
<1>7. PICK k \in P : /\ BestOf(list, P, b) = list[k] /\ list[k] \in DOMAIN plane
                     /\ \A j \in P : ValueAt(list[j], b) <= ValueAt(list[k], b)
  BY <1>4, <1>6, BestOfProperties
<1>8. ASSUME NEW p \in DOMAIN plane, Applicable(p, b)
      PROVE  ValueAt(p, b) <= ValueAt(list[k], b)
  <2>1. PICK j \in P : list[j] = p
    BY <1>2, <1>3, <1>8
  <2> QED
    BY <1>7, <2>1
<1> QED
  BY <1>3, <1>5, <1>7, <1>8

\* PlaneForNode finds an allocated plane, from the node's own on if there is a
\* cache.
LEMMA PlaneForNodeType ==
  ASSUME TypeOK, ListsAgree, NEW b \in Belief,
         \E p \in DOMAIN plane : Applicable(p, b),
         config.cache => bestPlane[b] \in DOMAIN plane /\ Applicable(bestPlane[b], b)
  PROVE  PlaneForNode(b) \in DOMAIN plane /\ Applicable(PlaneForNode(b), b)
<1>1. CASE ~config.cache
  BY <1>1, BestPlaneProperties DEF PlaneForNode
<1>2. CASE config.cache
  <2>1. PICK list : list = <<bestPlane[b]>> \o PlanesToCheck(b)
    BY Zenon
  <2>2. /\ list \in Seq(DOMAIN plane) /\ 1 \in DOMAIN list
    <3>1. PlanesToCheck(b) \in Seq(DOMAIN plane)
      BY PlanesToCheckProperties
    <3>2. <<bestPlane[b]>> \in Seq(DOMAIN plane) /\ Len(<<bestPlane[b]>>) = 1
      BY <1>2
    <3>3. list \in Seq(DOMAIN plane) /\ Len(list) = 1 + Len(PlanesToCheck(b))
      BY <2>1, <3>1, <3>2, ConcatProperties
    <3>4. Len(PlanesToCheck(b)) \in Nat
      BY <3>1
    <3> QED
      BY <3>3, <3>4
  <2>3. PICK P \in SUBSET DOMAIN list :
          P = {k \in DOMAIN list : k = 1 \/ (~IsOld(list[k], b) /\ Applicable(list[k], b))}
    OBVIOUS
  <2>4. P # {}
    BY <2>2, <2>3
  <2>5. PlaneForNode(b) = BestOf(list, P, b)
    BY <1>2, <2>1, <2>3 DEF PlaneForNode
  <2>6. plane \in [DOMAIN plane -> Plane]
    BY DEF TypeOK
  <2>7. PICK k \in P : BestOf(list, P, b) = list[k] /\ list[k] \in DOMAIN plane
    BY <2>2, <2>4, <2>6, BestOfProperties
  <2>8. Applicable(list[k], b)
    <3>1. list[1] = bestPlane[b]
      BY <2>1, ConcatProperties, <1>2, PlanesToCheckProperties
    <3> QED
      BY <1>2, <2>3, <3>1
  <2> QED
    BY <2>5, <2>7, <2>8
<1> QED
  BY <1>1, <1>2

-----------------------------------------------------------------------------
\* Beliefs that can be reached, and the planes for them.
LEMMA ReachableClosed ==
  ASSUME problem \in Problems
  PROVE  /\ pomdp.reachable \subseteq Belief
         /\ pomdp.initial \in pomdp.reachable
         /\ \A b \in pomdp.reachable : Successors(b) \subseteq pomdp.reachable
<1>1. pomdp.reachable \subseteq Belief
  BY PomdpType DEF Pomdp
<1>2. pomdp.initial \in pomdp.reachable /\ Closed(pomdp, pomdp.reachable)
  BY ReachableAssumption DEF pomdp
<1>3. ASSUME NEW b \in pomdp.reachable, NEW a \in Action, NEW o \in Observation
      PROVE  pomdp.next[b][a][o] \in pomdp.reachable \cup {NoBelief}
  BY <1>2 DEF Closed
<1> QED
  BY <1>1, <1>2, <1>3 DEF Successors, SuccessorsIn

\* What is seen from a belief is seen from one with more states too, and leads
\* to a belief with more states.
LEMMA MoreStates ==
  ASSUME problem \in Problems, NEW b \in pomdp.reachable, NEW c \in pomdp.reachable,
         Support(c) \subseteq Support(b), NEW a \in Action, NEW o \in Observation,
         pomdp.next[c][a][o] # NoBelief
  PROVE  /\ pomdp.next[b][a][o] # NoBelief
         /\ Support(pomdp.next[c][a][o]) \subseteq Support(pomdp.next[b][a][o])
<1>1. ASSUME NEW d \in pomdp.reachable
      PROVE  /\ \A j \in State : Pushed(d, pomdp.trans, pomdp.obs, a, o)[j] \in Nat
             /\ pomdp.next[d][a][o] = NoBelief <=>
                  \A j \in State : Pushed(d, pomdp.trans, pomdp.obs, a, o)[j] = 0
             /\ pomdp.next[d][a][o] # NoBelief =>
                  Support(pomdp.next[d][a][o]) =
                    {j \in State : Pushed(d, pomdp.trans, pomdp.obs, a, o)[j] > 0}
  <2>1. PICK v : v = Pushed(d, pomdp.trans, pomdp.obs, a, o)
    BY Zenon
  <2>2. PICK y : y = pomdp.next[d][a][o]
    BY Zenon
  <2>3. v \in [State -> Nat] /\ y \in pomdp.reachable \cup {NoBelief}
    BY <2>1, <2>2, ReachableAssumption, PomdpFields, PushedType DEF pomdp, Closed
  <2>4. IF \A j \in State : v[j] = 0 THEN y = NoBelief ELSE y # NoBelief /\ SameBelief(v, y)
    BY <2>1, <2>2, NextAssumption DEF pomdp
  <2>5. ASSUME y # NoBelief PROVE Support(y) = {j \in State : v[j] > 0}
    <3>1. y \in Belief /\ NoBelief \notin Belief
      BY <2>3, <2>5, PomdpFields, PomdpAssumption DEF pomdp
    <3>2. y \in [State -> Nat] /\ SameBelief(v, y) /\ First(y) \in State /\ y[First(y)] = 1
      BY <2>4, <2>5, <3>1, BeliefType
    <3>3. ASSUME NEW j \in State PROVE v[j] > 0 <=> y[j] > 0
      <4>1. v[j] * y[First(y)] = v[First(y)] * y[j]
        BY <3>2 DEF SameBelief
      <4>2. PICK k \in Nat : k = v[First(y)]
        BY <2>3, <3>2
      <4>3. v[j] \in Nat /\ y[j] \in Nat /\ v[j] = k * y[j]
        BY <2>3, <3>2, <4>1, <4>2
      <4>4. k # 0
        <5>1. PICK i \in State : v[i] > 0
          BY <3>2 DEF SameBelief
        <5>2. v[i] * y[First(y)] = v[First(y)] * y[i]
          BY <3>2 DEF SameBelief
        <5>3. v[i] \in Nat /\ y[i] \in Nat /\ v[i] = k * y[i]
          BY <2>3, <3>2, <4>2, <5>2
        <5> QED
          BY <5>1, <5>3
      <4>5. y[j] > 0 => k * y[j] > 0
        BY <4>2, <4>3, <4>4, TimesPositive
      <4> QED
        BY <4>3, <4>5
    <3> QED
      BY <3>2, <3>3 DEF Support
  <2>6. \A j \in State : v[j] \in Nat
    BY <2>3
  <2>7. y = NoBelief => \A j \in State : v[j] = 0
    BY <2>4
  <2> QED
    BY <2>1, <2>2, <2>4, <2>5, <2>6, <2>7
<1>2. ASSUME NEW j \in State, Pushed(c, pomdp.trans, pomdp.obs, a, o)[j] > 0
      PROVE  Pushed(b, pomdp.trans, pomdp.obs, a, o)[j] > 0
  <2>1. b \in Belief /\ c \in Belief
    BY PomdpFields DEF pomdp
  <2>2. PICK e \in Nat, x \in [State -> Nat] :
          e = pomdp.obs[a][j][o] /\ x = [i \in State |-> pomdp.trans[a][i][j]]
    BY PomdpFields DEF pomdp
  <2> DEFINE from(d) == [i \in State |-> d[i] * x[i]]
  <2>3. ASSUME NEW d \in Belief
        PROVE  /\ from(d) \in [State -> Nat]
               /\ Pushed(d, pomdp.trans, pomdp.obs, a, o)[j] = e * Total(from(d))
    <3>1. \A i \in State : d[i] * x[i] \in Nat
      BY BeliefType, TimesNat
    <3>2. from(d) = [i \in State |-> d[i] * pomdp.trans[a][i][j]]
      BY <2>2
    <3> QED
      BY <2>2, <3>1, <3>2, PushedType DEF pomdp
  <2>4. /\ from(b) \in [State -> Nat] /\ from(c) \in [State -> Nat]
        /\ Pushed(b, pomdp.trans, pomdp.obs, a, o)[j] = e * Total(from(b))
        /\ Pushed(c, pomdp.trans, pomdp.obs, a, o)[j] = e * Total(from(c))
    BY <2>1, <2>3
  <2>5. /\ Total(from(b)) \in Nat /\ Total(from(c)) \in Nat
        /\ (\A i \in State : from(c)[i] = 0) => Total(from(c)) = 0
        /\ \A i \in State : from(b)[i] > 0 => Total(from(b)) > 0
    <3> HIDE DEF from
    <3> QED
      BY <2>4, Finite, TotalPositive
  <2>6. e > 0 /\ Total(from(c)) > 0
    BY <1>2, <2>4, <2>5, TimesZero
  <2>7. PICK i \in State : from(c)[i] # 0
    BY <2>5, <2>6
  <2>8. from(b)[i] > 0
    <3>1. b[i] \in Nat /\ c[i] \in Nat /\ x[i] \in Nat
      BY <2>1, BeliefType
    <3>2. c[i] * x[i] # 0
      BY <2>7
    <3>3. c[i] > 0 /\ x[i] > 0
      BY <3>1, <3>2, TimesZero
    <3>4. b[i] > 0
      BY <3>1, <3>3 DEF Support
    <3> QED
      BY <3>1, <3>3, <3>4, TimesPositive
  <2> QED
    BY <2>4, <2>5, <2>6, <2>8, TimesPositive
<1>3. /\ \A j \in State : Pushed(b, pomdp.trans, pomdp.obs, a, o)[j] \in Nat
      /\ \A j \in State : Pushed(c, pomdp.trans, pomdp.obs, a, o)[j] \in Nat
  BY <1>1
<1>4. PICK j \in State : Pushed(c, pomdp.trans, pomdp.obs, a, o)[j] > 0
  BY <1>1, <1>3
<1>5. pomdp.next[b][a][o] # NoBelief
  BY <1>1, <1>2, <1>4
<1> QED
  BY <1>1, <1>2, <1>5

\* Every belief that can be reached is covered by the planes: those that are
\* come from the initial one, and are closed under what may follow.
LEMMA InvCovers ==
  ASSUME Inv
  PROVE  EveryBeliefCovered
<1> DEFINE Covered == {b \in pomdp.reachable : \E p \in DOMAIN plane : Applicable(p, b)}
<1>1. /\ problem \in Problems /\ Coverage /\ Delivered
      /\ touched \subseteq pomdp.reachable /\ expanded \subseteq touched
  BY DEF Inv, TypeOK, Coverage
<1>2. ASSUME NEW p \in DOMAIN plane, Full(p)
      PROVE  EveryBeliefCovered
  <2>1. ASSUME NEW b \in pomdp.reachable PROVE Applicable(p, b)
    BY <1>2 DEF Full, Applicable, Support
  <2> QED
    BY <2>1 DEF EveryBeliefCovered
<1>3. CASE pc = "start" \/ ~config.extraPruning
  BY <1>1, <1>2, <1>3 DEF Coverage
<1>4. CASE ~(pc = "start") /\ \A p \in DOMAIN plane : ~Full(p)
  <2>1. ASSUME NEW b \in touched PROVE \E p \in DOMAIN plane : Applicable(p, b)
    BY <1>1 DEF Delivered, Delivers
  <2>2. pomdp.initial \in Covered
    BY <1>1, <1>4, <2>1 DEF Coverage
  <2>3. ASSUME NEW c \in Covered, NEW a \in Action, NEW o \in Observation,
               pomdp.next[c][a][o] # NoBelief
        PROVE  pomdp.next[c][a][o] \in Covered
    <3>1. PICK p \in DOMAIN plane : Applicable(p, c)
      OBVIOUS
    <3>2. PICK b \in expanded : plane[p].mask = Support(b)
      BY <1>1, <1>4 DEF Coverage
    <3>3. config.masking
      BY <1>4, <3>1 DEF Full
    <3>4. Support(c) \subseteq Support(b) /\ b \in pomdp.reachable
      BY <1>1, <3>1, <3>2, <3>3 DEF Applicable
    <3>5. /\ pomdp.next[b][a][o] # NoBelief
          /\ Support(pomdp.next[c][a][o]) \subseteq Support(pomdp.next[b][a][o])
      BY <1>1, <2>3, <3>4, MoreStates
    <3>6. pomdp.next[b][a][o] \in touched
      BY <1>1, <3>5 DEF Coverage, Successors, SuccessorsIn
    <3>7. PICK q \in DOMAIN plane : Applicable(q, pomdp.next[b][a][o])
      BY <2>1, <3>6
    <3>8. Applicable(q, pomdp.next[c][a][o])
      BY <3>5, <3>7 DEF Applicable
    <3>9. pomdp.next[c][a][o] \in pomdp.reachable
      BY <1>1, <2>3, ReachableClosed DEF Successors, SuccessorsIn
    <3> QED
      BY <3>8, <3>9
  <2>4. Covered = pomdp.reachable
    <3>1. Covered \in SUBSET pomdp.reachable
      OBVIOUS
    <3> HIDE DEF Covered
    <3>2. Closed(pomdp, Covered)
      BY <2>3 DEF Closed
    <3> QED
      BY <1>1, <2>2, <3>1, <3>2, ReachableAssumption DEF pomdp
  <2> QED
    BY <2>4 DEF EveryBeliefCovered
<1> QED
  BY <1>2, <1>3, <1>4

-----------------------------------------------------------------------------
\* The plane of a backup.
LEMMA TableProperties ==
  ASSUME NEW D, NEW S, NEW f \in [D -> S]
  PROVE  Table(f) \in [D -> S] /\ \A x \in D : Table(f)[x] = f[x]
<1>1. Table(f) = f
  BY DEF Table
<1> QED
  BY <1>1

LEMMA TouchedFindPlanes ==
  ASSUME Inv, NEW b \in touched
  PROVE  /\ PlaneForNode(b) \in DOMAIN plane /\ Applicable(PlaneForNode(b), b)
         /\ b \in Belief /\ b \in pomdp.reachable
<1>1. TypeOK /\ PointersAgree /\ ListsAgree /\ Coverage /\ Delivered
  BY DEF Inv
<1>2. b \in Belief /\ b \in pomdp.reachable
  BY <1>1 DEF TypeOK, Coverage
<1>3. \E p \in DOMAIN plane : Applicable(p, b)
  BY <1>1 DEF Delivered, Delivers
<1>4. config.cache => bestPlane[b] \in DOMAIN plane /\ Applicable(bestPlane[b], b)
  BY <1>1 DEF PointersAgree, Delivered, Delivers
<1> QED
  BY <1>1, <1>2, <1>3, <1>4, PlaneForNodeType

LEMMA ExpectedType ==
  ASSUME problem \in Problems, NEW a \in Action, NEW beta \in [Observation -> Vector],
         NEW i \in State
  PROVE  Expected(a, beta, i) \in Int
<1> DEFINE f == [o \in Observation |-> Observed(pomdp, a, beta[o], i, o)]
<1>1. f \in [Observation -> Int]
  BY ObservedType DEF pomdp
<1>2. Expected(a, beta, i) = Total(f)
  BY DEF Expected, Observed
<1> HIDE DEF f
<1> QED
  BY <1>1, <1>2, Finite, TotalType

\* A backup at node b: the vectors it goes on with are those of planes that may
\* be used at the successors, and where b has weight the new vector is at most
\* what may be expected of them.
LEMMA BackedUpType ==
  ASSUME Inv, NEW b \in expanded, NEW a \in Action
  PROVE  /\ BackedUp(b, a) \in Plane
         /\ BackedUp(b, a).action = a
         /\ BackedUp(b, a).mask = Mask(b)
         /\ BackedUp(b, a).back = [c \in Belief |-> 0]
         /\ \E beta \in [Observation -> Vector] :
              /\ \A o \in Observation : \E p \in DOMAIN plane :
                   /\ beta[o] = plane[p].alpha
                   /\ pomdp.next[b][a][o] # NoBelief =>
                        Applicable(p, pomdp.next[b][a][o])
              /\ \A i \in State : (config.masking => i \in Support(b)) =>
                   Den * Den * Den * (BackedUp(b, a).alpha[i] - pomdp.reward[a][i])
                     <= pomdp.discount * Expected(a, beta, i)
<1>1. TypeOK /\ Coverage /\ b \in touched /\ problem \in Problems
  BY DEF Inv, TypeOK
<1> DEFINE after(o) == pomdp.next[b][a][o]
           from(o) == PlaneForNode(IF after(o) = NoBelief THEN b ELSE after(o))
           choice == [o \in Observation |-> plane[from(o)].alpha]
           beta == Table(choice)
           alpha == [i \in State |->
                       IF config.masking => i \in Support(b)
                       THEN pomdp.reward[a][i]
                              + (pomdp.discount * Expected(a, beta, i)) \div (Den * Den * Den)
                       ELSE 0]
<1>2. ASSUME NEW o \in Observation
      PROVE  /\ from(o) \in DOMAIN plane /\ plane[from(o)].alpha \in Vector
             /\ after(o) # NoBelief => Applicable(from(o), after(o))
  <2>1. (IF after(o) = NoBelief THEN b ELSE after(o)) \in touched
    BY <1>1 DEF Coverage, Successors, SuccessorsIn
  <2>2. /\ from(o) \in DOMAIN plane
        /\ Applicable(from(o), IF after(o) = NoBelief THEN b ELSE after(o))
    BY <2>1, TouchedFindPlanes
  <2> QED
    BY <1>1, <2>2 DEF TypeOK, Plane
<1>3. beta = choice
  BY TableIs
<1>4. choice \in [Observation -> Vector]
  BY <1>2
<1>5. beta \in [Observation -> Vector]
  BY <1>3, <1>4, Zenon
<1>6. ASSUME NEW o \in Observation
      PROVE  \E p \in DOMAIN plane :
               /\ beta[o] = plane[p].alpha
               /\ after(o) # NoBelief => Applicable(p, after(o))
  <2>1. beta[o] = plane[from(o)].alpha
    BY <1>3
  <2> HIDE DEF beta, choice
  <2> QED
    BY <1>2, <2>1
<1> HIDE DEF beta
<1>7. ASSUME NEW i \in State
      PROVE  /\ alpha[i] \in Int
             /\ (config.masking => i \in Support(b)) =>
                  Den * Den * Den * (alpha[i] - pomdp.reward[a][i])
                    <= pomdp.discount * Expected(a, beta, i)
  <2>1. PICK r \in Int, g \in Nat, E \in Int :
          r = pomdp.reward[a][i] /\ g = pomdp.discount /\ E = Expected(a, beta, i)
    BY <1>1, <1>5, ExpectedType, PomdpFields DEF pomdp
  <2>2. PICK d \in Nat \ {0} : d = Den * Den * Den
    BY Denominators
  <2>3. PICK x \in Int : x = g * E
    BY TimesInt
  <2>4. x \div d \in Int /\ d * (x \div d) <= x
    OBVIOUS
  <2>5. (r + x \div d) - r = x \div d
    BY <2>4
  <2>6. alpha[i] = IF config.masking => i \in Support(b) THEN r + x \div d ELSE 0
    BY <2>1, <2>2, <2>3
  <2> HIDE DEF alpha
  <2>7. alpha[i] \in Int
    BY <2>4, <2>6
  <2>8. ASSUME config.masking => i \in Support(b)
        PROVE  d * (alpha[i] - r) <= x
    BY <2>4, <2>5, <2>6, <2>8
  <2> QED
    BY <2>1, <2>2, <2>3, <2>7, <2>8
<1>8. alpha \in Vector
  BY <1>7 DEF Vector
<1>9. Table(alpha) = alpha
  BY TableIs
<1>10. BackedUp(b, a) = [ alpha |-> Table(alpha), action |-> a, mask |-> Mask(b),
                          created |-> numBackups, back |-> [c \in Belief |-> 0] ]
  BY DEF BackedUp, beta
<1>11. Mask(b) \in SUBSET State
  BY DEF Mask, Support
<1>12. numBackups \in Int
  BY <1>1, MaxPlanesAssumption DEF TypeOK
<1> HIDE DEF alpha
<1>13. /\ BackedUp(b, a) \in Plane /\ BackedUp(b, a).action = a
       /\ BackedUp(b, a).mask = Mask(b) /\ BackedUp(b, a).back = [c \in Belief |-> 0]
       /\ BackedUp(b, a).alpha = alpha
  BY <1>8, <1>9, <1>10, <1>11, <1>12 DEF Plane
<1>14. \E e \in [Observation -> Vector] :
         /\ \A o \in Observation : \E p \in DOMAIN plane :
              /\ e[o] = plane[p].alpha
              /\ after(o) # NoBelief => Applicable(p, after(o))
         /\ \A i \in State : (config.masking => i \in Support(b)) =>
              Den * Den * Den * (alpha[i] - pomdp.reward[a][i])
                <= pomdp.discount * Expected(a, e, i)
  <2> WITNESS beta \in [Observation -> Vector]
  <2> QED
    BY <1>6, <1>7
<1> QED
  BY <1>13, <1>14

LEMMA NewPlaneType ==
  ASSUME Inv, NEW b \in expanded
  PROVE  /\ \E a \in Action : NewPlane(b) = BackedUp(b, a)
         /\ NewPlane(b) \in Plane
         /\ NewPlane(b).mask = Mask(b)
         /\ NewPlane(b).back = [c \in Belief |-> 0]
<1> DEFINE betas == {BackedUp(b, a) : a \in Action}
           val(q) == Inner(q.alpha, b)
           Highest(q) == \A r \in betas : /\ val(r) <= val(q)
                                          /\ r.action < q.action => val(r) < val(q)
<1>1. b \in Belief
  BY DEF Inv, TypeOK
<1>2. \A a \in Action : val(BackedUp(b, a)) \in Int
  <2> TAKE a \in Action
  <2>1. PICK u \in Vector : u = BackedUp(b, a).alpha
    BY BackedUpType DEF Plane
  <2>2. \A i \in State : u[i] <= u[i]
    BY DEF Vector
  <2> QED
    BY <1>1, <2>1, <2>2, InnerMonotone
<1>3. \E q \in betas : Highest(q)
  <2> DEFINE v == [a \in Action |-> val(BackedUp(b, a))]
  <2>1. v \in [Action -> Int]
    BY <1>2
  <2>2. NumActions \in Nat /\ Action \in SUBSET (0 .. NumActions) /\ Action # {}
    BY PomdpAssumption DEF Action
  <2> HIDE DEF v
  <2>3. PICK k \in Action : \A j \in Action : v[j] <= v[k] /\ (j < k => v[j] < v[k])
    BY <2>1, <2>2, FirstBest
  <2>4. \A a \in Action : v[a] = val(BackedUp(b, a)) /\ BackedUp(b, a).action = a
    BY BackedUpType DEF v
  <2>5. Highest(BackedUp(b, k))
    BY <2>3, <2>4
  <2> QED
    BY <2>5
<1>4. NewPlane(b) = CHOOSE q \in betas : Highest(q)
  BY DEF NewPlane
<1>5. NewPlane(b) \in betas
  <2> HIDE DEF betas, Highest
  <2> QED
    BY <1>3, <1>4
<1>6. PICK a \in Action : NewPlane(b) = BackedUp(b, a)
  BY <1>5
<1> QED
  BY <1>6, BackedUpType

-----------------------------------------------------------------------------
\* What a plane is worth after a step.
LEMMA SamePlane ==
  ASSUME NEW p, NEW b, NEW q, problem' = problem,
         plane'[p].alpha = plane[q].alpha, plane'[p].mask = plane[q].mask
  PROVE  /\ Applicable(p, b)' <=> Applicable(q, b)
         /\ ValueAt(p, b)' = ValueAt(q, b)
         /\ Full(p)' <=> Full(q)
BY DEF Applicable, ValueAt, Full, config

\* A dominator may be used wherever the victim was, and is worth as much.
LEMMA DominatorDelivers ==
  ASSUME TypeOK, NEW p \in DOMAIN plane, NEW q \in DOMAIN plane, Dominates(p, q)
  PROVE  /\ \A b \in Belief : Delivers(q, b) => Delivers(p, b)
         /\ Full(q) => Full(p)
<1>1. plane \in [DOMAIN plane -> Plane] /\ lbVal \in [Belief -> Int]
  BY DEF TypeOK
<1>2. ASSUME NEW b \in Belief, Delivers(q, b)
      PROVE  Delivers(p, b)
  <2>1. Applicable(p, b)
    BY <1>2 DEF Delivers, Applicable, Dominates
  <2>2. ValueAt(p, b) \in Int /\ ValueAt(q, b) \in Int /\ lbVal[b] \in Int
    BY <1>1, ValueType
  <2>3. ValueAt(q, b) <= ValueAt(p, b)
    <3>1. PICK u \in Vector : u = plane[q].alpha
      BY <1>1, ValueType
    <3>2. PICK v \in Vector : v = plane[p].alpha
      BY <1>1, ValueType
    <3>3. \A i \in State : u[i] <= v[i]
      BY <3>1, <3>2 DEF Dominates, Vector
    <3> QED
      BY <3>1, <3>2, <3>3, InnerMonotone DEF ValueAt
  <2> QED
    BY <1>2, <2>1, <2>2, <2>3 DEF Delivers
<1>3. Full(q) => Full(p)
  <2>1. plane[p].mask \subseteq State
    BY <1>1 DEF Plane
  <2> QED
    BY <2>1 DEF Full, Dominates
<1> QED
  BY <1>2, <1>3

-----------------------------------------------------------------------------
\* New nodes get a plane that delivers what they start with.
LEMMA TouchKeeps ==
  ASSUME Inv, NEW B \in SUBSET pomdp.reachable, Touch(B),
         UNCHANGED <<problem, planes, support>>
  PROVE  /\ touched' = touched \cup B /\ touched' \subseteq pomdp.reachable
         /\ DOMAIN plane' = DOMAIN plane /\ plane' \in [DOMAIN plane -> Plane]
         /\ \A p \in DOMAIN plane : /\ plane'[p].alpha = plane[p].alpha
                                    /\ plane'[p].mask = plane[p].mask
         /\ lbVal' \in [Belief -> Int]
         /\ bestPlane' \in [Belief -> PlaneId]
         /\ lastSet' \in [Belief -> Nat]
         /\ PointersAgree' /\ ListsAgree' /\ Delivered'
<1>1. /\ TypeOK /\ PointersAgree /\ ListsAgree /\ Coverage /\ Delivered
      /\ pomdp.reachable \subseteq Belief
  BY ReachableClosed DEF Inv, TypeOK
<1>2. config' = config /\ DOMAIN plane \subseteq PlaneId /\ numBackups \in Nat
  BY <1>1, MaxPlanesAssumption DEF config, TypeOK
<1> DEFINE new  == B \ touched
           best == Table([b \in new |-> BestPlane(b)])
           linked == IF config.cache THEN new ELSE {}
           back(p) == [b \in Belief |-> IF b \in linked /\ best[b] = p
                                        THEN plane[p].back[b] + 1 ELSE plane[p].back[b]]
<1>3. ASSUME NEW b \in new
      PROVE  b \in Belief /\ best[b] \in DOMAIN plane /\ Applicable(best[b], b)
  <2>1. b \in Belief /\ \E p \in DOMAIN plane : Applicable(p, b)
    BY <1>1, InvCovers DEF EveryBeliefCovered
  <2>2. BestPlane(b) \in DOMAIN plane /\ Applicable(BestPlane(b), b)
    BY <1>1, <2>1, BestPlaneProperties
  <2>3. best[b] = BestPlane(b)
    BY DEF Table
  <2> QED
    BY <2>1, <2>2, <2>3
<1> HIDE DEF best
<1>4. /\ touched' = touched \cup new
      /\ lbVal' = [b \in Belief |-> IF b \in new THEN ValueAt(best[b], b) ELSE lbVal[b]]
      /\ bestPlane' = [b \in Belief |-> IF b \in linked THEN best[b] ELSE bestPlane[b]]
      /\ lastSet' = [b \in Belief |-> IF b \in linked THEN numBackups ELSE lastSet[b]]
      /\ plane' = [p \in DOMAIN plane |-> [plane[p] EXCEPT !.back = back(p)]]
  BY DEF Touch, best
<1>5. touched' = touched \cup B /\ touched' \subseteq pomdp.reachable
  BY <1>1, <1>4 DEF Coverage
<1>6. ASSUME NEW p \in DOMAIN plane
      PROVE  /\ plane'[p] \in Plane
             /\ plane'[p].alpha = plane[p].alpha /\ plane'[p].mask = plane[p].mask
             /\ plane'[p].back = back(p)
  <2>1. plane[p] \in Plane
    BY <1>1 DEF TypeOK
  <2>2. back(p) \in [Belief -> Nat]
    BY <2>1 DEF Plane
  <2>3. plane'[p] = [plane[p] EXCEPT !.back = back(p)]
    BY <1>4
  <2> HIDE DEF back
  <2> QED
    BY <2>1, <2>2, <2>3 DEF Plane
<1>7. DOMAIN plane' = DOMAIN plane /\ plane' \in [DOMAIN plane -> Plane]
  <2>1. DOMAIN plane' = DOMAIN plane /\ plane' = [p \in DOMAIN plane |-> plane'[p]]
    BY <1>4
  <2> QED
    BY <1>6, <2>1
<1>8. \A b \in new : ValueAt(best[b], b) \in Int
  <2>1. plane \in [DOMAIN plane -> Plane]
    BY <1>1 DEF TypeOK
  <2> QED
    BY <1>3, <2>1, ValueType
<1>9. lbVal' \in [Belief -> Int]
  BY <1>1, <1>4, <1>8 DEF TypeOK
<1>10. bestPlane' \in [Belief -> PlaneId] /\ lastSet' \in [Belief -> Nat]
  BY <1>1, <1>2, <1>3, <1>4 DEF TypeOK
<1>11. PointersAgree'
  <2>1. config.cache => \A b \in touched' : bestPlane'[b] \in DOMAIN plane'
    BY <1>1, <1>3, <1>4, <1>5, <1>7 DEF PointersAgree
  <2>2. ASSUME NEW p \in DOMAIN plane, NEW b \in Belief
        PROVE  plane'[p].back[b] =
                 IF config.cache /\ b \in touched' /\ bestPlane'[b] = p THEN 1 ELSE 0
    <3>1. plane'[p].back[b] = IF b \in linked /\ best[b] = p
                              THEN plane[p].back[b] + 1 ELSE plane[p].back[b]
      <4>1. plane'[p].back = back(p)
        BY <1>6
      <4> QED
        BY <4>1
    <3>2. plane[p].back[b] =
            IF config.cache /\ b \in touched /\ bestPlane[b] = p THEN 1 ELSE 0
      BY <1>1 DEF PointersAgree
    <3>3. bestPlane'[b] = IF b \in linked THEN best[b] ELSE bestPlane[b]
      BY <1>4
    <3> QED
      BY <1>4, <3>1, <3>2, <3>3
  <2> QED
    BY <1>2, <1>7, <2>1, <2>2 DEF PointersAgree
<1>12. ListsAgree'
  BY <1>1, <1>2, <1>6, <1>7 DEF ListsAgree
<1>13. Delivered'
  <2> SUFFICES ASSUME NEW b \in touched'
               PROVE  \E p \in DOMAIN plane' :
                        Delivers(p, b)' /\ (config'.cache => p = bestPlane'[b])
    BY DEF Delivered
  <2>1. CASE b \in new
    <3>1. PICK p \in DOMAIN plane : p = best[b] /\ Applicable(p, b)
      BY <1>3, <2>1
    <3>2. Applicable(p, b)' /\ ValueAt(p, b)' = ValueAt(p, b)
      BY <1>6, <3>1, SamePlane
    <3>3. b \in Belief /\ lbVal'[b] = ValueAt(p, b) /\ ValueAt(p, b) \in Int
      BY <1>3, <1>4, <1>8, <2>1, <3>1
    <3>4. Delivers(p, b)'
      BY <3>2, <3>3 DEF Delivers
    <3>5. config.cache => p = bestPlane'[b]
      BY <1>4, <2>1, <3>1, <3>3
    <3> QED
      BY <1>2, <1>7, <3>4, <3>5
  <2>2. CASE b \notin new
    <3>1. b \in touched /\ b \in Belief
      BY <1>1, <1>4, <2>2 DEF TypeOK
    <3>2. PICK p \in DOMAIN plane : Delivers(p, b) /\ (config.cache => p = bestPlane[b])
      BY <1>1, <3>1 DEF Delivered
    <3>3. lbVal'[b] = lbVal[b] /\ bestPlane'[b] = bestPlane[b]
      BY <1>4, <2>2, <3>1
    <3>4. /\ Applicable(p, b)' <=> Applicable(p, b)
          /\ ValueAt(p, b)' = ValueAt(p, b)
      BY <1>6, SamePlane
    <3>5. Delivers(p, b)'
      BY <3>2, <3>3, <3>4 DEF Delivers
    <3> QED
      BY <1>2, <1>7, <3>2, <3>3, <3>5
  <2> QED
    BY <2>1, <2>2
<1> QED
  BY <1>5, <1>6, <1>7, <1>9, <1>10, <1>11, <1>12, <1>13

-----------------------------------------------------------------------------
\* A plane that is deleted leaves the lists.
LEMMA DeleteKeepsLists ==
  ASSUME Inv, NEW v \in DOMAIN plane, Delete(v), problem' = problem,
         DOMAIN plane' = DOMAIN plane \ {v},
         \A p \in DOMAIN plane' : plane'[p].mask = plane[p].mask,
         planes' \in Seq(DOMAIN plane), ToSet(planes') = DOMAIN plane \ {v},
         IsInjective(planes')
  PROVE  /\ ListsAgree'
         /\ planes' \in Seq(DOMAIN plane')
         /\ DOMAIN support' = State
         /\ \A i \in State : support'[i] \in Seq(DOMAIN plane')
<1>1. TypeOK /\ ListsAgree /\ config' = config
  BY DEF Inv, config
<1>2. planes' \in Seq(DOMAIN plane')
  <2>1. PICK s \in Seq(DOMAIN plane) : s = planes' /\ ToSet(s) \subseteq DOMAIN plane'
    OBVIOUS
  <2> QED
    BY <2>1, SeqWithin
<1>3. ASSUME NEW i \in State
      PROVE  /\ ToSet(support'[i]) =
                  {p \in DOMAIN plane' : config.supportList /\ i \in plane[p].mask}
             /\ IsInjective(support'[i])
             /\ support'[i] \in Seq(DOMAIN plane')
  <2>1. PICK s \in Seq(DOMAIN plane) : s = support[i]
    BY <1>1 DEF TypeOK
  <2>2. /\ ToSet(s) = {p \in DOMAIN plane : config.supportList /\ i \in plane[p].mask}
        /\ IsInjective(s)
    BY <1>1, <2>1 DEF ListsAgree
  <2>3. PICK t : t = support'[i]
    BY Zenon
  <2>4. t = IF config.supportList /\ i \in plane[v].mask THEN RemoveFirst(s, v) ELSE s
    BY <2>1, <2>3 DEF Delete
  <2>5. t \in Seq(DOMAIN plane) /\ ToSet(t) = ToSet(s) \ {v} /\ IsInjective(t)
    <3>1. CASE config.supportList /\ i \in plane[v].mask
      BY <2>2, <2>4, <3>1, RemoveFirstProperties
    <3>2. CASE ~(config.supportList /\ i \in plane[v].mask)
      <4>1. v \notin ToSet(s)
        BY <2>2, <3>2
      <4> QED
        BY <2>2, <2>4, <3>2, <4>1
    <3> QED
      BY <3>1, <3>2
  <2>6. ToSet(t) = {p \in DOMAIN plane' : config.supportList /\ i \in plane[p].mask}
    BY <2>2, <2>5
  <2>7. ToSet(t) \subseteq DOMAIN plane'
    BY <2>6
  <2>8. t \in Seq(DOMAIN plane')
    BY <2>5, <2>7, SeqWithin
  <2> QED
    BY <2>3, <2>5, <2>6, <2>8
<1>4. DOMAIN support' = State
  BY DEF Delete
<1>5. ListsAgree'
  BY <1>1, <1>3 DEF ListsAgree
<1> QED
  BY <1>2, <1>3, <1>4, <1>5

\* Nodes whose plane is deleted go on with its dominator.
LEMMA ForwardKeeps ==
  ASSUME Inv, NEW v \in DOMAIN plane, NEW d \in DOMAIN plane, v # d,
         Dominates(d, v), Forward(v, d),
         UNCHANGED <<problem, nodeVars, pc>>
  PROVE  /\ DOMAIN plane' = DOMAIN plane \ {v}
         /\ plane' \in [DOMAIN plane' -> Plane]
         /\ \A p \in DOMAIN plane' : /\ plane'[p].alpha = plane[p].alpha
                                     /\ plane'[p].mask = plane[p].mask
         /\ bestPlane' \in [Belief -> PlaneId]
         /\ PointersAgree' /\ Coverage' /\ Delivered'
<1>1. /\ TypeOK /\ PointersAgree /\ Coverage /\ Delivered
      /\ config' = config /\ pomdp' = pomdp
      /\ touched' = touched /\ expanded' = expanded /\ lbVal' = lbVal
  BY DEF Inv, config, pomdp, nodeVars
<1> DEFINE kept == Restrict(plane, DOMAIN plane \ {v})
           sum == [b \in Belief |-> plane[d].back[b] + plane[v].back[b]]
<1>2. /\ bestPlane' = [b \in Belief |-> IF plane[v].back[b] > 0 THEN d ELSE bestPlane[b]]
      /\ plane' = [kept EXCEPT ![d].back = sum]
  <2>1. d \in DOMAIN kept /\ kept[d] = plane[d]
    BY DEF Restrict
  <2>2. plane' = [kept EXCEPT ![d].back = [b \in Belief |-> @[b] + plane[v].back[b]]]
    BY DEF Forward
  <2> HIDE DEF kept
  <2>3. plane' = [kept EXCEPT ![d].back = sum]
    BY <2>1, <2>2
  <2> QED
    BY <2>3 DEF Forward
<1>3. DOMAIN kept = DOMAIN plane \ {v} /\ \A p \in DOMAIN plane \ {v} : kept[p] = plane[p]
  BY DEF Restrict
<1>4. plane[d] \in Plane /\ plane[v] \in Plane /\ sum \in [Belief -> Nat]
  BY <1>1 DEF TypeOK, Plane
<1> HIDE DEF kept, sum
<1>5. DOMAIN plane' = DOMAIN plane \ {v}
  BY <1>2, <1>3
<1>6. ASSUME NEW p \in DOMAIN plane'
      PROVE  /\ plane'[p] \in Plane
             /\ plane'[p].alpha = plane[p].alpha /\ plane'[p].mask = plane[p].mask
             /\ plane'[p].back = IF p = d THEN sum ELSE plane[p].back
  <2>1. p \in DOMAIN plane /\ p \in DOMAIN kept /\ plane[p] \in Plane /\ kept[p] = plane[p]
    BY <1>1, <1>3, <1>5 DEF TypeOK
  <2>2. CASE p = d
    <3>1. plane'[p] = [plane[p] EXCEPT !.back = sum]
      BY <1>2, <2>1, <2>2
    <3> QED
      BY <1>4, <2>1, <2>2, <3>1 DEF Plane
  <2>3. CASE p # d
    BY <1>2, <2>1, <2>3
  <2> QED
    BY <2>2, <2>3
<1>7. plane' \in [DOMAIN plane' -> Plane]
  <2>1. plane' = [p \in DOMAIN plane' |-> plane'[p]]
    BY <1>2, <1>3, <1>5
  <2> QED
    BY <1>6, <2>1
<1>8. bestPlane' \in [Belief -> PlaneId]
  BY <1>1, <1>2 DEF TypeOK
<1>9. ASSUME NEW b \in Belief
      PROVE  /\ plane[v].back[b] > 0 <=> config.cache /\ b \in touched /\ bestPlane[b] = v
             /\ bestPlane'[b] = IF config.cache /\ b \in touched /\ bestPlane[b] = v
                                THEN d ELSE bestPlane[b]
  BY <1>1, <1>2 DEF PointersAgree
<1>10. PointersAgree'
  <2>1. ASSUME NEW b \in touched, config.cache PROVE bestPlane'[b] \in DOMAIN plane'
    <3>1. b \in Belief /\ bestPlane[b] \in DOMAIN plane
      BY <1>1, <2>1 DEF TypeOK, PointersAgree
    <3> QED
      BY <1>5, <1>9, <2>1, <3>1
  <2>2. ASSUME NEW p \in DOMAIN plane', NEW b \in Belief
        PROVE  plane'[p].back[b] =
                 IF config.cache /\ b \in touched /\ bestPlane'[b] = p THEN 1 ELSE 0
    <3>1. \A q \in DOMAIN plane :
            plane[q].back[b] = IF config.cache /\ b \in touched /\ bestPlane[b] = q THEN 1 ELSE 0
      BY <1>1 DEF PointersAgree
    <3>2. p \in DOMAIN plane /\ p # v
      BY <1>5
    <3>3. CASE p = d
      <4>1. plane'[p].back[b] = plane[d].back[b] + plane[v].back[b]
        BY <1>6, <3>3 DEF sum
      <4> QED
        BY <1>9, <3>1, <3>3, <4>1
    <3>4. CASE p # d
      <4>1. plane'[p].back[b] = plane[p].back[b]
        BY <1>6, <3>4
      <4> QED
        BY <1>9, <3>1, <3>2, <3>4, <4>1
    <3> QED
      BY <3>3, <3>4
  <2> QED
    BY <1>1, <2>1, <2>2 DEF PointersAgree
<1>11. d \in DOMAIN plane'
  BY <1>5
<1>12. ASSUME NEW p \in DOMAIN plane', NEW b
       PROVE  /\ Delivers(p, b)' <=> Delivers(p, b)
              /\ Full(p)' <=> Full(p)
  <2>1. /\ Applicable(p, b)' <=> Applicable(p, b)
        /\ ValueAt(p, b)' = ValueAt(p, b)
        /\ Full(p)' <=> Full(p)
    BY <1>6, SamePlane
  <2> QED
    BY <1>1, <2>1 DEF Delivers
<1>13. Coverage'
  <2>1. ASSUME NEW p \in DOMAIN plane', ~Full(p)'
        PROVE  \E b \in expanded : plane'[p].mask = Support(b)
    <3>1. p \in DOMAIN plane /\ ~Full(p) /\ plane'[p].mask = plane[p].mask
      BY <1>5, <1>6, <1>12, <2>1
    <3> QED
      BY <1>1, <3>1 DEF Coverage
  <2>2. ASSUME NEW p \in DOMAIN plane, Full(p)
        PROVE  \E q \in DOMAIN plane' : Full(q)'
    <3>1. CASE p = v
      BY <1>1, <1>11, <1>12, <2>2, <3>1, DominatorDelivers
    <3>2. CASE p # v
      BY <1>5, <1>12, <2>2, <3>2
    <3> QED
      BY <3>1, <3>2
  <2>3. /\ touched' \subseteq pomdp'.reachable
        /\ IF pc' = "start" THEN touched' = {} ELSE pomdp'.initial \in touched'
        /\ \A b \in expanded' : Successors(b)' \subseteq touched'
    BY <1>1 DEF Coverage, Successors
  <2>4. pc' = "start" \/ ~config'.extraPruning => \E p \in DOMAIN plane' : Full(p)'
    BY <1>1, <2>2 DEF Coverage
  <2> QED
    BY <1>1, <2>1, <2>3, <2>4 DEF Coverage
<1>14. Delivered'
  <2> SUFFICES ASSUME NEW b \in touched
               PROVE  \E p \in DOMAIN plane' :
                        Delivers(p, b)' /\ (config.cache => p = bestPlane'[b])
    BY <1>1 DEF Delivered
  <2>1. b \in Belief
    BY <1>1 DEF TypeOK
  <2>2. PICK p \in DOMAIN plane : Delivers(p, b) /\ (config.cache => p = bestPlane[b])
    BY <1>1 DEF Delivered
  <2>3. CASE p = v
    <3>1. Delivers(d, b)
      BY <1>1, <2>1, <2>2, <2>3, DominatorDelivers
    <3>2. config.cache => bestPlane'[b] = d
      BY <1>9, <2>1, <2>2, <2>3
    <3> QED
      BY <1>11, <1>12, <3>1, <3>2
  <2>4. CASE p # v
    <3>1. p \in DOMAIN plane' /\ Delivers(p, b)'
      BY <1>5, <1>12, <2>2, <2>4
    <3>2. config.cache => bestPlane'[b] = p
      BY <1>9, <2>1, <2>2, <2>4
    <3> QED
      BY <3>1, <3>2
  <2> QED
    BY <2>3, <2>4
<1> QED
  BY <1>5, <1>6, <1>7, <1>8, <1>10, <1>13, <1>14

-----------------------------------------------------------------------------
\* Every operation keeps the invariant.
LEMMA InitInv == Init => Inv
<1> SUFFICES ASSUME Init PROVE Inv
  OBVIOUS
<1>1. /\ NumActions \in Nat \ {0} /\ DOMAIN plane = 1 .. NumActions
      /\ problem \in Problems /\ pomdp \in Pomdp
  BY PomdpAssumption, PomdpType DEF Init
<1>2. /\ planes = [k \in 1 .. NumActions |-> k] /\ pc = "start" /\ touched = {}
      /\ expanded = {} /\ numBackups = 0 /\ support = [i \in State |->
           IF config.supportList THEN planes ELSE <<>>]
  BY DEF Init
<1>3. PICK ages \in [1 .. NumActions -> Int] :
        plane = [p \in 1 .. NumActions |->
                   [ alpha |-> pomdp.blind[p - 1], action |-> p - 1,
                     mask |-> IF config.masking THEN State ELSE {},
                     created |-> ages[p], back |-> [b \in Belief |-> 0] ]]
  <2>1. [p \in 1 .. NumActions |-> 0] \in [1 .. NumActions -> Int]
    OBVIOUS
  <2> QED
    BY <2>1, MaxPlanesAssumption DEF Init
<1>4. ASSUME NEW p \in 1 .. NumActions
      PROVE  /\ plane[p] \in Plane
             /\ plane[p].mask = IF config.masking THEN State ELSE {}
             /\ plane[p].back = [b \in Belief |-> 0]
  <2>1. p - 1 \in Action
    BY <1>1 DEF Action
  <2>2. pomdp.blind[p - 1] \in Vector /\ ages[p] \in Int
    BY <1>1, <2>1 DEF Pomdp
  <2> QED
    BY <1>3, <2>1, <2>2 DEF Plane
<1>5. planes \in Seq(DOMAIN plane) /\ ToSet(planes) = DOMAIN plane /\ IsInjective(planes)
  BY <1>1, <1>2 DEF ToSet, IsInjective
<1>6. TypeOK
  <2>1. plane \in [DOMAIN plane -> Plane] /\ DOMAIN plane \subseteq PlaneId
    <3>1. plane = [p \in 1 .. NumActions |-> plane[p]]
      BY <1>3
    <3>2. 1 .. NumActions \subseteq PlaneId
      BY <1>1 DEF PlaneId
    <3> QED
      BY <1>1, <1>4, <3>1, <3>2
  <2>2. DOMAIN support = State /\ \A i \in State : support[i] \in Seq(DOMAIN plane)
    <3>1. <<>> \in Seq(DOMAIN plane)
      OBVIOUS
    <3>2. PICK s \in Seq(DOMAIN plane) : s = planes
      BY <1>5
    <3>3. support = [i \in State |-> IF config.supportList THEN s ELSE <<>>]
      BY <1>2, <3>2
    <3> QED
      BY <3>1, <3>3, Zenon
  <2>3. node \in Belief /\ pc \in Location /\ ~Pruning
    BY <1>1 DEF Init, Pomdp, Location, Pruning
  <2>4. /\ lbVal \in [Belief -> Int] /\ bestPlane \in [Belief -> PlaneId]
        /\ lastSet \in [Belief -> Nat] /\ numBackups \in 0 .. MaxBackups
        /\ lastPruneNumPlanes \in Nat /\ lastPruneNumBackups \in Nat \cup {-1}
    BY MaxPlanesAssumption DEF Init, PlaneId
  <2> QED
    BY <1>1, <1>2, <1>5, <2>1, <2>2, <2>3, <2>4 DEF TypeOK
<1>7. PointersAgree
  BY <1>1, <1>2, <1>4 DEF PointersAgree
<1>8. ListsAgree
  <2>1. config.supportList => config.masking
    BY <1>1, MaxPlanesAssumption DEF config, Config
  <2>2. ASSUME NEW i \in State
        PROVE  /\ ToSet(support[i]) =
                    {p \in DOMAIN plane : config.supportList /\ i \in plane[p].mask}
               /\ IsInjective(support[i])
    <3>1. CASE config.supportList
      BY <1>1, <1>2, <1>4, <1>5, <2>1, <3>1
    <3>2. CASE ~config.supportList
      <4>1. support[i] = <<>> /\ DOMAIN <<>> = {}
        BY <1>2, <3>2
      <4> QED
        BY <3>2, <4>1 DEF ToSet, IsInjective
    <3> QED
      BY <3>1, <3>2
  <2> QED
    BY <1>5, <2>2 DEF ListsAgree
<1>9. Coverage
  <2>1. \A p \in DOMAIN plane : Full(p)
    BY <1>1, <1>4 DEF Full
  <2>2. 1 \in DOMAIN plane
    BY <1>1
  <2> QED
    BY <1>2, <2>1, <2>2 DEF Coverage
<1>10. Delivered
  BY <1>2 DEF Delivered
<1>11. InPlace
  BY <1>1, <1>2 DEF InPlace, Pruning
<1> QED
  BY <1>6, <1>7, <1>8, <1>9, <1>10, <1>11 DEF Inv

LEMMA TouchRootInv ==
  ASSUME Inv, TouchRoot PROVE Inv'
<1>1. /\ TypeOK /\ Coverage /\ InPlace /\ pc = "start" /\ pc' = "idle"
      /\ pomdp' = pomdp /\ config' = config
  BY DEF Inv, TouchRoot, pomdp, config
<1>2. /\ UNCHANGED <<problem, planes, support, expanded, numBackups, node, pruneVars>>
      /\ Touch({pomdp.initial})
  BY DEF TouchRoot
<1>3. /\ {pomdp.initial} \in SUBSET pomdp.reachable
      /\ pomdp.reachable \subseteq Belief
  BY <1>1, ReachableClosed DEF TypeOK
<1>4. /\ touched' = touched \cup {pomdp.initial} /\ touched' \subseteq pomdp.reachable
      /\ DOMAIN plane' = DOMAIN plane /\ plane' \in [DOMAIN plane -> Plane]
      /\ \A p \in DOMAIN plane : /\ plane'[p].alpha = plane[p].alpha
                                 /\ plane'[p].mask = plane[p].mask
      /\ lbVal' \in [Belief -> Int]
      /\ bestPlane' \in [Belief -> PlaneId]
      /\ lastSet' \in [Belief -> Nat]
      /\ PointersAgree' /\ ListsAgree' /\ Delivered'
  BY <1>2, <1>3, TouchKeeps
<1>5. TypeOK'
  BY <1>1, <1>2, <1>3, <1>4 DEF TypeOK, Location, Pruning, pruneVars
<1>6. Coverage'
  <2>1. \A p \in DOMAIN plane : Full(p)' <=> Full(p)
    BY <1>2, <1>4, SamePlane
  <2>2. \A b \in expanded' : Successors(b)' \subseteq touched'
    BY <1>1, <1>2, <1>4 DEF Coverage, Successors
  <2>3. \A p \in DOMAIN plane' : Full(p)' \/ \E b \in expanded' : plane'[p].mask = Support(b)
    BY <1>1, <1>2, <1>4, <2>1 DEF Coverage
  <2>4. \E p \in DOMAIN plane' : Full(p)'
    BY <1>1, <1>4, <2>1 DEF Coverage
  <2> QED
    BY <1>1, <1>4, <2>2, <2>3, <2>4 DEF Coverage
<1>7. InPlace'
  BY <1>1, <1>2, <1>4 DEF InPlace, Pruning
<1> QED
  BY <1>4, <1>5, <1>6, <1>7 DEF Inv

LEMMA UpdateInv ==
  ASSUME Inv, NEW b \in Belief, Update(b) PROVE Inv'
<1>1. /\ TypeOK /\ Coverage /\ InPlace /\ pc = "idle" /\ pc' = "update"
      /\ numBackups < MaxBackups /\ b \in touched /\ node' = b
      /\ expanded' = expanded \cup {b}
      /\ pomdp' = pomdp /\ config' = config
  BY DEF Inv, Update, pomdp, config
<1>2. PICK B : B = IF b \in expanded THEN {} ELSE Successors(b)
  BY Zenon
<1>3. /\ UNCHANGED <<problem, planes, support, numBackups, pruneVars>>
      /\ Touch(B)
  BY <1>2 DEF Update
<1>4. B \in SUBSET pomdp.reachable /\ pomdp.reachable \subseteq Belief
  BY <1>1, <1>2, ReachableClosed DEF TypeOK, Coverage
<1>5. /\ touched' = touched \cup B /\ touched' \subseteq pomdp.reachable
      /\ DOMAIN plane' = DOMAIN plane /\ plane' \in [DOMAIN plane -> Plane]
      /\ \A p \in DOMAIN plane : /\ plane'[p].alpha = plane[p].alpha
                                 /\ plane'[p].mask = plane[p].mask
      /\ lbVal' \in [Belief -> Int]
      /\ bestPlane' \in [Belief -> PlaneId]
      /\ lastSet' \in [Belief -> Nat]
      /\ PointersAgree' /\ ListsAgree' /\ Delivered'
  BY <1>3, <1>4, TouchKeeps
<1>6. TypeOK'
  BY <1>1, <1>3, <1>4, <1>5 DEF TypeOK, Location, Pruning, pruneVars
<1>7. Coverage'
  <2>1. \A p \in DOMAIN plane : Full(p)' <=> Full(p)
    BY <1>3, <1>5, SamePlane
  <2>2. \A c \in expanded' : Successors(c)' \subseteq touched'
    BY <1>1, <1>2, <1>5 DEF Coverage, Successors
  <2>3. \A p \in DOMAIN plane' : Full(p)' \/ \E c \in expanded' : plane'[p].mask = Support(c)
    BY <1>1, <1>5, <2>1 DEF Coverage
  <2>4. ~config'.extraPruning => \E p \in DOMAIN plane' : Full(p)'
    BY <1>1, <1>5, <2>1 DEF Coverage
  <2> QED
    BY <1>1, <1>5, <2>2, <2>3, <2>4 DEF Coverage
<1>8. InPlace'
  BY <1>1, <1>3, <1>5 DEF InPlace, Pruning
<1> QED
  BY <1>5, <1>6, <1>7, <1>8 DEF Inv

LEMMA AddPlaneInv ==
  ASSUME Inv, AddPlane PROVE Inv'
<1>1. /\ TypeOK /\ PointersAgree /\ ListsAgree /\ Coverage /\ Delivered /\ InPlace
      /\ pc = "update" /\ pomdp' = pomdp /\ config' = config
      /\ numBackups < MaxBackups /\ node \in expanded
      /\ UNCHANGED <<problem, touched, expanded, lastPruneNumPlanes,
                     lastPruneNumBackups, node, file>>
  BY DEF Inv, InPlace, AddPlane, pomdp, config
<1>2. PICK new : new = NewPlane(node)
  BY Zenon
<1>3. PICK id : id = NumActions + numBackups + 1
  BY Zenon
<1>4. PICK value : value = Inner(new.alpha, node)
  BY Zenon
<1> DEFINE taken == config.cache /\ value >= lbVal[node]
           rest == IF taken THEN Unlinked(node) ELSE plane
           added == [new EXCEPT !.back[node] = IF taken THEN 1 ELSE 0]
<1>5. /\ plane' = [p \in DOMAIN plane \cup {id} |-> IF p = id THEN added ELSE rest[p]]
      /\ lbVal' = IF taken \/ ~config.cache THEN [lbVal EXCEPT ![node] = value] ELSE lbVal
      /\ bestPlane' = IF taken THEN [bestPlane EXCEPT ![node] = id] ELSE bestPlane
      /\ lastSet' = IF taken THEN [lastSet EXCEPT ![node] = numBackups] ELSE lastSet
      /\ planes' = Append(planes, id)
      /\ support' = [i \in State |-> IF config.supportList /\ i \in new.mask
                                     THEN Append(support[i], id) ELSE support[i]]
      /\ candidate' = 1
      /\ member' = 0
      /\ \/ pc' = "prune" /\ numBackups' = numBackups
         \/ pc' = "idle" /\ numBackups' = numBackups + 1
  BY <1>2, <1>3, <1>4 DEF AddPlane
<1>6. new \in Plane /\ new.mask = Mask(node) /\ new.back = [c \in Belief |-> 0]
  BY <1>1, <1>2, NewPlaneType
<1>7. /\ node \in Belief /\ node \in touched
      /\ numBackups \in Nat /\ NumActions \in Nat /\ MaxBackups \in Nat
      /\ lbVal \in [Belief -> Int] /\ bestPlane \in [Belief -> PlaneId]
      /\ lastSet \in [Belief -> Nat]
  BY <1>1, PomdpAssumption, MaxPlanesAssumption DEF TypeOK
<1>8. value \in Int
  <2>1. PICK u \in Vector : u = new.alpha
    BY <1>6 DEF Plane
  <2>2. \A i \in State : u[i] <= u[i]
    BY DEF Vector
  <2> QED
    BY <1>4, <1>7, <2>1, <2>2, InnerMonotone
<1>9. id \in PlaneId /\ id \notin DOMAIN plane
  <2>1. \A p \in DOMAIN plane : p \in PlaneId /\ p <= NumActions + numBackups
    <3>1. \A p \in DOMAIN plane : p \in PlaneId /\ p <= NumActions + numBackups + 0
      BY <1>1 DEF TypeOK, InPlace
    <3> QED
      BY <1>7, <3>1
  <2> QED
    BY <1>3, <1>7, <2>1 DEF PlaneId
<1> HIDE DEF taken, added, rest
<1>10. /\ added \in Plane /\ added.alpha = new.alpha /\ added.mask = Mask(node)
       /\ \A b \in Belief : added.back[b] = IF taken /\ b = node THEN 1 ELSE 0
  BY <1>6, <1>7 DEF added, Plane
<1>11. ASSUME NEW p \in DOMAIN plane
       PROVE  /\ rest[p] \in Plane
              /\ rest[p].alpha = plane[p].alpha /\ rest[p].mask = plane[p].mask
              /\ \A b \in Belief :
                   rest[p].back[b] = IF taken /\ b = node THEN 0 ELSE plane[p].back[b]
  <2>1. plane[p] \in Plane /\ plane[p].back \in [Belief -> Nat]
    BY <1>1 DEF TypeOK, Plane
  <2>2. plane[p].back[node] =
          IF config.cache /\ bestPlane[node] = p THEN 1 ELSE 0
    BY <1>1, <1>7 DEF PointersAgree
  <2>3. CASE taken /\ bestPlane[node] = p
    <3>1. config.cache
      BY <2>3 DEF taken
    <3>2. PICK r : r = [plane[p].back EXCEPT ![node] = @ - 1]
      BY Zenon
    <3>3. rest[p] = [plane[p] EXCEPT !.back = r]
      BY <2>3, <3>2 DEF rest, Unlinked
    <3>4. plane[p].back[node] = 1
      BY <2>2, <2>3, <3>1
    <3>5. /\ r \in [Belief -> Nat] /\ r[node] = 0
          /\ \A b \in Belief : b # node => r[b] = plane[p].back[b]
      BY <1>7, <2>1, <3>2, <3>4
    <3>6. /\ rest[p] \in Plane /\ rest[p].back = r
          /\ rest[p].alpha = plane[p].alpha /\ rest[p].mask = plane[p].mask
      BY <2>1, <3>3, <3>5 DEF Plane
    <3> QED
      BY <2>3, <3>5, <3>6
  <2>4. CASE ~(taken /\ bestPlane[node] = p)
    <3>1. rest[p] = plane[p]
      BY <1>7, <2>4 DEF rest, Unlinked
    <3>2. taken => plane[p].back[node] = 0
      BY <2>2, <2>4
    <3> QED
      BY <2>1, <3>1, <3>2
  <2> QED
    BY <2>3, <2>4
<1>12. /\ DOMAIN plane' = DOMAIN plane \cup {id} /\ plane'[id] = added
       /\ \A p \in DOMAIN plane : plane'[p] = rest[p]
  BY <1>5, <1>9
<1>13. plane' \in [DOMAIN plane' -> Plane]
  <2>1. plane' = [p \in DOMAIN plane' |-> plane'[p]]
    BY <1>5
  <2>2. \A p \in DOMAIN plane' : plane'[p] \in Plane
    BY <1>10, <1>11, <1>12
  <2> QED
    BY <2>1, <2>2
<1>14. ASSUME NEW b \in Belief
       PROVE  /\ bestPlane'[b] = IF taken /\ b = node THEN id ELSE bestPlane[b]
              /\ lbVal'[b] = IF (taken \/ ~config.cache) /\ b = node THEN value ELSE lbVal[b]
  BY <1>5, <1>7
<1>15. PointersAgree'
  <2>1. ASSUME NEW b \in touched, config.cache PROVE bestPlane'[b] \in DOMAIN plane'
    <3>1. b \in Belief /\ bestPlane[b] \in DOMAIN plane
      BY <1>1, <2>1 DEF TypeOK, PointersAgree
    <3> QED
      BY <1>12, <1>14, <3>1
  <2>2. ASSUME NEW p \in DOMAIN plane', NEW b \in Belief
        PROVE  plane'[p].back[b] =
                 IF config.cache /\ b \in touched /\ bestPlane'[b] = p THEN 1 ELSE 0
    <3>1. taken => config.cache
      BY DEF taken
    <3>2. config.cache /\ b \in touched => bestPlane[b] # id
      BY <1>1, <1>9 DEF PointersAgree
    <3>3. CASE p = id
      BY <1>7, <1>10, <1>12, <1>14, <3>1, <3>2, <3>3
    <3>4. CASE p # id
      <4>1. p \in DOMAIN plane
        BY <1>12, <3>4
      <4>2. plane[p].back[b] =
              IF config.cache /\ b \in touched /\ bestPlane[b] = p THEN 1 ELSE 0
        BY <1>1, <4>1 DEF PointersAgree
      <4>3. plane'[p].back[b] = IF taken /\ b = node THEN 0 ELSE plane[p].back[b]
        BY <1>11, <1>12, <4>1
      <4> QED
        BY <1>14, <3>4, <4>2, <4>3
    <3> QED
      BY <3>3, <3>4
  <2> QED
    BY <1>1, <2>1, <2>2 DEF PointersAgree
<1>16. PICK D : D = DOMAIN plane'
  BY Zenon
<1>17. /\ planes' \in Seq(D) /\ Len(planes') \in Nat
       /\ ToSet(planes') = DOMAIN plane' /\ IsInjective(planes')
  <2>1. PICK s \in Seq(D) : s = planes
    BY <1>1, <1>12, <1>16, SeqMonotonic DEF TypeOK
  <2>2. ToSet(s) = DOMAIN plane /\ IsInjective(s) /\ id \notin ToSet(s) /\ id \in D
    BY <1>1, <1>9, <1>12, <1>16, <2>1 DEF ListsAgree
  <2>3. PICK t : t = Append(s, id)
    BY Zenon
  <2>4. t \in Seq(D) /\ ToSet(t) = ToSet(s) \cup {id} /\ IsInjective(t)
    <3>1. /\ Append(s, id) \in Seq(D) /\ ToSet(Append(s, id)) = ToSet(s) \cup {id}
          /\ IsInjective(Append(s, id))
      BY <2>2, AppendedProperties
    <3> QED
      BY <2>3, <3>1, Zenon
  <2>5. planes' = t
    BY <1>5, <2>1, <2>3
  <2>6. Len(planes') \in Nat
    BY <2>4, <2>5
  <2> QED
    BY <1>12, <1>16, <2>2, <2>4, <2>5, <2>6
<1>18. ASSUME NEW i \in State
       PROVE  /\ support'[i] \in Seq(D)
              /\ ToSet(support'[i]) =
                   {p \in DOMAIN plane' : config.supportList /\ i \in plane'[p].mask}
              /\ IsInjective(support'[i])
  <2>1. PICK s \in Seq(D) : s = support[i]
    BY <1>1, <1>12, <1>16, SeqMonotonic DEF TypeOK
  <2>2. /\ ToSet(s) = {p \in DOMAIN plane : config.supportList /\ i \in plane[p].mask}
        /\ IsInjective(s)
    BY <1>1, <2>1 DEF ListsAgree
  <2>3. id \notin ToSet(s) /\ id \in D
    BY <1>9, <1>12, <1>16, <2>2
  <2>4. /\ plane'[id].mask = new.mask
        /\ \A p \in DOMAIN plane : plane'[p].mask = plane[p].mask
    BY <1>6, <1>10, <1>11, <1>12
  <2>5. CASE config.supportList /\ i \in new.mask
    <3>1. PICK t : t = Append(s, id)
      BY Zenon
    <3>2. t \in Seq(D) /\ ToSet(t) = ToSet(s) \cup {id} /\ IsInjective(t)
      <4>1. /\ Append(s, id) \in Seq(D) /\ ToSet(Append(s, id)) = ToSet(s) \cup {id}
            /\ IsInjective(Append(s, id))
        BY <2>2, <2>3, AppendedProperties
      <4> QED
        BY <3>1, <4>1, Zenon
    <3>3. support'[i] = t
      BY <1>5, <2>1, <2>5, <3>1
    <3>4. ToSet(t) = {p \in DOMAIN plane' : config.supportList /\ i \in plane'[p].mask}
      BY <1>12, <2>2, <2>4, <2>5, <3>2
    <3> QED
      BY <3>2, <3>3, <3>4
  <2>6. CASE ~(config.supportList /\ i \in new.mask)
    <3>1. support'[i] = s
      BY <1>5, <2>1, <2>6
    <3>2. ToSet(s) = {p \in DOMAIN plane' : config.supportList /\ i \in plane'[p].mask}
      BY <1>12, <2>2, <2>4, <2>6
    <3> QED
      BY <2>2, <3>1, <3>2
  <2> QED
    BY <2>5, <2>6
<1>19. ListsAgree'
  BY <1>1, <1>16, <1>17, <1>18 DEF ListsAgree
<1>20. Coverage'
  <2>1. Full(id)' \/ plane'[id].mask = Support(node)
    BY <1>1, <1>10, <1>12 DEF Full, Mask
  <2>2. \A p \in DOMAIN plane : Full(p)' <=> Full(p)
    BY <1>1, <1>11, <1>12, SamePlane
  <2>3. \A p \in DOMAIN plane : plane'[p].mask = plane[p].mask
    BY <1>11, <1>12
  <2>4. \A p \in DOMAIN plane' : Full(p)' \/ \E b \in expanded' : plane'[p].mask = Support(b)
    BY <1>1, <1>12, <2>1, <2>2, <2>3 DEF Coverage
  <2>5. \A b \in expanded' : Successors(b)' \subseteq touched'
    BY <1>1 DEF Coverage, Successors
  <2>6. pc' # "start" /\ pomdp'.initial \in touched' /\ touched' \subseteq pomdp'.reachable
    BY <1>1, <1>5 DEF Coverage
  <2>7. ~config'.extraPruning => \E p \in DOMAIN plane' : Full(p)'
    BY <1>1, <1>12, <2>2 DEF Coverage
  <2> QED
    BY <2>4, <2>5, <2>6, <2>7 DEF Coverage
<1>21. Delivered'
  <2> SUFFICES ASSUME NEW b \in touched
               PROVE  \E p \in DOMAIN plane' :
                        Delivers(p, b)' /\ (config.cache => p = bestPlane'[b])
    BY <1>1 DEF Delivered
  <2>1. b \in Belief
    BY <1>1 DEF TypeOK
  <2>2. CASE (taken \/ ~config.cache) /\ b = node
    <3>1. lbVal'[b] = value /\ ValueAt(id, b)' = value
      BY <1>4, <1>10, <1>12, <1>14, <2>1, <2>2 DEF ValueAt
    <3>2. Applicable(id, b)'
      BY <1>1, <1>10, <1>12, <2>2 DEF Applicable, Mask
    <3>3. config.cache => bestPlane'[b] = id
      BY <1>14, <2>1, <2>2
    <3> QED
      BY <1>8, <1>12, <3>1, <3>2, <3>3 DEF Delivers
  <2>3. CASE ~((taken \/ ~config.cache) /\ b = node)
    <3>1. lbVal'[b] = lbVal[b] /\ bestPlane'[b] = bestPlane[b]
      BY <1>14, <2>1, <2>3
    <3>2. PICK p \in DOMAIN plane : Delivers(p, b) /\ (config.cache => p = bestPlane[b])
      BY <1>1 DEF Delivered
    <3>3. /\ Applicable(p, b)' <=> Applicable(p, b)
          /\ ValueAt(p, b)' = ValueAt(p, b)
      BY <1>1, <1>11, <1>12, SamePlane
    <3> QED
      BY <1>12, <3>1, <3>2, <3>3 DEF Delivers
  <2> QED
    BY <2>2, <2>3
<1>22. TypeOK'
  <2>1. /\ lbVal' \in [Belief -> Int] /\ bestPlane' \in [Belief -> PlaneId]
        /\ lastSet' \in [Belief -> Nat]
    BY <1>5, <1>7, <1>8, <1>9
  <2>2. DOMAIN support' = State /\ \A i \in State : support'[i] \in Seq(DOMAIN plane')
    BY <1>5, <1>16, <1>18
  <2>3. numBackups' \in 0 .. MaxBackups /\ pc' \in Location
    BY <1>1, <1>5, <1>7 DEF Location
  <2>4. candidate' \in 1 .. Len(planes') + 1 /\ member' \in 0 .. candidate'
    BY <1>5, <1>17
  <2>5. DOMAIN plane' \subseteq PlaneId
    BY <1>1, <1>9, <1>12 DEF TypeOK
  <2> QED
    BY <1>1, <1>13, <1>16, <1>17, <2>1, <2>2, <2>3, <2>4, <2>5 DEF TypeOK
<1>23. InPlace'
  <2>1. \A p \in DOMAIN plane : p \in Nat /\ p <= NumActions + numBackups
    <3>1. \A p \in DOMAIN plane : p \in Nat /\ p <= NumActions + numBackups + 0
      BY <1>1 DEF TypeOK, InPlace, PlaneId
    <3> QED
      BY <1>7, <3>1
  <2>2. \A p \in DOMAIN plane' : p \in Nat /\ p <= NumActions + numBackups + 1
    BY <1>3, <1>7, <1>12, <2>1
  <2>3. \A p \in DOMAIN plane' :
          p <= NumActions + numBackups' + (IF pc' = "prune" THEN 1 ELSE 0)
    BY <1>5, <1>7, <2>2
  <2>4. pc' # "update" /\ member' = 0 /\ (pc' = "prune" => numBackups' < MaxBackups)
    BY <1>1, <1>5
  <2> QED
    BY <1>5, <1>7, <2>3, <2>4 DEF InPlace
<1> QED
  BY <1>15, <1>19, <1>20, <1>21, <1>22, <1>23 DEF Inv

\* Steps that do not touch planes, lists and nodes.
LEMMA SamePlanesInv ==
  ASSUME Inv, UNCHANGED <<problem, plane, planes, support, nodeVars, bestPlane>>,
         pc # "start", pc' # "start"
  PROVE  PointersAgree' /\ ListsAgree' /\ Coverage' /\ Delivered'
<1>1. /\ PointersAgree /\ ListsAgree /\ Coverage /\ Delivered
      /\ config' = config /\ pomdp' = pomdp
      /\ UNCHANGED <<touched, expanded, lbVal>>
  BY DEF Inv, config, pomdp, nodeVars
<1>2. \A p \in DOMAIN plane : Full(p)' <=> Full(p)
  BY SamePlane
<1>3. ASSUME NEW p \in DOMAIN plane, NEW b \in touched
      PROVE  Delivers(p, b)' <=> Delivers(p, b)
  <2>1. /\ Applicable(p, b)' <=> Applicable(p, b)
        /\ ValueAt(p, b)' = ValueAt(p, b)
    BY SamePlane
  <2> QED
    BY <1>1, <2>1 DEF Delivers
<1>4. PointersAgree' /\ ListsAgree'
  BY <1>1 DEF PointersAgree, ListsAgree
<1>5. Coverage'
  <2>1. \A b \in expanded' : Successors(b)' \subseteq touched'
    BY <1>1 DEF Coverage, Successors
  <2> QED
    BY <1>1, <1>2, <2>1 DEF Coverage
<1>6. Delivered'
  BY <1>1, <1>3 DEF Delivered
<1> QED
  BY <1>4, <1>5, <1>6

LEMMA WritePolicyInv ==
  ASSUME Inv, WritePolicy PROVE Inv'
<1>1. PointersAgree' /\ ListsAgree' /\ Coverage' /\ Delivered'
  BY SamePlanesInv DEF WritePolicy
<1>2. TypeOK /\ InPlace
  BY DEF Inv
<1>3. Len(planes) \in Nat
  BY <1>2 DEF TypeOK
<1>4. TypeOK'
  BY <1>2, <1>3 DEF TypeOK, WritePolicy, nodeVars, Location, Pruning
<1>5. InPlace'
  BY <1>2 DEF InPlace, WritePolicy, Pruning
<1> QED
  BY <1>1, <1>4, <1>5 DEF Inv

\* The steps of prunePlanes that delete nothing.
LEMMA KeepingInv ==
  ASSUME Inv, EnterMembers \/ KeepBoth \/ KeepCandidate PROVE Inv'
<1>1. /\ TypeOK /\ InPlace /\ Pruning /\ pc \in {"prune", "finalPrune"}
      /\ UNCHANGED <<problem, plane, planes, support, nodeVars, bestPlane, numBackups,
                     lastPruneNumPlanes, lastPruneNumBackups, pc, node>>
  BY DEF Inv, EnterMembers, KeepBoth, KeepCandidate, InMembers, pruneUnchanged, Pruning
<1>2. PointersAgree' /\ ListsAgree' /\ Coverage' /\ Delivered'
  BY <1>1, SamePlanesInv
<1>3. /\ Len(planes) \in Nat /\ candidate \in 1 .. Len(planes) + 1
      /\ member \in 0 .. candidate
      /\ member > 0 => candidate <= Len(planes)
  BY <1>1 DEF TypeOK, InPlace
<1>4. /\ candidate' \in 1 .. Len(planes) + 1 /\ member' \in 0 .. candidate'
      /\ member' > 0 => candidate' <= Len(planes)
  <2>1. CASE EnterMembers
    BY <1>3, <2>1 DEF EnterMembers
  <2>2. CASE KeepBoth
    BY <1>3, <2>2 DEF KeepBoth, InMembers, Following
  <2>3. CASE KeepCandidate
    BY <1>3, <2>3 DEF KeepCandidate
  <2> QED
    BY <2>1, <2>2, <2>3
<1>5. TypeOK'
  BY <1>1, <1>4 DEF TypeOK, nodeVars, Pruning
<1>6. InPlace'
  BY <1>1, <1>4 DEF InPlace, nodeVars, Pruning
<1> QED
  BY <1>2, <1>5, <1>6 DEF Inv

LEMMA EndPruneInv ==
  ASSUME Inv, EndPrune PROVE Inv'
<1>1. /\ TypeOK /\ InPlace /\ pc \in {"prune", "finalPrune"}
      /\ UNCHANGED <<problem, plane, planes, support, nodeVars, bestPlane, node>>
      /\ lastPruneNumPlanes' = Len(planes) /\ lastPruneNumBackups' = numBackups
      /\ \/ pc = "prune" /\ pc' = "idle" /\ numBackups' = numBackups + 1
         \/ pc = "finalPrune" /\ pc' = "written" /\ numBackups' = numBackups
  BY DEF Inv, EndPrune, Pruning
<1>2. PointersAgree' /\ ListsAgree' /\ Coverage' /\ Delivered'
  BY <1>1, SamePlanesInv
<1>3. /\ Len(planes) \in Nat /\ numBackups \in 0 .. MaxBackups
      /\ pc = "prune" => numBackups < MaxBackups
      /\ MaxBackups \in Nat /\ NumActions \in Nat
  BY <1>1, MaxPlanesAssumption, PomdpAssumption DEF TypeOK, InPlace
<1>4. numBackups' \in 0 .. MaxBackups /\ numBackups \in Nat
  BY <1>1, <1>3
<1>5. TypeOK'
  BY <1>1, <1>3, <1>4 DEF TypeOK, nodeVars, Pruning, Location
<1>6. InPlace'
  <2>1. \A p \in DOMAIN plane :
          p \in Nat /\ p <= NumActions + numBackups + (IF pc = "prune" THEN 1 ELSE 0)
    BY <1>1 DEF InPlace, TypeOK, PlaneId
  <2>2. \A p \in DOMAIN plane : p \in Nat /\ p <= NumActions + numBackups' + 0
    BY <1>1, <1>3, <2>1
  <2>3. pc' \notin {"update", "prune", "finalPrune"} /\ plane' = plane
    BY <1>1
  <2> QED
    BY <2>2, <2>3 DEF InPlace, Pruning
<1> QED
  BY <1>2, <1>5, <1>6 DEF Inv

-----------------------------------------------------------------------------
\* The steps of prunePlanes that delete.
LEMMA DropUnreferencedInv ==
  ASSUME Inv, DropUnreferenced PROVE Inv'
<1>1. /\ TypeOK /\ PointersAgree /\ ListsAgree /\ Coverage /\ Delivered /\ InPlace
      /\ config' = config /\ pomdp' = pomdp
      /\ UNCHANGED <<problem, touched, expanded, lbVal, lastSet, numBackups,
                     lastPruneNumPlanes, lastPruneNumBackups, pc, node, bestPlane,
                     candidate, member>>
      /\ Pruning /\ pc \in {"prune", "finalPrune"} /\ config.extraPruning
      /\ member = 0 /\ candidate <= Len(planes)
  BY DEF Inv, DropUnreferenced, pruneUnchanged, nodeVars, Pruning, config, pomdp
<1>2. config.cache
  BY <1>1, MaxPlanesAssumption DEF config, Config, TypeOK
<1>3. PICK st \in Seq(DOMAIN plane) : st = planes
  BY <1>1 DEF TypeOK
<1>4. PICK k \in 1 .. Len(st) : k = candidate
  BY <1>1, <1>3 DEF TypeOK
<1>5. PICK v \in DOMAIN plane : v = st[k]
  OBVIOUS
<1>6. /\ \A b \in Belief : plane[v].back[b] = 0
      /\ Delete(v) /\ plane' = Restrict(plane, DOMAIN plane \ {v})
      /\ planes' = RemoveAt(st, k)
  BY <1>3, <1>4, <1>5 DEF DropUnreferenced, Unreferenced
<1>7. /\ RemoveAt(st, k) \in Seq(DOMAIN plane) /\ Len(RemoveAt(st, k)) = Len(st) - 1
      /\ ToSet(RemoveAt(st, k)) = ToSet(st) \ {st[k]} /\ IsInjective(RemoveAt(st, k))
  BY <1>1, <1>3, RemoveAtProperties DEF ListsAgree
<1>8. /\ planes' \in Seq(DOMAIN plane) /\ Len(planes') = Len(st) - 1
      /\ ToSet(planes') = DOMAIN plane \ {v} /\ IsInjective(planes')
  BY <1>1, <1>3, <1>5, <1>6, <1>7 DEF ListsAgree
<1>9. /\ DOMAIN plane' = DOMAIN plane \ {v}
      /\ \A p \in DOMAIN plane' : plane'[p] = plane[p]
      /\ plane' \in [DOMAIN plane' -> Plane]
  BY <1>1, <1>6 DEF Restrict, TypeOK
<1>10. /\ ListsAgree' /\ planes' \in Seq(DOMAIN plane')
       /\ DOMAIN support' = State /\ \A i \in State : support'[i] \in Seq(DOMAIN plane')
  BY <1>1, <1>6, <1>8, <1>9, DeleteKeepsLists
<1>11. \A b \in touched : b \in Belief /\ bestPlane[b] \in DOMAIN plane /\ bestPlane[b] # v
  <2> TAKE b \in touched
  <2>1. b \in Belief /\ bestPlane[b] \in DOMAIN plane
    BY <1>1, <1>2 DEF PointersAgree, TypeOK
  <2>2. plane[v].back[b] = IF config.cache /\ b \in touched /\ bestPlane[b] = v THEN 1 ELSE 0
    BY <1>1, <2>1 DEF PointersAgree
  <2> QED
    BY <1>2, <1>6, <2>1, <2>2
<1>12. PointersAgree'
  BY <1>1, <1>9, <1>11 DEF PointersAgree
<1>13. ASSUME NEW p \in DOMAIN plane', NEW b
       PROVE  (Delivers(p, b)' <=> Delivers(p, b)) /\ (Full(p)' <=> Full(p))
  <2>1. /\ Applicable(p, b)' <=> Applicable(p, b)
        /\ ValueAt(p, b)' = ValueAt(p, b)
        /\ Full(p)' <=> Full(p)
    BY <1>1, <1>9, SamePlane
  <2> QED
    BY <1>1, <2>1 DEF Delivers
<1>14. Coverage'
  <2>1. \A p \in DOMAIN plane' : Full(p)' \/ \E b \in expanded' : plane'[p].mask = Support(b)
    BY <1>1, <1>9, <1>13 DEF Coverage
  <2>2. \A b \in expanded' : Successors(b)' \subseteq touched'
    BY <1>1 DEF Coverage, Successors
  <2> QED
    BY <1>1, <2>1, <2>2 DEF Coverage
<1>15. Delivered'
  <2> SUFFICES ASSUME NEW b \in touched
               PROVE  \E p \in DOMAIN plane' : Delivers(p, b)' /\ p = bestPlane[b]
    BY <1>1 DEF Delivered
  <2>1. bestPlane[b] \in DOMAIN plane' /\ Delivers(bestPlane[b], b)
    BY <1>1, <1>2, <1>9, <1>11 DEF Delivered
  <2>2. PICK p \in DOMAIN plane' : p = bestPlane[b] /\ Delivers(p, b)
    BY <2>1
  <2> QED
    BY <1>13, <2>2
<1>16. TypeOK'
  <2>1. candidate' \in 1 .. Len(planes') + 1 /\ member' \in 0 .. candidate'
    BY <1>1, <1>3, <1>4, <1>8
  <2>2. DOMAIN plane' \subseteq PlaneId
    BY <1>1, <1>9 DEF TypeOK
  <2> QED
    BY <1>1, <1>9, <1>10, <2>1, <2>2 DEF TypeOK
<1>17. InPlace'
  BY <1>1, <1>9 DEF InPlace
<1> QED
  BY <1>10, <1>12, <1>14, <1>15, <1>16, <1>17 DEF Inv

\* A victim goes, and its dominator takes its nodes.
LEMMA DominatedGoes ==
  ASSUME Inv, Pruning, NEW v \in DOMAIN plane, NEW d \in DOMAIN plane, v # d,
         Dominates(d, v), Delete(v), Forward(v, d), UNCHANGED pruneUnchanged,
         planes' \in Seq(DOMAIN plane), ToSet(planes') = DOMAIN plane \ {v},
         IsInjective(planes'),
         candidate' \in 1 .. Len(planes') + 1, member' \in 0 .. candidate',
         member' > 0 => candidate' <= Len(planes')
  PROVE  Inv'
<1>1. /\ TypeOK /\ InPlace /\ pc \in {"prune", "finalPrune"}
      /\ UNCHANGED <<problem, touched, expanded, lbVal, lastSet, numBackups,
                     lastPruneNumPlanes, lastPruneNumBackups, pc, node>>
  BY DEF Inv, pruneUnchanged, nodeVars, Pruning
<1>2. /\ DOMAIN plane' = DOMAIN plane \ {v}
      /\ plane' \in [DOMAIN plane' -> Plane]
      /\ \A p \in DOMAIN plane' : plane'[p].mask = plane[p].mask
      /\ bestPlane' \in [Belief -> PlaneId]
      /\ PointersAgree' /\ Coverage' /\ Delivered'
  BY ForwardKeeps DEF pruneUnchanged
<1>3. /\ ListsAgree' /\ planes' \in Seq(DOMAIN plane')
      /\ DOMAIN support' = State /\ \A i \in State : support'[i] \in Seq(DOMAIN plane')
  BY <1>1, <1>2, DeleteKeepsLists
<1>4. TypeOK'
  <2>1. DOMAIN plane' \subseteq PlaneId
    BY <1>1, <1>2 DEF TypeOK
  <2> QED
    BY <1>1, <1>2, <1>3, <2>1 DEF TypeOK
<1>5. InPlace'
  BY <1>1, <1>2 DEF InPlace
<1> QED
  BY <1>2, <1>3, <1>4, <1>5 DEF Inv

\* The two planes that are compared are different ones of the list.
LEMMA ComparedPlanes ==
  ASSUME Inv, InMembers
  PROVE  /\ planes \in Seq(DOMAIN plane) /\ Len(planes) \in Nat
         /\ ToSet(planes) = DOMAIN plane /\ IsInjective(planes)
         /\ candidate \in 1 .. Len(planes) /\ member \in 1 .. candidate - 1
         /\ planes[candidate] \in DOMAIN plane /\ planes[member] \in DOMAIN plane
         /\ planes[candidate] # planes[member]
<1>1. TypeOK /\ ListsAgree /\ InPlace /\ Pruning /\ member > 0 /\ member < candidate
  BY DEF Inv, InMembers
<1>2. PICK st \in Seq(DOMAIN plane) : st = planes
  BY <1>1 DEF TypeOK
<1>3. Len(st) \in Nat /\ ToSet(st) = DOMAIN plane /\ IsInjective(st)
  BY <1>1, <1>2 DEF ListsAgree
<1>4. candidate \in 1 .. Len(st) /\ member \in 1 .. candidate - 1
  BY <1>1, <1>2, <1>3 DEF TypeOK, InPlace
<1>5. PICK c \in 1 .. Len(st), m \in 1 .. Len(st) : c = candidate /\ m = member /\ c # m
  BY <1>3, <1>4
<1>6. st[c] \in DOMAIN plane /\ st[m] \in DOMAIN plane /\ st[c] # st[m]
  BY <1>3, <1>5 DEF IsInjective
<1> QED
  BY <1>2, <1>3, <1>4, <1>5, <1>6

LEMMA DropMemberInv ==
  ASSUME Inv, DropMember PROVE Inv'
<1>1. InMembers /\ Pruning
  BY DEF DropMember, InMembers
<1>2. PICK st \in Seq(DOMAIN plane) :
        /\ st = planes /\ Len(st) \in Nat /\ ToSet(st) = DOMAIN plane /\ IsInjective(st)
        /\ candidate \in 1 .. Len(st) /\ member \in 1 .. candidate - 1
  BY <1>1, ComparedPlanes
<1>3. PICK m \in 1 .. Len(st) : m = member
  BY <1>2
<1>4. PICK v \in DOMAIN plane, d \in DOMAIN plane :
        v = planes[member] /\ d = planes[candidate] /\ v # d
  BY <1>1, ComparedPlanes
<1>5. /\ Dominates(d, v) /\ Delete(v) /\ Forward(v, d) /\ UNCHANGED pruneUnchanged
      /\ planes' = RemoveAt(st, m) /\ candidate' = candidate - 1 /\ member' = member
  BY <1>2, <1>3, <1>4 DEF DropMember
<1>6. /\ RemoveAt(st, m) \in Seq(DOMAIN plane) /\ Len(RemoveAt(st, m)) = Len(st) - 1
      /\ ToSet(RemoveAt(st, m)) = ToSet(st) \ {st[m]} /\ IsInjective(RemoveAt(st, m))
  BY <1>2, RemoveAtProperties
<1>7. /\ planes' \in Seq(DOMAIN plane) /\ Len(planes') = Len(st) - 1
      /\ ToSet(planes') = DOMAIN plane \ {v} /\ IsInjective(planes')
  BY <1>2, <1>3, <1>4, <1>5, <1>6
<1>8. /\ candidate' \in 1 .. Len(planes') + 1 /\ member' \in 0 .. candidate'
      /\ member' > 0 => candidate' <= Len(planes')
  BY <1>2, <1>5, <1>7
<1> QED
  BY <1>1, <1>4, <1>5, <1>7, <1>8, DominatedGoes

LEMMA DropCandidateInv ==
  ASSUME Inv, DropCandidate PROVE Inv'
<1>1. InMembers /\ Pruning
  BY DEF DropCandidate, InMembers
<1>2. PICK st \in Seq(DOMAIN plane) :
        /\ st = planes /\ Len(st) \in Nat /\ ToSet(st) = DOMAIN plane /\ IsInjective(st)
        /\ candidate \in 1 .. Len(st) /\ member \in 1 .. candidate - 1
  BY <1>1, ComparedPlanes
<1>3. PICK c \in 1 .. Len(st) : c = candidate
  BY <1>2
<1>4. PICK d \in DOMAIN plane, v \in DOMAIN plane :
        v = planes[candidate] /\ d = planes[member] /\ v # d
  BY <1>1, ComparedPlanes
<1>5. PICK r : r = RemoveAt(st, c)
  BY Zenon
<1>6. /\ r \in Seq(DOMAIN plane) /\ Len(r) = Len(st) - 1
      /\ ToSet(r) = ToSet(st) \ {st[c]} /\ IsInjective(r)
  <2>1. /\ RemoveAt(st, c) \in Seq(DOMAIN plane) /\ Len(RemoveAt(st, c)) = Len(st) - 1
        /\ ToSet(RemoveAt(st, c)) = ToSet(st) \ {st[c]} /\ IsInjective(RemoveAt(st, c))
    BY <1>2, RemoveAtProperties
  <2> QED
    BY <1>5, <2>1, Zenon
<1>7. PICK m \in 1 .. Len(r) : m = member
  BY <1>2, <1>6
<1>8. /\ Promoted(r, m) \in Seq(DOMAIN plane) /\ Len(Promoted(r, m)) = Len(r)
      /\ ToSet(Promoted(r, m)) = ToSet(r) /\ IsInjective(Promoted(r, m))
  BY <1>6, PromotedProperties
<1>9. /\ Dominates(d, v) /\ Delete(v) /\ Forward(v, d) /\ UNCHANGED pruneUnchanged
      /\ planes' = Promoted(r, m) /\ candidate' = candidate /\ member' = 0
  BY <1>2, <1>3, <1>4, <1>5, <1>7 DEF DropCandidate
<1>10. /\ planes' \in Seq(DOMAIN plane) /\ Len(planes') = Len(st) - 1
       /\ ToSet(planes') = DOMAIN plane \ {v} /\ IsInjective(planes')
  BY <1>2, <1>3, <1>4, <1>6, <1>8, <1>9
<1>11. /\ candidate' \in 1 .. Len(planes') + 1 /\ member' \in 0 .. candidate'
       /\ member' > 0 => candidate' <= Len(planes')
  BY <1>2, <1>9, <1>10
<1> QED
  BY <1>1, <1>4, <1>9, <1>10, <1>11, DominatedGoes

-----------------------------------------------------------------------------
\* No plane is worth more than can be earned.

\* What may be expected from the states of a belief is what the vectors are
\* worth at the weights each observation leaves.
LEMMA ExpectedPushed ==
  ASSUME problem \in Problems, NEW b \in Belief, NEW a \in Action,
         NEW beta \in [Observation -> Vector],
         NEW G, G = [o \in Observation |->
                       Inner(beta[o], Pushed(b, pomdp.trans, pomdp.obs, a, o))],
         NEW e, e = [i \in State |-> b[i] * Expected(a, beta, i)]
  PROVE  /\ G \in [Observation -> Int] /\ e \in [State -> Int]
         /\ Total(e) = Total(G)
<1> DEFINE N == [i \in State |-> [o \in Observation |->
                   b[i] * Observed(pomdp, a, beta[o], i, o)]]
<1>1. \A i \in State, o \in Observation :
        /\ b[i] \in Int /\ Observed(pomdp, a, beta[o], i, o) \in Int
        /\ Expected(a, beta, i) \in Int
  BY BeliefType, ObservedType, ExpectedType DEF pomdp
<1>2. N \in [State -> [Observation -> Int]]
  BY <1>1, TimesInt
<1>3. e \in [State -> Int]
  <2>1. \A i \in State : b[i] * Expected(a, beta, i) \in Int
    BY BeliefType, ExpectedType, TimesInt
  <2> QED
    BY <2>1
<1>4. ASSUME NEW i \in State PROVE Total(N[i]) = e[i]
  <2>1. PICK f \in [Observation -> Int] :
          f = [o \in Observation |-> Observed(pomdp, a, beta[o], i, o)]
    BY <1>1
  <2>2. PICK g \in [Observation -> Int] : g = N[i]
    BY <1>2
  <2>3. PICK k \in Int : k = b[i]
    BY BeliefType
  <2>4. \A o \in Observation : g[o] = k * f[o]
    BY <2>1, <2>2, <2>3
  <2>5. Expected(a, beta, i) = Total(f)
    BY <2>1 DEF Expected, Observed
  <2>6. e[i] = k * Total(f)
    BY <2>3, <2>5
  <2> HIDE DEF N
  <2>7. Total(g) = k * Total(f)
    BY <2>4, Finite, TotalScaled
  <2> QED
    BY <2>2, <2>6, <2>7, Zenon
<1>5. ASSUME NEW o \in Observation
      PROVE  Total([i \in State |-> N[i][o]]) = G[o] /\ G[o] \in Int
  <2>1. PICK w \in Vector : w = beta[o]
    OBVIOUS
  <2>2. PICK f : f = [i \in State |-> b[i] * Observed(pomdp, a, w, i, o)]
    OBVIOUS
  <2>3. f \in [State -> Int] /\ Inner(w, Pushed(b, pomdp.trans, pomdp.obs, a, o)) = Total(f)
    BY <2>2, PushedValue DEF pomdp
  <2>4. [i \in State |-> N[i][o]] = f
    BY <2>1, <2>2
  <2>5. Total(f) \in Int
    BY <2>3, Finite, TotalType
  <2>6. G[o] = Total(f)
    BY <2>1, <2>3
  <2> HIDE DEF N
  <2> QED
    BY <2>4, <2>5, <2>6
<1>6. Total([i \in State |-> Total(N[i])]) =
        Total([o \in Observation |-> Total([i \in State |-> N[i][o]])])
  <2> HIDE DEF N
  <2> QED
    BY <1>2, Finite, TotalSwap
<1> HIDE DEF N
<1>7. [i \in State |-> Total(N[i])] = e
  BY <1>3, <1>4
<1>8. [o \in Observation |-> Total([i \in State |-> N[i][o]])] = G
  BY <1>5
<1>9. G \in [Observation -> Int]
  BY <1>5
<1>10. Total(e) = Total(G)
  BY <1>6, <1>7, <1>8, Zenon
<1> QED
  BY <1>3, <1>9, <1>10

\* An inequality at each state that a belief gives weight to holds of the
\* weighted sums.
LEMMA WeightedBelow ==
  ASSUME NEW b \in Belief, NEW u \in Vector, NEW e \in [State -> Int],
         NEW D \in Nat, NEW c \in Nat,
         \A i \in Support(b) : D * u[i] <= c * e[i]
  PROVE  D * Inner(u, b) <= c * Total([i \in State |-> b[i] * e[i]])
<1>1. PICK x \in [State -> Int] : x = [i \in State |-> b[i] * u[i]]
  <2>1. \A i \in State : b[i] * u[i] \in Int
    BY BeliefType, TimesInt DEF Vector
  <2> QED
    BY <2>1
<1>2. PICK y \in [State -> Int] : y = [i \in State |-> b[i] * e[i]]
  <2>1. \A i \in State : b[i] * e[i] \in Int
    BY BeliefType, TimesInt
  <2> QED
    BY <2>1
<1>3. PICK f \in [State -> Int] : f = [i \in State |-> D * x[i]]
  <2>1. \A i \in State : D * x[i] \in Int
    BY TimesInt
  <2> QED
    BY <2>1
<1>4. PICK g \in [State -> Int] : g = [i \in State |-> c * y[i]]
  <2>1. \A i \in State : c * y[i] \in Int
    BY TimesInt
  <2> QED
    BY <2>1
<1>5. ASSUME NEW i \in State PROVE f[i] <= g[i]
  <2>1. PICK k \in Nat, s \in Int, t \in Int : k = b[i] /\ s = u[i] /\ t = e[i]
    BY BeliefType DEF Vector
  <2>2. f[i] = D * (k * s) /\ g[i] = c * (k * t)
    BY <1>1, <1>2, <1>3, <1>4, <2>1
  <2>3. D * (k * s) = k * (D * s) /\ c * (k * t) = k * (c * t)
    OBVIOUS
  <2>4. CASE k = 0
    <3>1. k * s = 0 /\ k * t = 0
      BY <2>4
    <3>2. D * 0 = 0 /\ c * 0 = 0
      OBVIOUS
    <3> QED
      BY <2>2, <3>1, <3>2
  <2>5. CASE k # 0
    <3>1. i \in Support(b)
      BY <2>1, <2>5 DEF Support
    <3>2. D * s <= c * t
      BY <2>1, <3>1
    <3>3. k * (D * s) <= k * (c * t)
      BY <3>2, TimesInt, TimesMonotone
    <3> QED
      BY <2>2, <2>3, <3>3
  <2> QED
    BY <2>4, <2>5
<1>6. Total(f) <= Total(g)
  BY <1>5, Finite, TotalMonotone
<1>7. Total(f) = D * Total(x)
  <2>1. D \in Int /\ \A i \in State : f[i] = D * x[i]
    BY <1>3
  <2> QED
    BY <2>1, Finite, TotalScaled
<1>8. Total(g) = c * Total(y)
  <2>1. c \in Int /\ \A i \in State : g[i] = c * y[i]
    BY <1>4
  <2> QED
    BY <2>1, Finite, TotalScaled
<1>9. Inner(u, b) = Total(x)
  BY <1>1 DEF Inner
<1> QED
  BY <1>2, <1>6, <1>7, <1>8, <1>9

\* What the vectors gone on with are worth after an observation, if they are
\* below the ceiling.
LEMMA GoingOnAbove ==
  ASSUME problem \in Problems, NEW b \in pomdp.reachable, NEW a \in Action,
         NEW beta \in [Observation -> Vector],
         \A o \in Observation : pomdp.next[b][a][o] # NoBelief =>
           Inner(beta[o], pomdp.next[b][a][o]) <= Ceiling[problem][pomdp.next[b][a][o]],
         NEW G \in [Observation -> Int],
         G = [o \in Observation |-> Inner(beta[o], Pushed(b, pomdp.trans, pomdp.obs, a, o))]
  PROVE  /\ GoingOn(pomdp, Ceiling[problem], b, a) \in Int
         /\ Total(G) <= GoingOn(pomdp, Ceiling[problem], b, a)
<1>1. PICK C \in [Belief -> Int] : C = Ceiling[problem]
  BY CeilingAssumption
<1>2. PICK p : p = pomdp /\ p = Pomdps[problem]
  BY DEF pomdp
<1> DEFINE after(o) == p.next[b][a][o]
           weights(o) == Pushed(b, p.trans, p.obs, a, o)
           H == [o \in Observation |-> IF after(o) = NoBelief THEN 0
                                       ELSE weights(o)[First(after(o))] * C[after(o)]]
<1>3. ASSUME NEW o \in Observation PROVE H[o] \in Int /\ G[o] <= H[o]
  <2>1. PICK w \in Vector : w = beta[o]
    OBVIOUS
  <2>2. PICK c, v : c = after(o) /\ v = weights(o)
    OBVIOUS
  <2>3. /\ G[o] = Inner(w, v)
        /\ H[o] = IF c = NoBelief THEN 0 ELSE v[First(c)] * C[c]
        /\ c # NoBelief => Inner(w, c) <= C[c]
    BY <1>1, <1>2, <2>1, <2>2
  <2>4. c = p.next[b][a][o] /\ v = Pushed(b, p.trans, p.obs, a, o) /\ b \in p.reachable
    BY <1>2, <2>2
  <2>5. /\ c = NoBelief => Inner(w, v) = 0
        /\ c # NoBelief => /\ c \in p.reachable /\ v[First(c)] \in Nat
                           /\ Inner(w, v) = v[First(c)] * Inner(w, c)
    BY <1>2, <2>4, PushedToNext
  <2> HIDE DEF H
  <2>6. CASE c = NoBelief
    BY <2>3, <2>5, <2>6
  <2>7. CASE c # NoBelief
    <3>1. c \in Belief
      BY <1>2, <2>5, <2>7, PomdpFields
    <3>2. PICK k \in Nat, x \in Int, y \in Int :
            k = v[First(c)] /\ x = Inner(w, c) /\ y = C[c]
      BY <2>5, <2>7, <3>1, BeliefType, InnerType
    <3>3. k * x <= k * y /\ k * y \in Int
      BY <2>3, <2>7, <3>2, TimesMonotone, TimesInt
    <3> QED
      BY <2>3, <2>5, <2>7, <3>2, <3>3
  <2> QED
    BY <2>6, <2>7
<1>4. GoingOn(pomdp, Ceiling[problem], b, a) = Total(H)
  BY <1>1, <1>2 DEF GoingOn
<1>5. H \in [Observation -> Int]
  <2>1. DOMAIN H = Observation /\ H = [o \in Observation |-> H[o]]
    OBVIOUS
  <2> HIDE DEF H
  <2> QED
    BY <1>3, <2>1
<1> HIDE DEF H
<1>6. Total(G) <= Total(H) /\ Total(H) \in Int
  BY <1>3, <1>5, Finite, TotalMonotone, TotalType
<1> QED
  BY <1>4, <1>6

\* So a backup is below the ceiling wherever its plane may be used.
LEMMA BackupIsSound ==
  ASSUME Inv, LowerBoundSound, NEW b \in expanded, NEW a \in Action,
         NEW c \in pomdp.reachable, config.masking => Support(c) \subseteq Support(b)
  PROVE  Inner(BackedUp(b, a).alpha, c) <= Ceiling[problem][c]
<1>1. /\ problem \in Problems /\ c \in Belief /\ b \in pomdp.reachable
      /\ Ceiling[problem][c] \in Int
  BY CeilingAssumption, ReachableClosed DEF Inv, TypeOK, Coverage
<1>2. PICK beta \in [Observation -> Vector] :
        /\ \A o \in Observation : \E p \in DOMAIN plane :
             /\ beta[o] = plane[p].alpha
             /\ pomdp.next[b][a][o] # NoBelief => Applicable(p, pomdp.next[b][a][o])
        /\ \A i \in State : (config.masking => i \in Support(b)) =>
             Den * Den * Den * (BackedUp(b, a).alpha[i] - pomdp.reward[a][i])
               <= pomdp.discount * Expected(a, beta, i)
  BY BackedUpType
<1>3. ASSUME NEW o \in Observation, pomdp.next[c][a][o] # NoBelief
      PROVE  Inner(beta[o], pomdp.next[c][a][o]) <= Ceiling[problem][pomdp.next[c][a][o]]
  <2>1. PICK p \in DOMAIN plane :
          /\ beta[o] = plane[p].alpha
          /\ pomdp.next[b][a][o] # NoBelief => Applicable(p, pomdp.next[b][a][o])
    BY <1>2
  <2>2. Applicable(p, pomdp.next[c][a][o])
    <3>1. CASE config.masking
      <4>1. /\ pomdp.next[b][a][o] # NoBelief
            /\ Support(pomdp.next[c][a][o]) \subseteq Support(pomdp.next[b][a][o])
        BY <1>1, <1>3, <3>1, MoreStates
      <4> QED
        BY <2>1, <4>1 DEF Applicable
    <3>2. CASE ~config.masking
      BY <3>2 DEF Applicable
    <3> QED
      BY <3>1, <3>2
  <2>3. pomdp.next[c][a][o] \in pomdp.reachable
    BY <1>1, <1>3, ReachableClosed DEF Successors, SuccessorsIn
  <2>4. ValueAt(p, pomdp.next[c][a][o]) <= Ceiling[problem][pomdp.next[c][a][o]]
    BY <2>2, <2>3 DEF LowerBoundSound
  <2> QED
    BY <2>1, <2>4 DEF ValueAt
<1>4. PICK value \in Vector, R \in Vector :
        value = BackedUp(b, a).alpha /\ R = pomdp.reward[a]
  BY <1>1, BackedUpType, PomdpFields DEF Plane, pomdp
<1>5. PICK D \in Nat \ {0}, g \in Nat : D = Den * Den * Den /\ g = pomdp.discount
  BY <1>1, Denominators, PomdpFields DEF pomdp
<1>6. PICK e \in [State -> Int] : e = [i \in State |-> Expected(a, beta, i)]
  BY <1>1, ExpectedType
<1>7. PICK u \in Vector : u = Minus(value, R) /\ Inner(u, c) = Inner(value, c) - Inner(R, c)
  BY <1>1, InnerMinus
<1>8. \A i \in Support(c) : D * u[i] <= g * e[i]
  <2> SUFFICES ASSUME NEW i \in Support(c) PROVE D * u[i] <= g * e[i]
    OBVIOUS
  <2>1. i \in State /\ (config.masking => i \in Support(b))
    BY DEF Support
  <2>2. u[i] = BackedUp(b, a).alpha[i] - pomdp.reward[a][i] /\ e[i] = Expected(a, beta, i)
    BY <1>4, <1>6, <1>7, <2>1 DEF Minus
  <2>3. Den * Den * Den * (BackedUp(b, a).alpha[i] - pomdp.reward[a][i])
          <= pomdp.discount * Expected(a, beta, i)
    BY <1>2, <2>1
  <2> QED
    BY <1>5, <2>2, <2>3, Zenon
<1>9. D * Inner(u, c) <= g * Total([i \in State |-> c[i] * e[i]])
  BY <1>1, <1>8, WeightedBelow
<1>10. PICK G, h :
         /\ G = [o \in Observation |-> Inner(beta[o], Pushed(c, pomdp.trans, pomdp.obs, a, o))]
         /\ h = [i \in State |-> c[i] * Expected(a, beta, i)]
  OBVIOUS
<1>11. G \in [Observation -> Int] /\ Total(h) = Total(G)
  BY <1>1, <1>10, ExpectedPushed
<1>12. [i \in State |-> c[i] * e[i]] = h
  BY <1>6, <1>10
<1>13. PICK T \in Int : T = GoingOn(pomdp, Ceiling[problem], c, a) /\ Total(G) <= T
  BY <1>1, <1>3, <1>10, <1>11, GoingOnAbove
<1>14. PICK x \in Int, r \in Int, S \in Int, y \in Int :
         x = Inner(value, c) /\ r = Inner(R, c) /\ S = Total(G) /\ y = Ceiling[problem][c]
  BY <1>1, <1>11, Finite, TotalType, InnerType, BeliefType
<1>15. D * (x - r) <= g * S
  BY <1>7, <1>9, <1>11, <1>12, <1>14
<1>16. g * S <= g * T
  BY <1>13, <1>14, TimesMonotone
<1>17. D * r + g * T <= D * y
  BY <1>1, <1>4, <1>5, <1>13, <1>14, CeilingAssumption DEF pomdp
<1>18. D * x <= D * y
  <2>1. D * (x - r) = D * x - D * r
    OBVIOUS
  <2>2. D * x \in Int /\ D * r \in Int /\ D * y \in Int /\ g * S \in Int /\ g * T \in Int
    BY TimesInt
  <2> QED
    BY <1>15, <1>16, <1>17, <2>1, <2>2
<1>19. x <= y
  BY <1>18, TimesStrict
<1> QED
  BY <1>4, <1>14, <1>19

\* The planes after a step, if it makes none.
OldPlanes ==
  /\ problem' = problem /\ DOMAIN plane' \subseteq DOMAIN plane
  /\ \A p \in DOMAIN plane' :
       plane'[p].alpha = plane[p].alpha /\ plane'[p].mask = plane[p].mask

LEMMA OldPlanesSound ==
  ASSUME LowerBoundSound, OldPlanes PROVE LowerBoundSound'
<1> SUFFICES ASSUME NEW p \in DOMAIN plane', NEW b \in pomdp'.reachable, Applicable(p, b)'
             PROVE  ValueAt(p, b)' <= Ceiling[problem'][b]
  BY DEF LowerBoundSound
<1>1. /\ Applicable(p, b)' <=> Applicable(p, b)
      /\ ValueAt(p, b)' = ValueAt(p, b)
  BY SamePlane DEF OldPlanes
<1>2. p \in DOMAIN plane /\ b \in pomdp.reachable /\ problem' = problem
  BY DEF OldPlanes, pomdp
<1> QED
  BY <1>1, <1>2 DEF LowerBoundSound

\* A new plane is the backup of some action at the node.
LEMMA AddPlaneSound ==
  ASSUME Inv, LowerBoundSound, AddPlane PROVE LowerBoundSound'
<1>1. /\ TypeOK /\ node \in expanded /\ problem' = problem
      /\ pomdp' = pomdp /\ config' = config
  BY DEF Inv, InPlace, AddPlane, pomdp, config
<1>2. PICK new \in Plane, a \in Action :
        /\ new = NewPlane(node) /\ new.mask = Mask(node)
        /\ new.alpha = BackedUp(node, a).alpha
  BY <1>1, NewPlaneType
<1>3. PICK id : id = NumActions + numBackups + 1
  BY Zenon
<1>4. PICK value : value = Inner(new.alpha, node)
  BY Zenon
<1> DEFINE taken == config.cache /\ value >= lbVal[node]
           rest == IF taken THEN Unlinked(node) ELSE plane
           added == [new EXCEPT !.back[node] = IF taken THEN 1 ELSE 0]
<1>5. plane' = [p \in DOMAIN plane \cup {id} |-> IF p = id THEN added ELSE rest[p]]
  BY <1>2, <1>3, <1>4 DEF AddPlane
<1>6. added.alpha = new.alpha /\ added.mask = new.mask
  BY DEF Plane
<1>7. ASSUME NEW p \in DOMAIN plane
      PROVE  rest[p].alpha = plane[p].alpha /\ rest[p].mask = plane[p].mask
  <2>1. plane[p] \in Plane
    BY <1>1 DEF TypeOK
  <2>2. CASE taken /\ bestPlane[node] = p
    <3>1. PICK r : r = [plane[p].back EXCEPT ![node] = @ - 1]
      BY Zenon
    <3>2. rest[p] = [plane[p] EXCEPT !.back = r]
      BY <2>2, <3>1 DEF Unlinked
    <3> HIDE DEF rest
    <3> QED
      BY <2>1, <3>2 DEF Plane
  <2>3. CASE ~(taken /\ bestPlane[node] = p)
    BY <2>3 DEF Unlinked
  <2> QED
    BY <2>2, <2>3
<1> HIDE DEF taken, added, rest
<1> SUFFICES ASSUME NEW p \in DOMAIN plane', NEW b \in pomdp'.reachable, Applicable(p, b)'
             PROVE  ValueAt(p, b)' <= Ceiling[problem'][b]
  BY DEF LowerBoundSound
<1>8. CASE p = id
  <2>1. plane'[p].alpha = BackedUp(node, a).alpha /\ plane'[p].mask = Mask(node)
    BY <1>2, <1>5, <1>6, <1>8
  <2>2. config.masking => Support(b) \subseteq Support(node)
    BY <1>1, <2>1 DEF Applicable, Mask
  <2>3. Inner(BackedUp(node, a).alpha, b) <= Ceiling[problem][b]
    BY <1>1, <2>2, BackupIsSound
  <2> QED
    BY <1>1, <2>1, <2>3 DEF ValueAt
<1>9. CASE p # id
  <2>1. p \in DOMAIN plane /\ plane'[p] = rest[p]
    BY <1>5, <1>9
  <2>2. /\ Applicable(p, b)' <=> Applicable(p, b)
        /\ ValueAt(p, b)' = ValueAt(p, b)
    BY <1>1, <1>7, <2>1, SamePlane
  <2> QED
    BY <1>1, <2>1, <2>2 DEF LowerBoundSound
<1> QED
  BY <1>8, <1>9

\* The first planes are those of the blind policies.
LEMMA InitSound == Init => LowerBoundSound
<1> SUFFICES ASSUME Init, NEW p \in DOMAIN plane, NEW b \in pomdp.reachable
             PROVE  ValueAt(p, b) <= Ceiling[problem][b]
  BY DEF LowerBoundSound
<1>1. problem \in Problems
  BY DEF Init
<1>2. PICK ages : plane = [q \in 1 .. NumActions |->
                [ alpha |-> pomdp.blind[q - 1], action |-> q - 1,
                  mask |-> IF config.masking THEN State ELSE {},
                  created |-> ages[q], back |-> [c \in Belief |-> 0] ]]
  BY DEF Init
<1>3. p \in 1 .. NumActions /\ plane[p].alpha = pomdp.blind[p - 1]
  BY <1>2
<1>4. p - 1 \in Action
  BY <1>3, PomdpAssumption DEF Action
<1>5. Inner(pomdp.blind[p - 1], b) <= Ceiling[problem][b]
  BY <1>1, <1>4, CeilingAssumption DEF pomdp
<1> QED
  BY <1>3, <1>5 DEF ValueAt

\* Only AddPlane makes a plane.
LEMMA NextSound ==
  ASSUME Inv, LowerBoundSound, [Next]_vars, pc' # "read" PROVE LowerBoundSound'
<1>1. TypeOK /\ Coverage /\ problem \in Problems /\ touched \subseteq pomdp.reachable
  BY DEF Inv, TypeOK, Coverage
<1>2. CASE AddPlane
  BY <1>2, AddPlaneSound
<1>3. ASSUME problem' = problem, plane' = plane PROVE LowerBoundSound'
  BY <1>3, OldPlanesSound DEF OldPlanes
<1>4. CASE TouchRoot
  <2>1. {pomdp.initial} \in SUBSET pomdp.reachable
    BY <1>1, ReachableClosed
  <2>2. OldPlanes
    BY <1>4, <2>1, TouchKeeps DEF TouchRoot, OldPlanes
  <2> QED
    BY <2>2, OldPlanesSound
<1>5. ASSUME NEW b \in Belief, Update(b) PROVE LowerBoundSound'
  <2>1. PICK B : B = IF b \in expanded THEN {} ELSE Successors(b)
    BY Zenon
  <2>2. UNCHANGED <<problem, planes, support>> /\ Touch(B) /\ b \in touched
    BY <1>5, <2>1 DEF Update
  <2>3. B \in SUBSET pomdp.reachable
    BY <1>1, <2>1, <2>2, ReachableClosed
  <2>4. OldPlanes
    BY <2>2, <2>3, TouchKeeps DEF OldPlanes
  <2> QED
    BY <2>4, OldPlanesSound
<1>6. CASE DropUnreferenced
  <2>1. PICK v : plane' = Restrict(plane, DOMAIN plane \ {v}) /\ problem' = problem
    BY <1>6 DEF DropUnreferenced, pruneUnchanged
  <2>2. OldPlanes
    BY <2>1 DEF OldPlanes, Restrict
  <2> QED
    BY <2>2, OldPlanesSound
<1>7. ASSUME NEW v \in DOMAIN plane, NEW d \in DOMAIN plane, v # d, Dominates(d, v),
             Forward(v, d), UNCHANGED pruneUnchanged
      PROVE  LowerBoundSound'
  <2>1. OldPlanes
    BY <1>7, ForwardKeeps DEF OldPlanes, pruneUnchanged
  <2> QED
    BY <2>1, OldPlanesSound
<1>8. CASE DropMember
  <2>1. PICK v \in DOMAIN plane, d \in DOMAIN plane :
          v = planes[member] /\ d = planes[candidate] /\ v # d
    BY <1>8, ComparedPlanes DEF DropMember, InMembers
  <2> QED
    BY <1>7, <1>8, <2>1 DEF DropMember
<1>9. CASE DropCandidate
  <2>1. PICK v \in DOMAIN plane, d \in DOMAIN plane :
          v = planes[candidate] /\ d = planes[member] /\ v # d
    BY <1>9, ComparedPlanes DEF DropCandidate, InMembers
  <2> QED
    BY <1>7, <1>9, <2>1 DEF DropCandidate
<1>10. CASE WritePolicy \/ EnterMembers \/ KeepBoth \/ KeepCandidate \/ EndPrune
  BY <1>3, <1>10
     DEF WritePolicy, EnterMembers, KeepBoth, KeepCandidate, EndPrune, pruneUnchanged
<1>11. CASE UNCHANGED vars
  BY <1>3, <1>11 DEF vars
<1>12. ~ReadPolicy
  BY DEF ReadPolicy
<1> QED
  BY <1>2, <1>4, <1>5, <1>6, <1>8, <1>9, <1>10, <1>11, <1>12 DEF Next, PrunePlanes

-----------------------------------------------------------------------------
\* Reading the policy file gives the planes that were written.

LEMMA Upwards ==
  ASSUME NEW N \in Nat, NEW S, 0 \in S, \A i \in 1 .. N : i - 1 \in S => i \in S
  PROVE  \A i \in 0 .. N : i \in S
<1> DEFINE D == {i \in 0 .. N : i \notin S}
<1>1. SUFFICES ASSUME D # {} PROVE FALSE
  OBVIOUS
<1>2. PICK m \in D : \A k \in D : m <= k
  <2>1. D \in SUBSET Nat
    OBVIOUS
  <2> HIDE DEF D
  <2> QED
    BY <1>1, <2>1, LeastNatural
<1>3. m \in 1 .. N /\ m - 1 \in 0 .. N
  OBVIOUS
<1>4. m - 1 \in S
  BY <1>2, <1>3
<1> QED
  BY <1>3, <1>4

\* A loop over 1 .. N that starts with x0 and whose pass i takes x to F[i][x].
IsLoop(N, X, x0, F) == N \in Nat /\ x0 \in X /\ \A i \in 1 .. N, x \in X : F[i][x] \in X

Computes(N, X, x0, F, f) ==
  f \in [0 .. N -> X] /\ f[0] = x0 /\ \A i \in 1 .. N : f[i] = F[i][f[i - 1]]

LEMMA Loop ==
  ASSUME NEW N, NEW X, NEW x0, NEW F, IsLoop(N, X, x0, F)
  PROVE  \E f : Computes(N, X, x0, F, f)
<1> USE DEF IsLoop, Computes
<1> DEFINE Upto(n, f) == /\ f \in [0 .. n -> X] /\ f[0] = x0
                         /\ \A i \in 1 .. n : f[i] = F[i][f[i - 1]]
           S == {n \in 0 .. N : \E f : Upto(n, f)}
<1>1. 0 \in S
  <2> DEFINE f == [i \in 0 .. 0 |-> x0]
  <2>1. Upto(0, f)
    OBVIOUS
  <2> HIDE DEF f
  <2> QED
    BY <2>1
<1>2. ASSUME NEW n \in 1 .. N, n - 1 \in S PROVE n \in S
  <2>1. PICK f : Upto(n - 1, f)
    BY <1>2
  <2> DEFINE g == [i \in 0 .. n |-> IF i = n THEN F[n][f[n - 1]] ELSE f[i]]
  <2>2. f[n - 1] \in X /\ F[n][f[n - 1]] \in X
    BY <2>1
  <2>3. \A i \in 0 .. n - 1 : f[i] \in X
    BY <2>1
  <2>4. g \in [0 .. n -> X] /\ g[0] = x0
    BY <2>1, <2>2, <2>3
  <2>5. ASSUME NEW i \in 1 .. n PROVE g[i] = F[i][g[i - 1]]
    <3>1. CASE i = n
      BY <3>1
    <3>2. CASE i # n
      <4>1. i \in 1 .. n - 1 /\ g[i] = f[i] /\ g[i - 1] = f[i - 1]
        BY <3>2
      <4> QED
        BY <2>1, <4>1
    <3> QED
      BY <3>1, <3>2
  <2>6. Upto(n, g)
    BY <2>4, <2>5
  <2> HIDE DEF g
  <2> QED
    BY <2>6
<1>3. N \in S
  <2> HIDE DEF S
  <2>1. \A i \in 0 .. N : i \in S
    BY <1>1, <1>2, Upwards
  <2> QED
    BY <2>1
<1> QED
  BY <1>3

LEMMA MaxState ==
  ASSUME State # {}
  PROVE  Max(State) \in State /\ \A i \in State : i <= Max(State)
<1>1. PICK n \in Nat : ExistsSurjection(1 .. n, State)
  BY Finite, FS_NatSurjection
<1>2. PICK f \in Surjection(1 .. n, State) : TRUE
  BY <1>1 DEF ExistsSurjection
<1>3. /\ f \in [1 .. n -> State]
      /\ \A i \in State : \E k \in 1 .. n : f[k] = i
  BY <1>2 DEF Surjection
<1>4. f \in [1 .. n -> Int]
  <2>1. \A i \in State : i \in Int
    BY PomdpAssumption
  <2>2. \A j \in 1 .. n : f[j] \in State
    BY <1>3
  <2>3. \A j \in 1 .. n : f[j] \in Int
    BY <2>1, <2>2
  <2> QED
    BY <1>3, <2>3
<1>5. 1 .. n \in SUBSET (0 .. n) /\ 1 .. n # {}
  <2>1. PICK i \in State : TRUE
    OBVIOUS
  <2> QED
    BY <1>3, <2>1
<1>6. PICK k \in 1 .. n : \A j \in 1 .. n : f[j] <= f[k]
  BY <1>4, <1>5, HasMaximum
<1>7. f[k] \in State /\ \A i \in State : f[k] >= i
  <2>1. ASSUME NEW i \in State PROVE f[k] >= i
    <3>1. PICK j \in 1 .. n : f[j] = i
      BY <1>3
    <3> QED
      BY <1>4, <1>6, <3>1
  <2> QED
    BY <1>3, <2>1
<1>8. Max(State) \in State /\ \A i \in State : Max(State) >= i
  BY <1>7 DEF Max
<1> QED
  BY <1>8, PomdpAssumption

Entry(p, i) == [kind |-> "entry", index |-> i, value |-> p.alpha[i]]
ActionLine(p) == [kind |-> "action", action |-> p.action]

LEMMA WrittenStates ==
  ASSUME NEW p \in Plane
  PROVE  Written(p) \subseteq State /\ \A i \in Written(p) : Entry(p, i) \in Line
BY DEF Written, Plane, Vector, Line, Entry

\* The lines of a plane are appended one by one.
LEMMA WritePlaneSteps ==
  ASSUME NEW lines \in Seq(Line), NEW p \in Plane,
         NEW N \in Nat, N = Max(State) + 1
  PROVE  \E f \in [0 .. N -> Seq(Line)] :
           /\ f[0] = Append(lines, ActionLine(p))
           /\ \A n \in 1 .. N : f[n] = IF n - 1 \in Written(p)
                                       THEN Append(f[n - 1], Entry(p, n - 1)) ELSE f[n - 1]
           /\ WritePlane(lines, p) = f[N]
<1> DEFINE start == Append(lines, ActionLine(p))
           F == [n \in 1 .. N |-> [s \in Seq(Line) |->
                   IF n - 1 \in Written(p) THEN Append(s, Entry(p, n - 1)) ELSE s]]
           E(f) == f = [n \in 0 .. N |->
                     IF n = 0 THEN Append(lines, [kind |-> "action", action |-> p.action])
                     ELSE IF n - 1 \in Written(p)
                     THEN Append(f[n - 1], [kind |-> "entry", index |-> n - 1,
                                            value |-> p.alpha[n - 1]])
                     ELSE f[n - 1]]
<1>2. start \in Seq(Line)
  <2>1. ActionLine(p) \in Line
    BY DEF ActionLine, Line, Plane
  <2> QED
    BY <2>1
<1>3. F \in [1 .. N -> [Seq(Line) -> Seq(Line)]]
  <2>1. ASSUME NEW n \in 1 .. N, NEW s \in Seq(Line)
        PROVE  (IF n - 1 \in Written(p) THEN Append(s, Entry(p, n - 1)) ELSE s) \in Seq(Line)
    BY WrittenStates
  <2> QED
    BY <2>1
<1>4. PICK h \in [0 .. N -> Seq(Line)] : h[0] = start /\ \A n \in 1 .. N : h[n] = F[n][h[n - 1]]
  <2> HIDE DEF F, start
  <2>1. PICK X : X = Seq(Line)
    OBVIOUS
  <2>2. IsLoop(N, X, start, F)
    BY <1>2, <1>3, <2>1 DEF IsLoop
  <2>3. PICK f : Computes(N, X, start, F, f)
    BY <2>2, Loop, Zenon
  <2> QED
    BY <2>1, <2>3 DEF Computes
<1>5. E(h)
  <2>1. ASSUME NEW n \in 0 .. N
        PROVE  h[n] = IF n = 0 THEN start ELSE IF n - 1 \in Written(p)
                      THEN Append(h[n - 1], Entry(p, n - 1)) ELSE h[n - 1]
    <3>1. CASE n = 0
      BY <1>4, <3>1
    <3>2. CASE n # 0
      <4>1. n \in 1 .. N /\ h[n - 1] \in Seq(Line)
        BY <3>2
      <4>2. F[n][h[n - 1]] = IF n - 1 \in Written(p)
                             THEN Append(h[n - 1], Entry(p, n - 1)) ELSE h[n - 1]
        BY <4>1
      <4> HIDE DEF F
      <4> QED
        BY <1>4, <3>2, <4>1, <4>2
    <3> QED
      BY <3>1, <3>2
  <2> QED
    BY <1>4, <2>1 DEF Entry, ActionLine
<1> DEFINE g == CHOOSE f : E(f)
<1>6. E(g)
  <2> HIDE DEF E
  <2> QED
    BY <1>5, Zenon
<1>7. WritePlane(lines, p) = g[N]
  BY Zenon DEF WritePlane
<1> HIDE DEF g
<1>8. /\ DOMAIN g = 0 .. N /\ g[0] = start
      /\ \A n \in 1 .. N : g[n] = IF n - 1 \in Written(p)
                                  THEN Append(g[n - 1], Entry(p, n - 1)) ELSE g[n - 1]
  <2> HIDE DEF start
  <2>1. DOMAIN g = 0 .. N
    BY <1>6
  <2>2. g[0] = start
    BY <1>6 DEF start, ActionLine
  <2>3. ASSUME NEW n \in 1 .. N
        PROVE  g[n] = IF n - 1 \in Written(p)
                      THEN Append(g[n - 1], Entry(p, n - 1)) ELSE g[n - 1]
    <3>1. n \in 0 .. N /\ n # 0
      OBVIOUS
    <3> QED
      BY <1>6, <3>1 DEF Entry
  <2> QED
    BY <2>1, <2>2, <2>3
<1>9. \A n \in 0 .. N : g[n] \in Seq(Line)
  <2> DEFINE S == {n \in 0 .. N : g[n] \in Seq(Line)}
  <2> HIDE DEF E, start
  <2>1. 0 \in S
    BY <1>2, <1>8
  <2>2. ASSUME NEW n \in 1 .. N, n - 1 \in S PROVE n \in S
    <3>1. n - 1 \in Written(p) => Entry(p, n - 1) \in Line
      BY WrittenStates
    <3>2. g[n - 1] \in Seq(Line)
      BY <2>2
    <3>3. Append(g[n - 1], Entry(p, n - 1)) \in Seq(Line) \/ n - 1 \notin Written(p)
      BY <3>1, <3>2
    <3>4. g[n] \in Seq(Line)
      BY <1>8, <3>2, <3>3
    <3> QED
      BY <3>4
  <2>3. \A n \in 0 .. N : n \in S
    <3> HIDE DEF S
    <3> QED
      BY <2>1, <2>2, Upwards
  <2> QED
    BY <2>3
<1>10. g \in [0 .. N -> Seq(Line)] /\ g = [n \in 0 .. N |-> g[n]]
  <2> HIDE DEF E
  <2>1. g = [n \in 0 .. N |-> g[n]]
    BY <1>6 DEF E
  <2> QED
    BY <1>9, <2>1
<1> QED
  BY <1>7, <1>8, <1>10

ReadState ==
  [parseState : 0 .. 2, action : Action, mask : SUBSET State, alpha : Vector,
   list : Seq(Plane)]

NothingRead ==
  [parseState |-> 0, action |-> 0, mask |-> {}, alpha |-> [i \in State |-> 0], list |-> <<>>]

LEMMA NothingReadType == NothingRead \in ReadState
<1>1. 0 \in Action
  BY PomdpAssumption DEF Action
<1> QED
  BY <1>1 DEF NothingRead, ReadState, Vector

LEMMA CompletedType ==
  ASSUME NEW r \in ReadState
  PROVE  Completed(r) \in Seq(Plane)
<1>1. /\ r.alpha \in Vector /\ r.action \in Action /\ r.mask \in SUBSET State
      /\ r.list \in Seq(Plane)
  BY DEF ReadState
<1> DEFINE q == [ alpha |-> r.alpha, action |-> r.action, mask |-> r.mask, created |-> 0,
                  back |-> [b \in Belief |-> 0] ]
<1>2. q \in Plane
  BY <1>1 DEF Plane
<1>3. Added(r) = Append(r.list, q)
  BY DEF Added
<1> HIDE DEF q
<1>4. Added(r) \in Seq(Plane)
  BY <1>1, <1>2, <1>3
<1> QED
  BY <1>1, <1>4 DEF Completed

\* The three kinds of line.
LEMMA ReadLineIs ==
  ASSUME NEW r \in ReadState, NEW l \in Line
  PROVE  /\ ReadLine(r, l) \in ReadState
         /\ l.kind = "policyType" => ReadLine(r, l) = [r EXCEPT !.parseState = 1]
         /\ l.kind = "action" => /\ l.action \in Action
                                 /\ ReadLine(r, l) =
                                      [ parseState |-> 2, action |-> l.action, mask |-> {},
                                        alpha |-> [i \in State |-> 0], list |-> Completed(r) ]
         /\ l.kind = "entry" => /\ l.index \in State /\ l.value \in Int
                                /\ ReadLine(r, l) =
                                     [ parseState |-> r.parseState, action |-> r.action,
                                       mask |-> r.mask \cup {l.index},
                                       alpha |-> [r.alpha EXCEPT ![l.index] = l.value],
                                       list |-> r.list ]
<1>1. CASE l.kind = "policyType"
  <2>1. ReadLine(r, l) = [r EXCEPT !.parseState = 1]
    BY <1>1 DEF ReadLine
  <2>2. [r EXCEPT !.parseState = 1] \in ReadState
    BY DEF ReadState
  <2> QED
    BY <1>1, <2>1, <2>2
<1>2. CASE l.kind = "action"
  <2>1. ReadLine(r, l) = [ parseState |-> 2, action |-> l.action, mask |-> {},
                           alpha |-> [i \in State |-> 0], list |-> Completed(r) ]
    BY <1>2 DEF ReadLine
  <2>2. l.action \in Action
    BY <1>2 DEF Line
  <2>3. ReadLine(r, l) \in ReadState
    BY <2>1, <2>2, CompletedType DEF ReadState, Vector
  <2> QED
    BY <1>2, <2>1, <2>2, <2>3
<1>3. CASE l.kind = "entry"
  <2>1. ReadLine(r, l) = [r EXCEPT !.alpha[l.index] = l.value, !.mask = @ \cup {l.index}]
    BY <1>3 DEF ReadLine
  <2>2. l.index \in State /\ l.value \in Int
    BY <1>3 DEF Line
  <2>3. r.alpha \in Vector /\ r.mask \in SUBSET State
    BY DEF ReadState
  <2>4. [r.alpha EXCEPT ![l.index] = l.value] \in Vector
    BY <2>2, <2>3 DEF Vector
  <2>5. r.mask \cup {l.index} \in SUBSET State
    BY <2>2, <2>3
  <2>6. PICK w \in Vector : w = [r.alpha EXCEPT ![l.index] = l.value]
    BY <2>4
  <2>7. PICK m \in SUBSET State : m = r.mask \cup {l.index}
    BY <2>5
  <2>8. ReadLine(r, l) = [r EXCEPT !.alpha = w, !.mask = m]
    BY <2>1, <2>6, <2>7
  <2>9. /\ ReadLine(r, l) \in ReadState
        /\ ReadLine(r, l) = [ parseState |-> r.parseState, action |-> r.action, mask |-> m,
                              alpha |-> w, list |-> r.list ]
    BY <2>8 DEF ReadState
  <2> QED
    BY <1>3, <2>2, <2>6, <2>7, <2>9
<1>4. l.kind \in {"policyType", "action", "entry"}
  BY DEF Line
<1> QED
  BY <1>1, <1>2, <1>3, <1>4

LEMMA ReadLinesSteps ==
  ASSUME NEW lines \in Seq(Line), NEW N \in Nat, N = Len(lines)
  PROVE  \E f \in [0 .. N -> ReadState] :
           /\ f[0] = NothingRead
           /\ \A n \in 1 .. N : f[n] = ReadLine(f[n - 1], lines[n])
           /\ ReadLines(lines) = f[N]
<1> DEFINE F == [n \in 1 .. N |-> [r \in ReadState |-> ReadLine(r, lines[n])]]
           E(f) == f = [n \in 0 .. Len(lines) |->
                     IF n = 0 THEN [ parseState |-> 0, action |-> 0, mask |-> {},
                                     alpha |-> [i \in State |-> 0], list |-> <<>> ]
                     ELSE ReadLine(f[n - 1], lines[n])]
<1>1. \A n \in 1 .. N : lines[n] \in Line
  OBVIOUS
<1>2. F \in [1 .. N -> [ReadState -> ReadState]]
  <2>1. \A n \in 1 .. N, r \in ReadState : ReadLine(r, lines[n]) \in ReadState
    BY <1>1, ReadLineIs
  <2> QED
    BY <2>1
<1>3. PICK h \in [0 .. N -> ReadState] :
        h[0] = NothingRead /\ \A n \in 1 .. N : h[n] = F[n][h[n - 1]]
  <2> HIDE DEF F
  <2>1. PICK X : X = ReadState
    OBVIOUS
  <2>2. IsLoop(N, X, NothingRead, F)
    BY <1>2, <2>1, NothingReadType DEF IsLoop
  <2>3. PICK f : Computes(N, X, NothingRead, F, f)
    BY <2>2, Loop, Zenon
  <2> QED
    BY <2>1, <2>3 DEF Computes
<1>4. \A n \in 1 .. N : h[n] = ReadLine(h[n - 1], lines[n])
  <2> TAKE n \in 1 .. N
  <2>1. h[n - 1] \in ReadState
    OBVIOUS
  <2>2. F[n][h[n - 1]] = ReadLine(h[n - 1], lines[n])
    BY <2>1
  <2> HIDE DEF F
  <2> QED
    BY <1>3, <2>2
<1>5. E(h)
  <2>1. ASSUME NEW n \in 0 .. N
        PROVE  h[n] = IF n = 0 THEN NothingRead ELSE ReadLine(h[n - 1], lines[n])
    <3>1. n # 0 => n \in 1 .. N
      OBVIOUS
    <3> QED
      BY <1>3, <1>4, <3>1
  <2> QED
    BY <2>1 DEF NothingRead
<1> DEFINE g == CHOOSE f : E(f)
<1>6. E(g)
  <2> HIDE DEF E
  <2> QED
    BY <1>5, Zenon
<1>7. ReadLines(lines) = g[N]
  BY Zenon DEF ReadLines
<1> HIDE DEF g
<1>8. /\ g = [n \in 0 .. N |-> g[n]] /\ g[0] = NothingRead
      /\ \A n \in 1 .. N : g[n] = ReadLine(g[n - 1], lines[n])
  <2>1. g[0] = NothingRead
    BY <1>6 DEF NothingRead
  <2>2. ASSUME NEW n \in 1 .. N
        PROVE  g[n] = ReadLine(g[n - 1], lines[n])
    <3>1. n \in 0 .. Len(lines) /\ n # 0
      OBVIOUS
    <3> QED
      BY <1>6, <3>1
  <2>3. g = [n \in 0 .. N |-> g[n]]
    BY <1>6
  <2> QED
    BY <2>1, <2>2, <2>3
<1>9. \A n \in 0 .. N : g[n] \in ReadState
  <2> DEFINE S == {n \in 0 .. N : g[n] \in ReadState}
  <2> HIDE DEF E
  <2>1. 0 \in S
    BY <1>8, NothingReadType
  <2>2. ASSUME NEW n \in 1 .. N, n - 1 \in S PROVE n \in S
    <3>1. g[n - 1] \in ReadState /\ lines[n] \in Line
      BY <1>1, <2>2
    <3>2. ReadLine(g[n - 1], lines[n]) \in ReadState
      BY <3>1, ReadLineIs
    <3> QED
      BY <1>8, <3>2
  <2>3. \A n \in 0 .. N : n \in S
    <3> HIDE DEF S
    <3> QED
      BY <2>1, <2>2, Upwards
  <2> QED
    BY <2>3
<1>10. g \in [0 .. N -> ReadState]
  <2> HIDE DEF E
  <2> QED
    BY <1>8, <1>9
<1> QED
  BY <1>7, <1>8, <1>10

LEMMA ReadLinesAppend ==
  ASSUME NEW lines \in Seq(Line), NEW l \in Line
  PROVE  /\ ReadLines(lines) \in ReadState
         /\ ReadLines(Append(lines, l)) = ReadLine(ReadLines(lines), l)
<1>1. PICK N \in Nat : N = Len(lines)
  OBVIOUS
<1>2. PICK more \in Seq(Line) : more = Append(lines, l)
  <2>1. Append(lines, l) \in Seq(Line)
    OBVIOUS
  <2> QED
    BY <2>1
<1>3. Len(more) = N + 1 /\ more[N + 1] = l /\ \A n \in 1 .. N : more[n] = lines[n]
  BY <1>1, <1>2
<1>4. PICK f \in [0 .. N -> ReadState] :
        /\ f[0] = NothingRead
        /\ \A n \in 1 .. N : f[n] = ReadLine(f[n - 1], lines[n])
        /\ ReadLines(lines) = f[N]
  BY <1>1, ReadLinesSteps
<1>5. PICK M \in Nat : M = N + 1
  OBVIOUS
<1>6. PICK g \in [0 .. M -> ReadState] :
        /\ g[0] = NothingRead
        /\ \A n \in 1 .. M : g[n] = ReadLine(g[n - 1], more[n])
        /\ ReadLines(more) = g[M]
  BY <1>3, <1>5, ReadLinesSteps
<1>7. \A n \in 0 .. N : g[n] = f[n]
  <2> DEFINE S == {n \in 0 .. N : g[n] = f[n]}
  <2>1. 0 \in S
    BY <1>4, <1>6
  <2>2. ASSUME NEW n \in 1 .. N, n - 1 \in S PROVE n \in S
    <3>1. n \in 1 .. M /\ g[n - 1] = f[n - 1] /\ more[n] = lines[n]
      BY <1>3, <1>5, <2>2
    <3> QED
      BY <1>4, <1>6, <3>1
  <2>3. \A n \in 0 .. N : n \in S
    <3> HIDE DEF S
    <3> QED
      BY <2>1, <2>2, Upwards
  <2> QED
    BY <2>3
<1>8. g[M] = ReadLine(g[N], l) /\ g[N] = f[N] /\ f[N] \in ReadState
  <2>1. M \in 1 .. M /\ M - 1 = N /\ N \in 0 .. N
    BY <1>5
  <2> QED
    BY <1>3, <1>5, <1>6, <1>7, <2>1
<1> QED
  BY <1>2, <1>4, <1>6, <1>8

\* The plane that is read where p was written.
Copy(p) ==
  [ alpha   |-> [i \in State |-> IF i \in Written(p) THEN p.alpha[i] ELSE 0],
    action  |-> p.action,
    mask    |-> Written(p),
    created |-> 0,
    back    |-> [b \in Belief |-> 0] ]

\* What is known when the entries of the states below n have been read.
ReadPart(p, list, n) ==
  [ parseState |-> 2, action |-> p.action,
    mask |-> {i \in Written(p) : i < n},
    alpha |-> [i \in State |-> IF i \in Written(p) /\ i < n THEN p.alpha[i] ELSE 0],
    list |-> list ]

LEMMA ReadEntry ==
  ASSUME NEW p \in Plane, NEW list \in Seq(Plane), NEW n \in Nat \ {0}
  PROVE  /\ n - 1 \notin Written(p) => ReadPart(p, list, n - 1) = ReadPart(p, list, n)
         /\ n - 1 \in Written(p) /\ ReadPart(p, list, n - 1) \in ReadState
              => ReadLine(ReadPart(p, list, n - 1), Entry(p, n - 1)) = ReadPart(p, list, n)
<1>1. \A i \in State : i \in Nat /\ (i < n <=> i < n - 1 \/ i = n - 1)
  <2>1. \A i \in State : i \in Nat
    BY PomdpAssumption
  <2> QED
    BY <2>1
<1>2. Written(p) \subseteq State
  BY WrittenStates
<1> DEFINE r == ReadPart(p, list, n - 1)
           s == ReadPart(p, list, n)
<1>3. /\ r.mask = {i \in Written(p) : i < n - 1} /\ s.mask = {i \in Written(p) : i < n}
      /\ r.alpha = [i \in State |-> IF i \in Written(p) /\ i < n - 1 THEN p.alpha[i] ELSE 0]
      /\ s.alpha = [i \in State |-> IF i \in Written(p) /\ i < n THEN p.alpha[i] ELSE 0]
  BY DEF ReadPart
<1>4. CASE n - 1 \notin Written(p)
  <2>1. r.mask = s.mask /\ r.alpha = s.alpha
    <3>1. \A i \in Written(p) : i < n <=> i < n - 1
      BY <1>1, <1>2, <1>4
    <3>2. r.mask = s.mask
      BY <1>3, <3>1
    <3>3. \A i \in State : r.alpha[i] = s.alpha[i]
      BY <1>3, <3>1
    <3>4. r.alpha = s.alpha
      <4>1. r.alpha = [i \in State |-> r.alpha[i]] /\ s.alpha = [i \in State |-> s.alpha[i]]
        BY <1>3
      <4> HIDE DEF r, s
      <4> QED
        BY <3>3, <4>1
    <3> QED
      BY <3>2, <3>4
  <2>2. r = s
    BY <1>3, <2>1 DEF ReadPart
  <2> QED
    BY <1>4, <2>2
<1>5. ASSUME n - 1 \in Written(p), r \in ReadState
      PROVE  ReadLine(r, Entry(p, n - 1)) = s
  <2>1. Entry(p, n - 1) \in Line /\ Entry(p, n - 1).kind = "entry"
        /\ Entry(p, n - 1).index = n - 1 /\ Entry(p, n - 1).value = p.alpha[n - 1]
    BY <1>5, WrittenStates DEF Entry
  <2>2. ReadLine(r, Entry(p, n - 1)) =
          [ parseState |-> r.parseState, action |-> r.action, mask |-> r.mask \cup {n - 1},
            alpha |-> [r.alpha EXCEPT ![n - 1] = p.alpha[n - 1]], list |-> r.list ]
    <3> HIDE DEF r
    <3>1. PICK l \in Line : l = Entry(p, n - 1)
      BY <2>1
    <3>2. ReadLine(r, l) =
            [ parseState |-> r.parseState, action |-> r.action, mask |-> r.mask \cup {l.index},
              alpha |-> [r.alpha EXCEPT ![l.index] = l.value], list |-> r.list ]
      BY <1>5, <2>1, <3>1, ReadLineIs
    <3> QED
      BY <2>1, <3>1, <3>2
  <2>3. r.mask \cup {n - 1} = s.mask
    <3>1. \A i : i \in s.mask <=> i \in Written(p) /\ i < n
      BY <1>3
    <3>2. \A i : i \in r.mask <=> i \in Written(p) /\ i < n - 1
      BY <1>3
    <3>3. \A i : i \in Written(p) => (i < n <=> i < n - 1 \/ i = n - 1)
      BY <1>1, <1>2
    <3> HIDE DEF r, s
    <3>4. \A i : i \in r.mask \cup {n - 1} <=> i \in s.mask
      BY <1>5, <3>1, <3>2, <3>3
    <3> QED
      BY <3>4
  <2>4. [r.alpha EXCEPT ![n - 1] = p.alpha[n - 1]] = s.alpha
    <3> DEFINE u == [r.alpha EXCEPT ![n - 1] = p.alpha[n - 1]]
    <3>1. u = [i \in State |-> IF i = n - 1 THEN p.alpha[n - 1] ELSE r.alpha[i]]
      BY <1>3
    <3>2. \A i \in State : u[i] = s.alpha[i]
      BY <1>1, <1>2, <1>3, <1>5, <3>1
    <3>3. PICK w : w = s.alpha
      OBVIOUS
    <3>4. u = [i \in State |-> u[i]] /\ w = [i \in State |-> w[i]]
      BY <1>3, <3>1, <3>3
    <3>5. \A i \in State : u[i] = w[i]
      BY <3>2, <3>3
    <3>6. u = w
      <4> HIDE DEF u
      <4> QED
        BY <3>4, <3>5
    <3> QED
      BY <3>3, <3>6
  <2>5. s = [ parseState |-> r.parseState, action |-> r.action, mask |-> s.mask,
              alpha |-> s.alpha, list |-> r.list ]
    BY DEF ReadPart
  <2> HIDE DEF r, s
  <2> QED
    BY <2>2, <2>3, <2>4, <2>5
<1> QED
  BY <1>4, <1>5

LEMMA WritePlaneRead ==
  ASSUME NEW lines \in Seq(Line), NEW p \in Plane, State # {}
  PROVE  /\ WritePlane(lines, p) \in Seq(Line)
         /\ Completed(ReadLines(WritePlane(lines, p))) =
              Append(Completed(ReadLines(lines)), Copy(p))
<1>1. PICK N \in Nat : N = Max(State) + 1
  <2>1. \A i \in State : i \in Nat
    BY PomdpAssumption
  <2>2. Max(State) \in Nat
    BY <2>1, MaxState
  <2> QED
    BY <2>2
<1>2. PICK f \in [0 .. N -> Seq(Line)] :
        /\ f[0] = Append(lines, ActionLine(p))
        /\ \A n \in 1 .. N : f[n] = IF n - 1 \in Written(p)
                                    THEN Append(f[n - 1], Entry(p, n - 1)) ELSE f[n - 1]
        /\ WritePlane(lines, p) = f[N]
  BY <1>1, WritePlaneSteps
<1>3. PICK list \in Seq(Plane) : list = Completed(ReadLines(lines))
  <2>1. [kind |-> "policyType"] \in Line
    BY DEF Line
  <2>2. ReadLines(lines) \in ReadState
    BY <2>1, ReadLinesAppend
  <2> QED
    BY <2>2, CompletedType
<1> DEFINE S == {n \in 0 .. N : /\ ReadPart(p, list, n) \in ReadState
                                /\ ReadLines(f[n]) = ReadPart(p, list, n)}
<1>4. 0 \in S
  <2>1. ActionLine(p) \in Line /\ ActionLine(p).kind = "action"
        /\ ActionLine(p).action = p.action
    BY DEF ActionLine, Line, Plane
  <2>2. ReadLines(f[0]) = ReadLine(ReadLines(lines), ActionLine(p))
        /\ ReadLines(lines) \in ReadState
    BY <1>2, <2>1, ReadLinesAppend
  <2>3. /\ ReadLine(ReadLines(lines), ActionLine(p)) \in ReadState
        /\ ReadLine(ReadLines(lines), ActionLine(p)) =
             [ parseState |-> 2, action |-> p.action, mask |-> {},
               alpha |-> [i \in State |-> 0], list |-> list ]
    BY <1>3, <2>1, <2>2, ReadLineIs
  <2>4. \A i \in State : ~(i < 0)
    BY PomdpAssumption
  <2>5. /\ {i \in Written(p) : i < 0} = {}
        /\ [i \in State |-> IF i \in Written(p) /\ i < 0 THEN p.alpha[i] ELSE 0]
             = [i \in State |-> 0]
    BY <2>4, WrittenStates
  <2>6. ReadPart(p, list, 0) =
          [ parseState |-> 2, action |-> p.action, mask |-> {},
            alpha |-> [i \in State |-> 0], list |-> list ]
    BY <2>5 DEF ReadPart
  <2>7. ReadPart(p, list, 0) \in ReadState /\ ReadLines(f[0]) = ReadPart(p, list, 0)
    BY <2>2, <2>3, <2>6
  <2> QED
    BY <2>7
<1>5. ASSUME NEW n \in 1 .. N, n - 1 \in S PROVE n \in S
  <2>1. /\ f[n - 1] \in Seq(Line) /\ n \in Nat \ {0}
        /\ ReadPart(p, list, n - 1) \in ReadState
        /\ ReadLines(f[n - 1]) = ReadPart(p, list, n - 1)
    BY <1>5
  <2>2. CASE n - 1 \in Written(p)
    <3>1. f[n] = Append(f[n - 1], Entry(p, n - 1)) /\ Entry(p, n - 1) \in Line
      BY <1>2, <2>2, WrittenStates
    <3>2. ReadLines(f[n]) = ReadLine(ReadPart(p, list, n - 1), Entry(p, n - 1))
      BY <2>1, <3>1, ReadLinesAppend
    <3>3. ReadLines(f[n]) = ReadPart(p, list, n)
      BY <2>1, <2>2, <3>2, ReadEntry
    <3>4. ReadLine(ReadPart(p, list, n - 1), Entry(p, n - 1)) \in ReadState
      BY <2>1, <3>1, ReadLineIs
    <3> QED
      BY <3>2, <3>3, <3>4
  <2>3. CASE n - 1 \notin Written(p)
    <3>1. f[n] = f[n - 1]
      BY <1>2, <2>3
    <3> QED
      BY <2>1, <2>3, <3>1, ReadEntry
  <2> QED
    BY <2>2, <2>3
<1>6. N \in S
  <2> HIDE DEF S
  <2>1. \A n \in 0 .. N : n \in S
    BY <1>4, <1>5, Upwards
  <2> QED
    BY <2>1
<1>7. ReadLines(WritePlane(lines, p)) = ReadPart(p, list, N)
  BY <1>2, <1>6
<1>8. /\ {i \in Written(p) : i < N} = Written(p)
      /\ [i \in State |-> IF i \in Written(p) /\ i < N THEN p.alpha[i] ELSE 0] = Copy(p).alpha
  <2>1. \A i \in State : i < N
    <3>1. \A i \in State : i \in Nat
      BY PomdpAssumption
    <3>2. Max(State) \in Nat
      BY <3>1, MaxState
    <3> QED
      BY <1>1, <3>1, <3>2, MaxState
  <2> QED
    BY <2>1, WrittenStates DEF Copy
<1>9. Completed(ReadPart(p, list, N)) = Append(list, Copy(p))
  BY <1>8 DEF Completed, Added, ReadPart, Copy
<1>10. f[N] \in Seq(Line)
  OBVIOUS
<1> QED
  BY <1>2, <1>3, <1>7, <1>9, <1>10

LEMMA PolicyFileSteps ==
  ASSUME NEW N \in Nat, N = Len(planes), plane \in [DOMAIN plane -> Plane],
         planes \in Seq(DOMAIN plane), State # {}
  PROVE  \E f \in [0 .. N -> Seq(Line)] :
           /\ f[0] = <<[kind |-> "policyType"]>>
           /\ \A k \in 1 .. N : f[k] = WritePlane(f[k - 1], plane[planes[k]])
           /\ PolicyFile = f[N]
<1> DEFINE start == <<[kind |-> "policyType"]>>
           F == [k \in 1 .. N |-> [s \in Seq(Line) |-> WritePlane(s, plane[planes[k]])]]
           E(f) == f = [k \in 0 .. Len(planes) |->
                     IF k = 0 THEN <<[kind |-> "policyType"]>>
                     ELSE WritePlane(f[k - 1], plane[planes[k]])]
<1>1. \A k \in 1 .. N : plane[planes[k]] \in Plane
  OBVIOUS
<1>2. start \in Seq(Line)
  <2>1. [kind |-> "policyType"] \in Line
    BY DEF Line
  <2> QED
    BY <2>1
<1>3. PICK h : Computes(N, Seq(Line), start, F, h)
  <2>1. \A k \in 1 .. N, s \in Seq(Line) : WritePlane(s, plane[planes[k]]) \in Seq(Line)
    BY <1>1, WritePlaneRead
  <2>2. PICK X : X = Seq(Line)
    OBVIOUS
  <2>3. \A k \in 1 .. N, s \in X : F[k][s] \in X
    BY <2>1, <2>2
  <2> HIDE DEF F, start
  <2>4. IsLoop(N, X, start, F)
    BY <1>2, <2>2, <2>3 DEF IsLoop
  <2> QED
    BY <2>2, <2>4, Loop, Zenon
<1>4. /\ h \in [0 .. N -> Seq(Line)] /\ h[0] = start
      /\ \A k \in 1 .. N : h[k] = WritePlane(h[k - 1], plane[planes[k]])
  <2>1. \A k \in 1 .. N, s \in Seq(Line) : F[k][s] = WritePlane(s, plane[planes[k]])
    OBVIOUS
  <2> HIDE DEF F, start
  <2> QED
    BY <1>3, <2>1 DEF Computes
<1>5. E(h)
  <2>1. ASSUME NEW k \in 0 .. N
        PROVE  h[k] = IF k = 0 THEN start ELSE WritePlane(h[k - 1], plane[planes[k]])
    <3>1. k # 0 => k \in 1 .. N
      OBVIOUS
    <3> QED
      BY <1>4, <3>1
  <2> QED
    BY <1>4, <2>1
<1> DEFINE g == CHOOSE f : E(f)
<1>6. E(g)
  <2> HIDE DEF E
  <2> QED
    BY <1>5, Zenon
<1>7. PolicyFile = g[N]
  BY Zenon DEF PolicyFile
<1> HIDE DEF g
<1>8. /\ g = [k \in 0 .. N |-> g[k]] /\ g[0] = start
      /\ \A k \in 1 .. N : g[k] = WritePlane(g[k - 1], plane[planes[k]])
  <2>1. g[0] = start /\ g = [k \in 0 .. N |-> g[k]]
    BY <1>6
  <2>2. ASSUME NEW k \in 1 .. N PROVE g[k] = WritePlane(g[k - 1], plane[planes[k]])
    <3>1. k \in 0 .. Len(planes) /\ k # 0
      OBVIOUS
    <3> QED
      BY <1>6, <3>1
  <2> QED
    BY <2>1, <2>2
<1>9. \A k \in 0 .. N : g[k] \in Seq(Line)
  <2> DEFINE S == {k \in 0 .. N : g[k] \in Seq(Line)}
  <2> HIDE DEF E, start
  <2>1. 0 \in S
    BY <1>2, <1>8
  <2>2. ASSUME NEW k \in 1 .. N, k - 1 \in S PROVE k \in S
    <3>1. g[k - 1] \in Seq(Line) /\ plane[planes[k]] \in Plane
      BY <1>1, <2>2
    <3>2. WritePlane(g[k - 1], plane[planes[k]]) \in Seq(Line)
      BY <3>1, WritePlaneRead
    <3>3. g[k] \in Seq(Line)
      BY <1>8, <3>2, Zenon
    <3> QED
      BY <3>3
  <2>3. \A k \in 0 .. N : k \in S
    <3> HIDE DEF S
    <3> QED
      BY <2>1, <2>2, Upwards
  <2> QED
    BY <2>3
<1>10. g \in [0 .. N -> Seq(Line)]
  <2> HIDE DEF E
  <2> QED
    BY <1>8, <1>9
<1> QED
  BY <1>7, <1>8, <1>10

LEMMA CopyType ==
  ASSUME NEW p \in Plane
  PROVE  Copy(p) \in Plane
<1>1. [i \in State |-> IF i \in Written(p) THEN p.alpha[i] ELSE 0] \in Vector
  BY DEF Plane, Vector
<1> QED
  BY <1>1, WrittenStates DEF Copy, Plane

LEMMA PolicyReadBack ==
  ASSUME plane \in [DOMAIN plane -> Plane], planes \in Seq(DOMAIN plane), State # {}
  PROVE  /\ PlanesIn(PolicyFile) \in Seq(Plane)
         /\ Len(PlanesIn(PolicyFile)) = Len(planes)
         /\ \A k \in 1 .. Len(planes) : PlanesIn(PolicyFile)[k] = Copy(plane[planes[k]])
<1>1. PICK N \in Nat : N = Len(planes)
  OBVIOUS
<1>2. PICK f \in [0 .. N -> Seq(Line)] :
        /\ f[0] = <<[kind |-> "policyType"]>>
        /\ \A k \in 1 .. N : f[k] = WritePlane(f[k - 1], plane[planes[k]])
        /\ PolicyFile = f[N]
  BY <1>1, PolicyFileSteps
<1> DEFINE c(k) == Completed(ReadLines(f[k]))
           S == {k \in 0 .. N : /\ c(k) \in Seq(Plane) /\ Len(c(k)) = k
                                /\ \A j \in 1 .. k : c(k)[j] = Copy(plane[planes[j]])}
<1>3. 0 \in S
  <2>1. PICK l \in Line : l = [kind |-> "policyType"]
    BY DEF Line
  <2>2. PICK none \in Seq(Line) : none = <<>>
    OBVIOUS
  <2>3. f[0] = Append(none, l) /\ l.kind = "policyType"
    BY <1>2, <2>1, <2>2
  <2>4. ReadLines(none) = NothingRead
    <3>1. 0 \in Nat /\ 0 = Len(none)
      BY <2>2
    <3>2. PICK g \in [0 .. 0 -> ReadState] : g[0] = NothingRead /\ ReadLines(none) = g[0]
      BY <3>1, ReadLinesSteps
    <3> QED
      BY <3>2
  <2>5. ReadLines(f[0]) = [NothingRead EXCEPT !.parseState = 1]
    BY <2>3, <2>4, ReadLinesAppend, ReadLineIs, NothingReadType
  <2>6. c(0) = none
    BY <2>2, <2>5 DEF Completed, NothingRead
  <2>7. none \in Seq(Plane) /\ Len(none) = 0
    BY <2>2
  <2>8. c(0) \in Seq(Plane) /\ Len(c(0)) = 0
    BY <2>6, <2>7, Zenon
  <2>9. \A j \in 1 .. 0 : c(0)[j] = Copy(plane[planes[j]])
    OBVIOUS
  <2> HIDE DEF c
  <2> QED
    BY <2>8, <2>9
<1>4. ASSUME NEW k \in 1 .. N, k - 1 \in S PROVE k \in S
  <2>1. plane[planes[k]] \in Plane /\ f[k - 1] \in Seq(Line)
    BY <1>1
  <2>2. PICK p \in Plane : p = plane[planes[k]]
    BY <2>1
  <2>3. PICK s \in Seq(Plane) : s = c(k - 1)
    BY <1>4
  <2>4. Len(s) = k - 1 /\ \A j \in 1 .. k - 1 : s[j] = Copy(plane[planes[j]])
    BY <1>4, <2>3
  <2>5. c(k) = Append(s, Copy(p))
    BY <1>2, <2>1, <2>2, <2>3, WritePlaneRead
  <2>6. PICK q \in Plane : q = Copy(p)
    BY CopyType
  <2>7. PICK t : t = Append(s, q)
    BY Zenon
  <2>8. t \in Seq(Plane) /\ Len(t) = k /\ t[k] = q /\ \A j \in 1 .. k - 1 : t[j] = s[j]
    BY <2>4, <2>7
  <2>9. ASSUME NEW j \in 1 .. k PROVE t[j] = Copy(plane[planes[j]])
    <3>1. CASE j = k
      BY <2>2, <2>6, <2>8, <3>1
    <3>2. CASE j # k
      <4>1. j \in 1 .. k - 1
        BY <3>2
      <4> QED
        BY <2>4, <2>8, <4>1
    <3> QED
      BY <3>1, <3>2
  <2>10. c(k) = t
    BY <2>5, <2>6, <2>7
  <2> QED
    BY <2>8, <2>9, <2>10
<1>5. N \in S
  <2> HIDE DEF S
  <2>1. \A k \in 0 .. N : k \in S
    BY <1>3, <1>4, Upwards
  <2> QED
    BY <2>1
<1> QED
  BY <1>1, <1>2, <1>5 DEF PlanesIn

\* The support lists of planes that were read.
LEMMA SupportOfList ==
  ASSUME NEW list \in Seq(Plane), NEW i \in State
  PROVE  /\ SupportOf(list, i) \in Seq(1 .. Len(list))
         /\ ToSet(SupportOf(list, i)) =
              {k \in 1 .. Len(list) : config.supportList /\ i \in list[k].mask}
         /\ IsInjective(SupportOf(list, i))
<1>1. PICK N \in Nat : N = Len(list)
  OBVIOUS
<1> DEFINE Id == 1 .. N
           Listed(k) == config.supportList /\ i \in list[k].mask
           F == [k \in 1 .. N |-> [s \in Seq(Id) |-> IF Listed(k) THEN Append(s, k) ELSE s]]
           E(f) == f = [k \in 0 .. Len(list) |->
                     IF k = 0 THEN <<>>
                     ELSE IF config.supportList /\ i \in list[k].mask THEN Append(f[k - 1], k)
                     ELSE f[k - 1]]
<1>2. ASSUME NEW k \in 1 .. N, NEW s \in Seq(Id)
      PROVE  (IF Listed(k) THEN Append(s, k) ELSE s) \in Seq(Id)
  <2>1. k \in Id
    OBVIOUS
  <2> HIDE DEF Id, Listed
  <2> QED
    BY <2>1
<1>3. PICK h : Computes(N, Seq(Id), <<>>, F, h)
  <2>1. PICK X : X = Seq(Id)
    OBVIOUS
  <2>2. \A k \in 1 .. N, s \in X : F[k][s] \in X
    BY <1>2, <2>1
  <2>3. <<>> \in X
    BY <2>1
  <2> HIDE DEF F
  <2>4. IsLoop(N, X, <<>>, F)
    BY <2>2, <2>3 DEF IsLoop
  <2> QED
    BY <2>1, <2>4, Loop, Zenon
<1>4. /\ h \in [0 .. N -> Seq(Id)] /\ h[0] = <<>>
      /\ \A k \in 1 .. N : h[k] = IF Listed(k) THEN Append(h[k - 1], k) ELSE h[k - 1]
  <2>1. \A k \in 1 .. N, s \in Seq(Id) : F[k][s] = IF Listed(k) THEN Append(s, k) ELSE s
    OBVIOUS
  <2> HIDE DEF F, Listed, Id
  <2>2. /\ h \in [0 .. N -> Seq(Id)] /\ h[0] = <<>>
        /\ \A k \in 1 .. N : h[k] = F[k][h[k - 1]]
    BY <1>3 DEF Computes
  <2>3. ASSUME NEW k \in 1 .. N
        PROVE  h[k] = IF Listed(k) THEN Append(h[k - 1], k) ELSE h[k - 1]
    <3>1. h[k - 1] \in Seq(Id)
      BY <2>2
    <3> QED
      BY <2>1, <2>2, <3>1
  <2> QED
    BY <2>2, <2>3
<1>5. E(h)
  <2>1. ASSUME NEW k \in 0 .. N
        PROVE  h[k] = IF k = 0 THEN <<>> ELSE IF Listed(k) THEN Append(h[k - 1], k) ELSE h[k - 1]
    <3>1. k # 0 => k \in 1 .. N
      OBVIOUS
    <3> HIDE DEF Listed
    <3> QED
      BY <1>4, <3>1
  <2> QED
    BY <1>1, <1>4, <2>1
<1> DEFINE g == CHOOSE f : E(f)
<1>6. E(g)
  <2> HIDE DEF E
  <2> QED
    BY <1>5, Zenon
<1>7. SupportOf(list, i) = g[N]
  BY <1>1, Zenon DEF SupportOf
<1> HIDE DEF g
<1>8. /\ g[0] = <<>>
      /\ \A k \in 1 .. N : g[k] = IF Listed(k) THEN Append(g[k - 1], k) ELSE g[k - 1]
  <2>1. g[0] = <<>>
    BY <1>6
  <2>2. ASSUME NEW k \in 1 .. N
        PROVE  g[k] = IF Listed(k) THEN Append(g[k - 1], k) ELSE g[k - 1]
    <3>1. k \in 0 .. Len(list) /\ k # 0
      BY <1>1
    <3> QED
      BY <1>6, <3>1
  <2> QED
    BY <2>1, <2>2
<1> HIDE DEF E, F, Listed
<1> DEFINE S == {k \in 0 .. N : /\ g[k] \in Seq(Id) /\ IsInjective(g[k])
                                /\ ToSet(g[k]) = {j \in 1 .. k : Listed(j)}}
<1>9. 0 \in S
  <2>1. PICK e \in Seq(Id) : e = <<>>
    <3> HIDE DEF Id
    <3>1. <<>> \in Seq(Id)
      OBVIOUS
    <3> QED
      BY <3>1, Zenon
  <2>2. DOMAIN e = {}
    BY <2>1
  <2>3. IsInjective(e) /\ ToSet(e) = {}
    BY <2>2 DEF IsInjective, ToSet
  <2>4. g[0] = e /\ {j \in 1 .. 0 : Listed(j)} = {}
    BY <1>8, <2>1
  <2> HIDE DEF Id
  <2> QED
    BY <2>3, <2>4
<1>10. ASSUME NEW k \in 1 .. N, k - 1 \in S PROVE k \in S
  <2>1. PICK s \in Seq(Id) : /\ s = g[k - 1] /\ IsInjective(s)
                             /\ ToSet(s) = {j \in 1 .. k - 1 : Listed(j)}
    BY <1>10
  <2>2. k \in Id /\ k \notin ToSet(s)
    BY <2>1
  <2>3. 1 .. k = (1 .. k - 1) \cup {k}
    OBVIOUS
  <2>4. CASE Listed(k)
    <3>1. PICK t : t = Append(s, k)
      BY Zenon
    <3>2. t \in Seq(Id) /\ IsInjective(t) /\ ToSet(t) = ToSet(s) \cup {k}
      <4> HIDE DEF Id
      <4>1. /\ Append(s, k) \in Seq(Id) /\ IsInjective(Append(s, k))
            /\ ToSet(Append(s, k)) = ToSet(s) \cup {k}
        BY <2>1, <2>2, AppendedProperties
      <4> QED
        BY <3>1, <4>1
    <3>3. g[k] = t
      BY <1>8, <2>1, <2>4, <3>1
    <3>4. ToSet(t) = {j \in 1 .. k : Listed(j)}
      BY <2>1, <2>3, <2>4, <3>2
    <3> QED
      BY <3>2, <3>3, <3>4
  <2>5. CASE ~Listed(k)
    <3>1. g[k] = s
      BY <1>8, <2>1, <2>5
    <3>2. ToSet(s) = {j \in 1 .. k : Listed(j)}
      BY <2>1, <2>3, <2>5
    <3> QED
      BY <2>1, <3>1, <3>2
  <2> QED
    BY <2>4, <2>5
<1>11. N \in S
  <2> HIDE DEF S
  <2>1. \A k \in 0 .. N : k \in S
    BY <1>9, <1>10, Upwards
  <2> QED
    BY <2>1
<1> QED
  BY <1>1, <1>7, <1>11 DEF Listed

\* A plane that was read gives a belief what the one that was written did.
LEMMA CopyValue ==
  ASSUME NEW q \in Plane, NEW b \in Belief, config.masking => Support(b) \subseteq Copy(q).mask
  PROVE  /\ Inner(Copy(q).alpha, b) = Inner(q.alpha, b)
         /\ config.masking => Support(b) \subseteq q.mask
<1>1. b \in [State -> Nat]
  BY BeliefType
<1>2. config.masking => Written(q) = q.mask
  BY DEF Written
<1>3. PICK u \in Vector, w \in Vector : u = Copy(q).alpha /\ w = q.alpha
  BY CopyType DEF Plane
<1>4. ASSUME NEW i \in State PROVE b[i] * u[i] = b[i] * w[i]
  <2>1. CASE i \in Written(q)
    BY <1>3, <2>1 DEF Copy
  <2>2. CASE i \notin Written(q)
    <3>1. i \notin Support(b)
      BY <2>2 DEF Copy, Written
    <3>2. b[i] = 0
      BY <1>1, <3>1 DEF Support
    <3>3. u[i] \in Int /\ w[i] \in Int
      BY DEF Vector
    <3> QED
      BY <3>2, <3>3
  <2> QED
    BY <2>1, <2>2
<1>5. Inner(u, b) = Inner(w, b)
  BY <1>4 DEF Inner
<1> QED
  BY <1>2, <1>3, <1>5 DEF Copy

LEMMA ReadPolicySound ==
  ASSUME Inv, LowerBoundSound, FileOK, ReadPolicy
  PROVE  HeapSound' /\ touched' = {} /\ EveryBeliefCovered' /\ LowerBoundSound'
<1>1. /\ TypeOK /\ ListsAgree /\ EveryBeliefCovered /\ problem \in Problems
      /\ plane \in [DOMAIN plane -> Plane] /\ planes \in Seq(DOMAIN plane)
      /\ ToSet(planes) = DOMAIN plane
  BY InvCovers DEF Inv, TypeOK, ListsAgree
<1>2. pomdp.reachable \subseteq Belief /\ pomdp.initial \in pomdp.reachable
  BY <1>1, ReachableClosed
<1>3. State # {}
  BY <1>2, BeliefType
<1>4. PICK list \in Seq(Plane) :
        /\ list = PlanesIn(file) /\ Len(list) = Len(planes)
        /\ \A k \in 1 .. Len(planes) : list[k] = Copy(plane[planes[k]])
  <2>1. file = PolicyFile
    BY DEF ReadPolicy, FileOK
  <2> QED
    BY <1>1, <1>3, <2>1, PolicyReadBack
<1>5. PICK N \in Nat : N = Len(list) /\ N = Len(planes)
  BY <1>4
<1>6. /\ plane' = [k \in 1 .. N |-> list[k]]
      /\ planes' = [k \in 1 .. N |-> k]
      /\ support' = [i \in State |-> SupportOf(list, i)]
      /\ lastPruneNumPlanes' = N
  <2>1. DOMAIN list = 1 .. N
    BY <1>4, <1>5
  <2>2. /\ plane' = [k \in DOMAIN list |-> list[k]]
        /\ planes' = [k \in DOMAIN list |-> k]
        /\ support' = [i \in State |-> SupportOf(list, i)]
        /\ lastPruneNumPlanes' = Len(list)
    BY <1>4, Zenon DEF ReadPolicy
  <2> QED
    BY <1>5, <2>1, <2>2
<1>7. /\ lastPruneNumBackups' = -1 /\ touched' = {} /\ expanded' = {}
      /\ bestPlane' = [b \in Belief |-> 1] /\ lastSet' = [b \in Belief |-> 0]
      /\ numBackups' = 0 /\ pc' = "read"
      /\ UNCHANGED <<problem, lbVal, node>>
      /\ pomdp' = pomdp /\ config' = config
  BY DEF ReadPolicy, pomdp, config
<1>8. /\ DOMAIN plane' = 1 .. N
      /\ \A k \in 1 .. N : /\ planes[k] \in DOMAIN plane /\ plane[planes[k]] \in Plane
                           /\ plane'[k] = Copy(plane[planes[k]]) /\ plane'[k] \in Plane
  <2>1. ASSUME NEW k \in 1 .. N
        PROVE  /\ planes[k] \in DOMAIN plane /\ plane[planes[k]] \in Plane
               /\ plane'[k] = Copy(plane[planes[k]])
    BY <1>1, <1>4, <1>5, <1>6
  <2>2. DOMAIN plane' = 1 .. N
    BY <1>6
  <2> QED
    BY <2>1, <2>2, CopyType
<1>9. /\ planes' \in Seq(1 .. N) /\ Len(planes') = N
      /\ ToSet(planes') = 1 .. N /\ IsInjective(planes')
  <2>1. PICK s : s = planes'
    BY Zenon
  <2>2. s = [k \in 1 .. N |-> k]
    BY <1>6, <2>1
  <2>3. s \in Seq(1 .. N) /\ Len(s) = N /\ DOMAIN s = 1 .. N /\ \A k \in 1 .. N : s[k] = k
    BY <2>2
  <2>4. ToSet(s) = 1 .. N /\ IsInjective(s)
    BY <2>3 DEF ToSet, IsInjective
  <2> QED
    BY <2>1, <2>3, <2>4
<1>10. ASSUME NEW i \in State
       PROVE  /\ support'[i] \in Seq(1 .. N) /\ IsInjective(support'[i])
              /\ ToSet(support'[i]) =
                   {k \in DOMAIN plane' : config.supportList /\ i \in plane'[k].mask}
  <2>1. support'[i] = SupportOf(list, i)
    BY <1>6
  <2>2. /\ SupportOf(list, i) \in Seq(1 .. N) /\ IsInjective(SupportOf(list, i))
        /\ ToSet(SupportOf(list, i)) =
             {k \in 1 .. N : config.supportList /\ i \in list[k].mask}
    BY <1>5, SupportOfList
  <2>3. \A k \in 1 .. N : plane'[k] = list[k]
    BY <1>6
  <2> QED
    BY <1>8, <2>1, <2>2, <2>3
<1>11. TypeOK'
  <2>1. \A k \in 1 .. N : k \in PlaneId
    BY DEF PlaneId
  <2>2. DOMAIN plane' \subseteq PlaneId /\ plane' \in [DOMAIN plane' -> Plane]
    BY <1>6, <1>8, <2>1
  <2>3. DOMAIN support' = State
    BY <1>6
  <2>4. 0 \in 0 .. MaxBackups
    BY MaxPlanesAssumption
  <2>5. bestPlane' \in [Belief -> PlaneId] /\ lastSet' \in [Belief -> Nat]
    BY <1>7 DEF PlaneId
  <2>6. lbVal \in [Belief -> Int] /\ node \in Belief
    BY <1>1 DEF TypeOK
  <2> QED
    BY <1>1, <1>6, <1>7, <1>8, <1>9, <1>10, <2>2, <2>3, <2>4, <2>5, <2>6
       DEF TypeOK, Location, Pruning
<1>12. PointersAgree'
  <2>1. \A k \in 1 .. N, b \in Belief : plane'[k].back[b] = 0
    BY <1>8 DEF Copy
  <2> QED
    BY <1>7, <1>8, <2>1 DEF PointersAgree
<1>13. ListsAgree'
  BY <1>7, <1>8, <1>9, <1>10 DEF ListsAgree
<1>14. ASSUME NEW b \in pomdp.reachable
       PROVE  \E k \in DOMAIN plane' : Applicable(k, b)'
  <2>1. PICK p \in DOMAIN plane : Applicable(p, b)
    BY <1>1 DEF EveryBeliefCovered
  <2>2. PICK k \in 1 .. N : planes[k] = p
    BY <1>1, <1>5, <2>1, ListHas
  <2>3. plane'[k].mask = Written(plane[p])
    BY <1>8, <2>2 DEF Copy
  <2>4. Applicable(k, b)'
    BY <1>7, <2>1, <2>3 DEF Applicable, Written
  <2> QED
    BY <1>8, <2>4
<1>15. EveryBeliefCovered'
  BY <1>7, <1>14 DEF EveryBeliefCovered
<1>16. LowerBoundSound'
  <2>1. ASSUME NEW k \in 1 .. N, NEW b \in pomdp.reachable, Applicable(k, b)'
        PROVE  ValueAt(k, b)' <= Ceiling[problem][b]
    <3>1. PICK p \in DOMAIN plane, q \in Plane :
            p = planes[k] /\ q = plane[p] /\ plane'[k] = Copy(q)
      BY <1>8
    <3>2. b \in Belief
      BY <1>2
    <3>3. config.masking => Support(b) \subseteq Copy(q).mask
      BY <1>7, <2>1, <3>1 DEF Applicable
    <3>4. Inner(Copy(q).alpha, b) = Inner(q.alpha, b) /\ Applicable(p, b)
      BY <3>1, <3>2, <3>3, CopyValue DEF Applicable
    <3>5. ValueAt(k, b)' = ValueAt(p, b)
      BY <3>1, <3>4 DEF ValueAt
    <3> QED
      BY <3>1, <3>4, <3>5 DEF LowerBoundSound
  <2> QED
    BY <1>7, <1>8, <2>1 DEF LowerBoundSound
<1> QED
  BY <1>7, <1>11, <1>12, <1>13, <1>15, <1>16 DEF HeapSound

-----------------------------------------------------------------------------
\* IInv is inductive, and the theorems follow.

\* Every node keeps its bound.
LEMMA InvKeepsBounds ==
  ASSUME Inv
  PROVE  BoundIsKept
<1>1. TypeOK /\ ListsAgree /\ Delivered /\ EveryBeliefCovered
  BY InvCovers DEF Inv
<1>2. ASSUME NEW b \in touched
      PROVE  \E p \in {IF config.cache THEN bestPlane[b] ELSE BestPlane(b)} :
               Applicable(p, b) /\ ValueAt(p, b) >= lbVal[b]
  <2>1. b \in Belief /\ lbVal[b] \in Int /\ plane \in [DOMAIN plane -> Plane]
    BY <1>1 DEF TypeOK
  <2>2. PICK p \in DOMAIN plane : Delivers(p, b) /\ (config.cache => p = bestPlane[b])
    BY <1>1 DEF Delivered
  <2>3. CASE config.cache
    BY <2>2, <2>3 DEF Delivers
  <2>4. CASE ~config.cache
    <3>1. PICK q \in DOMAIN plane : q = BestPlane(b) /\ Applicable(q, b)
                                    /\ ValueAt(p, b) <= ValueAt(q, b)
      BY <1>1, <2>1, <2>2, BestPlaneProperties DEF Delivers
    <3>2. ValueAt(p, b) \in Int /\ ValueAt(q, b) \in Int
      BY <2>1, ValueType
    <3>3. ValueAt(q, b) >= lbVal[b]
      BY <2>1, <2>2, <3>1, <3>2 DEF Delivers
    <3> QED
      BY <2>4, <3>1, <3>3
  <2> QED
    BY <2>3, <2>4
<1> QED
  BY <1>1, <1>2 DEF BoundIsKept

LEMMA NextInv ==
  ASSUME Inv, [Next]_vars, pc' # "read" PROVE Inv'
<1>1. CASE UNCHANGED vars
  BY <1>1 DEF vars, Inv, TypeOK, PointersAgree, ListsAgree, Coverage, Delivered,
        InPlace, Pruning, config, pomdp, Full, Delivers, Applicable, ValueAt, Successors
<1>2. CASE PrunePlanes
  BY <1>2, DropUnreferencedInv, KeepingInv, DropMemberInv, DropCandidateInv,
     EndPruneInv DEF PrunePlanes
<1>3. ~ReadPolicy
  BY DEF ReadPolicy
<1> QED
  BY <1>1, <1>2, <1>3, TouchRootInv, UpdateInv, AddPlaneInv, WritePolicyInv DEF Next

\* The file is written when the last prune ends, and nothing changes before it
\* is read.
LEMMA NextFileOK ==
  ASSUME FileOK, [Next]_vars PROVE FileOK'
<1> SUFFICES ASSUME pc' = "written" PROVE file' = PolicyFile'
  BY DEF FileOK
<1>1. CASE UNCHANGED vars
  <2>1. file = PolicyFile
    BY <1>1 DEF FileOK, vars
  <2>2. PolicyFile' = PolicyFile
    BY <1>1 DEF vars, PolicyFile, WritePlane, Written, config
  <2> QED
    BY <1>1, <2>1, <2>2 DEF vars
<1>2. CASE Next
  <2>1. EndPrune /\ pc = "finalPrune"
    BY <1>2 DEF Next, TouchRoot, Update, AddPlane, WritePolicy, PrunePlanes, ReadPolicy,
         DropUnreferenced, EnterMembers, KeepBoth, DropMember, DropCandidate,
         KeepCandidate, EndPrune, InMembers, Pruning, pruneUnchanged
  <2>2. file' = PolicyFile /\ UNCHANGED <<problem, plane, planes>>
    BY <2>1 DEF EndPrune
  <2>3. PolicyFile' = PolicyFile
    BY <2>2 DEF PolicyFile, WritePlane, Written, config
  <2> QED
    BY <2>2, <2>3
<1> QED
  BY <1>1, <1>2

\* Who has read a policy changes nothing.
LEMMA ReadIsLast ==
  ASSUME IInv, [Next]_vars, pc = "read" PROVE IInv'
<1>1. UNCHANGED vars
  BY DEF Next, vars, TouchRoot, Update, AddPlane, WritePolicy, PrunePlanes, ReadPolicy,
         DropUnreferenced, EnterMembers, KeepBoth, DropMember, DropCandidate,
         KeepCandidate, EndPrune, InMembers, Pruning
<1>2. HeapSound' /\ LowerBoundSound'
  BY <1>1 DEF vars, IInv, HeapSound, TypeOK, PointersAgree, ListsAgree, Pruning,
              config, pomdp, LowerBoundSound, Applicable, ValueAt
<1>3. touched' = {} /\ EveryBeliefCovered'
  BY <1>1 DEF vars, IInv, EveryBeliefCovered, Applicable, config, pomdp
<1>4. pc' = "read"
  BY <1>1 DEF vars
<1> QED
  BY <1>2, <1>3, <1>4 DEF IInv

LEMMA NextIInv == IInv /\ [Next]_vars => IInv'
<1> SUFFICES ASSUME IInv, [Next]_vars PROVE IInv'
  OBVIOUS
<1>1. CASE pc = "read"
  BY <1>1, ReadIsLast
<1>2. CASE pc # "read" /\ pc' # "read"
  <2>1. Inv /\ LowerBoundSound /\ FileOK
    BY <1>2 DEF IInv
  <2>2. Inv' /\ LowerBoundSound' /\ FileOK'
    BY <1>2, <2>1, NextInv, NextSound, NextFileOK
  <2> QED
    BY <1>2, <2>2 DEF IInv
<1>3. CASE pc # "read" /\ pc' = "read"
  <2>1. Inv /\ LowerBoundSound /\ FileOK
    BY <1>3 DEF IInv
  <2>2. ReadPolicy
    BY <1>3 DEF Next, vars, TouchRoot, Update, AddPlane, WritePolicy, PrunePlanes,
         DropUnreferenced, EnterMembers, KeepBoth, DropMember, DropCandidate,
         KeepCandidate, EndPrune, pruneUnchanged
  <2> QED
    BY <1>3, <2>1, <2>2, ReadPolicySound DEF IInv
<1> QED
  BY <1>1, <1>2, <1>3

LEMMA Invariant == Spec => []IInv
<1>1. Init => IInv
  BY InitInv, InitSound DEF IInv, FileOK, Init
<1> QED
  BY <1>1, NextIInv, PTL DEF Spec

\* What the nodes, the planes and the lists say of each other agrees, for every
\* POMDP, every configuration and any number of backups: pruning deletes and
\* moves what it goes through, and neither loses nor doubles an entry of any of
\* the four; and the program that reads the policy rebuilds them.
THEOREM HeapStaysSound == Spec => []HeapSound
<1>1. IInv => HeapSound
  BY DEF IInv, Inv, HeapSound
<1> QED
  BY <1>1, Invariant, PTL

\* Pruning loses no bound: every node keeps a plane that may be used there and
\* is worth the node's bound, and every belief that can be reached has one, also
\* among the planes that were read from the file.
THEOREM BoundStaysKept == Spec => []BoundIsKept
<1>1. IInv => BoundIsKept
  BY InvKeepsBounds DEF IInv, BoundIsKept
<1> QED
  BY <1>1, Invariant, PTL

\* No plane is worth more, at a belief that can be reached and at which it may
\* be used, than any policy can earn there: whatever is updated, with or without
\* masks, whatever was pruned, and also where masks were read from the file.  The
\* ceiling need only be above the blind policies and above its own backups.
THEOREM LowerBoundStaysSound == Spec => []LowerBoundSound
<1>1. IInv => LowerBoundSound
  BY DEF IInv
<1> QED
  BY <1>1, Invariant, PTL
=============================================================================
