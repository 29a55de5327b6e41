--------------------------- MODULE BoundPairProofs ---------------------------
(***************************************************************************)
(* What the operations of MDP and BoundPair preserve, for every number of  *)
(* nodes and actions: lemmas for the proofs about the search strategies.   *)
(***************************************************************************)
EXTENDS BoundPair, Sequences, SequencesExt, WellFoundedInduction, TLAPS

\* A set of natural numbers that is not empty has a least element.
LEMMA LeastNatural ==
  ASSUME NEW T \in SUBSET Nat, T # {}
  PROVE  \E m \in T : \A k \in T : m <= k
<1> DEFINE R == {ss \in Nat \X Nat : ss[1] < ss[2]}
<1>1. IsWellFoundedOn(R, Nat)
  BY NatLessThanWellFounded DEF OpToRel
<1>2. PICK m \in T : \A k \in T : ~(<<k, m>> \in R)
  <2> HIDE DEF R
  <2> QED
    BY <1>1, WFMin
<1>3. ASSUME NEW k \in T PROVE m <= k
  <2>1. m \in Nat /\ k \in Nat /\ <<k, m>> \notin R
    BY <1>2
  <2>2. ~(k < m)
    BY <2>1
  <2> QED
    BY <2>1, <2>2
<1> QED
  BY <1>3

\* The first of the actions 0 .. n with the largest value, as MaxAction.
FirstMax(q, n, a) ==
  /\ a \in 0 .. n
  /\ \A b \in 0 .. n : q[b] <= q[a] /\ (b < a => q[b] < q[a])

LEMMA FirstMaxExists ==
  ASSUME NEW N \in Nat, NEW q \in [0 .. N -> Int]
  PROVE  \E a \in 0 .. N : FirstMax(q, N, a)
<1> DEFINE Without == {n \in 0 .. N : ~ \E a \in 0 .. n : FirstMax(q, n, a)}
<1>1. SUFFICES ASSUME Without # {} PROVE FALSE
  <2>1. N \in 0 .. N
    OBVIOUS
  <2> QED
    BY <1>1, <2>1
<1>2. PICK m \in Without : \A k \in Without : m <= k
  <2>1. Without \in SUBSET Nat
    OBVIOUS
  <2> HIDE DEF Without
  <2> QED
    BY <1>1, <2>1, LeastNatural
<1>3. CASE m = 0
  <2>1. FirstMax(q, 0, 0)
    BY DEF FirstMax
  <2> QED
    BY <2>1, <1>2, <1>3
<1>4. CASE m # 0
  <2>1. m - 1 \in 0 .. N /\ m - 1 \notin Without
    BY <1>2, <1>4
  <2>2. PICK a \in 0 .. m - 1 : FirstMax(q, m - 1, a)
    BY <2>1
  <2>3. CASE q[m] > q[a]
    <3>1. FirstMax(q, m, m)
      BY <2>2, <2>3, <1>2, <1>4 DEF FirstMax
    <3> QED
      BY <3>1, <1>2, <1>4
  <2>4. CASE q[m] <= q[a]
    <3>1. FirstMax(q, m, a)
      BY <2>2, <2>4, <1>2, <1>4 DEF FirstMax
    <3> QED
      BY <3>1, <1>2, <1>4, <2>2
  <2> QED
    BY <2>2, <2>3, <2>4, <1>2
<1> QED
  BY <1>3, <1>4

\* The loop of argmax_elt finds the first largest value of any array.
LEMMA MaxActionProperties ==
  ASSUME NEW q \in [Action -> Int]
  PROVE  /\ MaxAction(q) \in Action
         /\ \A b \in Action : /\ q[b] <= q[MaxAction(q)]
                              /\ b < MaxAction(q) => q[b] < q[MaxAction(q)]
<1>1. NumActions - 1 \in Nat
  BY NumActionsAssumption
<1>2. PICK a \in Action : FirstMax(q, NumActions - 1, a)
  BY <1>1, FirstMaxExists DEF Action
<1>3. \A b \in Action : q[b] <= q[a] /\ (b < a => q[b] < q[a])
  BY <1>2 DEF FirstMax, Action
<1> QED
  BY <1>3 DEF MaxAction

LEMMA MaxValueType ==
  ASSUME NEW q \in [Action -> Int]
  PROVE  MaxValue(q) \in Int
BY MaxActionProperties DEF MaxValue

\* There is only one first largest value.
LEMMA MaxActionUnique ==
  ASSUME NEW q \in [Action -> Int], NEW a \in Action,
         \A b \in Action : q[b] <= q[a] /\ (b < a => q[b] < q[a])
  PROVE  MaxAction(q) = a
<1>1. a \in Int /\ MaxAction(q) \in Int
  BY MaxActionProperties DEF Action
<1>2. q[MaxAction(q)] = q[a]
  BY MaxActionProperties
<1>3. ~(a < MaxAction(q)) /\ ~(MaxAction(q) < a)
  BY <1>2, MaxActionProperties
<1> QED
  BY <1>1, <1>3

-----------------------------------------------------------------------------
\* A backup of integers is an integer ...
LEMMA BackupType ==
  ASSUME NEW p \in Problem, NEW val \in [Node -> Int],
         NEW s \in Node, NEW a \in Action
  PROVE  Backup(p, val, s, a) \in Int
<1>1. /\ p.reward[s][a] \in Int
      /\ p.prob[s][a] \in [Outcome -> 0 .. ProbDen]
      /\ p.next[s][a] \in [Outcome -> Node]
      /\ p.discount \in 0 .. DiscountDen
  BY DEF Problem
<1>a. /\ p.prob[s][a][0] \in Int /\ p.prob[s][a][1] \in Int
      /\ p.next[s][a][0] \in Node /\ p.next[s][a][1] \in Node
      /\ p.discount \in Int
  BY <1>1, DenominatorAssumption DEF Outcome
<1>2. DiscountDen * ProbDen \in Nat \ {0}
  BY DenominatorAssumption
<1> DEFINE num == p.discount * (  p.prob[s][a][0] * val[p.next[s][a][0]]
                                + p.prob[s][a][1] * val[p.next[s][a][1]])
<1>3. num \in Int
  BY <1>a
<1>4. num \div (DiscountDen * ProbDen) \in Int
  BY <1>2, <1>3
<1>5. Backup(p, val, s, a) = p.reward[s][a] + num \div (DiscountDen * ProbDen)
  BY DEF Backup
<1> HIDE DEF num
<1> QED
  BY <1>1, <1>4, <1>5

\* ... and depends on the values of the successors only.
LEMMA BackupLocal ==
  ASSUME NEW p \in Problem, NEW v \in [Node -> Int], NEW w \in [Node -> Int],
         NEW s \in Node, NEW a \in Action,
         \A n \in Successors(p, s, a) : v[n] = w[n]
  PROVE  Backup(p, v, s, a) = Backup(p, w, s, a)
<1>1. ASSUME NEW o \in Outcome
      PROVE  p.prob[s][a][o] * v[p.next[s][a][o]]
               = p.prob[s][a][o] * w[p.next[s][a][o]]
  <2>1. p.prob[s][a][o] \in 0 .. ProbDen /\ p.next[s][a][o] \in Node
    BY DEF Problem
  <2>2. CASE p.prob[s][a][o] = 0
    BY <2>1, <2>2
  <2>3. CASE p.prob[s][a][o] > 0
    BY <2>3 DEF Successors, Edges
  <2> QED
    BY <2>1, <2>2, <2>3, DenominatorAssumption
<1> QED
  BY <1>1 DEF Backup, Outcome

-----------------------------------------------------------------------------
\* The lazy backup ends with the best action fresh: an action that is best and
\* as cached is one the loop would have come to.
LEMMA UseCacheFreshBest ==
  ASSUME NEW cached \in [Action -> Int], NEW fresh \in [Action -> Int]
  PROVE  LET q == UseCache(cached, fresh)
         IN  /\ q \in [Action -> Int]
             /\ \A a \in Action : q[a] \in {fresh[a], cached[a]}
             /\ q[MaxAction(q)] = fresh[MaxAction(q)]
<1> DEFINE Mixed(U)  == [a \in Action |-> IF a \in U THEN fresh[a] ELSE cached[a]]
           Before(a) == {b \in Action : \/ cached[b] > cached[a]
                                        \/ cached[b] = cached[a] /\ b < a}
           U == {a \in Action : MaxAction(Mixed(Before(a))) = a}
           q == Mixed(U)
           m == MaxAction(q)
<1>1. UseCache(cached, fresh) = q
  BY DEF UseCache
<1>2. \A V : Mixed(V) \in [Action -> Int]
  OBVIOUS
<1>3. /\ q \in [Action -> Int]
      /\ \A a \in Action : q[a] = IF a \in U THEN fresh[a] ELSE cached[a]
  OBVIOUS
<1> HIDE DEF q
<1>4. /\ m \in Action
      /\ \A b \in Action : q[b] <= q[m] /\ (b < m => q[b] < q[m])
  BY <1>3, MaxActionProperties
<1> HIDE DEF m
<1>5. m \in U
  <2> DEFINE r == Mixed(Before(m))
  <2>1. SUFFICES ASSUME m \notin U PROVE MaxAction(r) = m
    BY <1>4
  <2>2. q[m] = cached[m]
    BY <1>3, <1>4, <2>1
  <2>3. r[m] = cached[m]
    BY <1>4 DEF Action
  <2>4. ASSUME NEW b \in Action PROVE r[b] <= r[m] /\ (b < m => r[b] < r[m])
    <3>1. /\ b \in Int /\ m \in Int
          /\ cached[b] \in Int /\ cached[m] \in Int /\ fresh[b] \in Int
      BY <1>4 DEF Action
    <3>2. CASE b \in Before(m)
      <4>1. r[b] = fresh[b]
        BY <3>2
      <4>2. b \in U
        BY <1>3, <1>4, <2>2, <3>1, <3>2
      <4>3. q[b] = fresh[b]
        BY <1>3, <4>2
      <4> QED
        BY <1>4, <2>2, <2>3, <4>1, <4>3
    <3>3. CASE b \notin Before(m)
      <4>1. r[b] = cached[b]
        BY <3>3
      <4> QED
        BY <2>3, <3>1, <3>3, <4>1
    <3> QED
      BY <3>2, <3>3
  <2>5. r \in [Action -> Int]
    BY <1>2
  <2> HIDE DEF r
  <2> QED
    BY <1>4, <2>4, <2>5, MaxActionUnique
<1> QED
  BY <1>1, <1>3, <1>4, <1>5 DEF m

-----------------------------------------------------------------------------
\* The table of Update once s is expanded.
Grown(p, bp, s) == IF s \in bp.expanded THEN bp ELSE Expand(p, bp, s)

\* Expanded nodes, and the successors their edges point to, are in the table.
Linked(p, bp) ==
  /\ bp.expanded \subseteq bp.lookup
  /\ \A n \in bp.expanded, a \in Action : Successors(p, n, a) \subseteq bp.lookup

\* Looking up nodes for states keeps the bounds of those that exist.
LEMMA GetNodesProperties ==
  ASSUME NEW p \in Problem, NEW bp \in BoundTable, NEW S \in SUBSET Node
  PROVE  LET new == GetNodes(p, bp, S)
         IN  /\ new \in BoundTable
             /\ new.lookup = bp.lookup \cup S
             /\ new.expanded = bp.expanded
             /\ new.qub = bp.qub
             /\ \A n \in bp.lookup : new.ub[n] = bp.ub[n]
<1> DEFINE new == GetNodes(p, bp, S)
<1>1. \A n \in Node : InitUB(p, n) \in Int /\ InitLB(p, n) \in Int
  BY DEF InitUB, InitLB, Problem
<1> DEFINE ub == [n \in Node |-> IF n \in S \ bp.lookup THEN InitUB(p, n)
                                                       ELSE bp.ub[n]]
           lb == [n \in Node |-> IF n \in S \ bp.lookup THEN InitLB(p, n)
                                                       ELSE bp.lb[n]]
<1>2. ub \in [Node -> Int] /\ lb \in [Node -> Int]
  BY <1>1 DEF BoundTable
<1>3. \A n \in bp.lookup : ub[n] = bp.ub[n]
  BY DEF BoundTable
<1> HIDE DEF ub, lb
<1> DEFINE t1 == [bp EXCEPT !.lookup = @ \cup (S \ bp.lookup)]
           t2 == [t1 EXCEPT !.ub = ub]
           t3 == [t2 EXCEPT !.lb = lb]
<1>4. new = t3
  BY DEF GetNodes, ub, lb
<1>5. /\ t1 \in BoundTable /\ t1.lookup = bp.lookup \cup S
      /\ t1.expanded = bp.expanded /\ t1.qub = bp.qub
  BY DEF BoundTable
<1> HIDE DEF t1
<1>6. /\ t2 \in BoundTable /\ t2.lookup = bp.lookup \cup S
      /\ t2.expanded = bp.expanded /\ t2.qub = bp.qub /\ t2.ub = ub
  BY <1>2, <1>5 DEF BoundTable
<1> HIDE DEF t2
<1>7. /\ t3 \in BoundTable /\ t3.lookup = bp.lookup \cup S
      /\ t3.expanded = bp.expanded /\ t3.qub = bp.qub /\ t3.ub = ub
  BY <1>2, <1>6 DEF BoundTable
<1> QED
  BY <1>3, <1>4, <1>7

LEMMA SuccessorsType ==
  ASSUME NEW p \in Problem, NEW s \in Node, NEW a \in Action
  PROVE  Successors(p, s, a) \in SUBSET Node
BY DEF Successors, Edges, Problem

LEMMA GrownProperties ==
  ASSUME NEW p \in Problem, NEW bp \in BoundTable, NEW s \in bp.lookup,
         Linked(p, bp)
  PROVE  LET new == Grown(p, bp, s)
         IN  /\ new \in BoundTable
             /\ bp.lookup \subseteq new.lookup
             /\ new.expanded = bp.expanded \cup {s}
             /\ Linked(p, new)
             /\ \A n \in Node \ {s} : new.qub[n] = bp.qub[n]
             /\ \A n \in bp.lookup : new.ub[n] = bp.ub[n]
<1>1. CASE s \in bp.expanded
  BY <1>1 DEF Grown
<1>2. CASE s \notin bp.expanded
  <2> DEFINE succ == UNION {Successors(p, s, a) : a \in Action}
             got  == GetNodes(p, bp, succ)
             new  == Expand(p, bp, s)
  <2>1. s \in Node /\ succ \in SUBSET Node
    BY SuccessorsType DEF BoundTable
  <2> HIDE DEF succ
  <2>2. /\ got \in BoundTable
        /\ got.lookup = bp.lookup \cup succ
        /\ got.expanded = bp.expanded
        /\ got.qub = bp.qub
        /\ \A n \in bp.lookup : got.ub[n] = bp.ub[n]
    BY <2>1, GetNodesProperties
  <2> HIDE DEF got
  <2> DEFINE t == [got EXCEPT !.expanded = @ \cup {s}]
  <2>3. new = [t EXCEPT !.qub[s] = [a \in Action |-> QValUndefined]]
    BY DEF Expand, got, succ
  <2>t. /\ t \in BoundTable
        /\ t.lookup = got.lookup
        /\ t.expanded = got.expanded \cup {s}
        /\ t.ub = got.ub
        /\ t.qub = got.qub
    BY <2>1, <2>2 DEF BoundTable
  <2> HIDE DEF t, new
  <2>q. [a \in Action |-> QValUndefined] \in [Action -> Int]
    BY BoundPairAssumption
  <2>4. /\ new \in BoundTable
        /\ new.lookup = got.lookup
        /\ new.expanded = got.expanded \cup {s}
        /\ new.ub = got.ub
        /\ \A n \in Node \ {s} : new.qub[n] = got.qub[n]
    BY <2>1, <2>t, <2>3, <2>q DEF BoundTable
  <2>5. \A a \in Action : Successors(p, s, a) \subseteq succ
    BY DEF succ
  <2>6. Linked(p, new)
    BY <2>2, <2>4, <2>5 DEF Linked
  <2> QED
    BY <1>2, <2>2, <2>4, <2>6 DEF Grown, new
<1> QED
  BY <1>1, <1>2

\* Whichever way the Q values of a node are updated, the best is fresh.
LEMMA NewQProperties ==
  ASSUME NEW p \in Problem, NEW bp \in BoundTable, NEW s \in Node
  PROVE  LET q == NewQ(p, bp, s)
         IN  /\ q \in [Action -> Int]
             /\ q[MaxAction(q)] = Backup(p, bp.ub, s, MaxAction(q))
<1> DEFINE fresh == [a \in Action |-> Backup(p, bp.ub, s, a)]
<1>1. fresh \in [Action -> Int] /\ bp.qub[s] \in [Action -> Int]
  BY BackupType DEF BoundTable
<1>2. \A a \in Action : fresh[a] = Backup(p, bp.ub, s, a)
  OBVIOUS
<1>3. CASE NewQ(p, bp, s) = fresh
  BY <1>1, <1>2, <1>3, MaxActionProperties
<1>4. CASE NewQ(p, bp, s) = UseCache(bp.qub[s], fresh)
  <2> DEFINE q == UseCache(bp.qub[s], fresh)
  <2> HIDE DEF fresh
  <2>1. q \in [Action -> Int] /\ q[MaxAction(q)] = fresh[MaxAction(q)]
    BY <1>1, UseCacheFreshBest
  <2> QED
    BY <1>2, <1>4, <2>1, MaxActionProperties
<1> QED
  BY <1>3, <1>4 DEF NewQ

\* What a backup of node s does to the table, and what it leaves alone.
LEMMA UpdateProperties ==
  ASSUME NEW p \in Problem, NEW bp \in BoundTable, NEW s \in bp.lookup,
         Linked(p, bp)
  PROVE  LET new == Update(p, bp, s)
             a   == MaxAction(new.qub[s])
         IN  /\ new \in BoundTable
             /\ bp.lookup \subseteq new.lookup
             /\ new.expanded = bp.expanded \cup {s}
             /\ Linked(p, new)
             /\ \A n \in Node \ {s} : new.qub[n] = bp.qub[n]
             /\ \A n \in bp.lookup \ {s} : new.ub[n] = bp.ub[n]
             /\ new.qub[s][a] = Backup(p, [new.ub EXCEPT ![s] = bp.ub[s]], s, a)
<1> DEFINE grown == Grown(p, bp, s)
           q     == NewQ(p, grown, s)
           ub    == IF MaxValue(q) < grown.ub[s] THEN MaxValue(q) ELSE grown.ub[s]
           lb    == IF DualPointBounds THEN NewLB(p, grown, s) ELSE grown.lb[s]
           t1    == [grown EXCEPT !.qub[s] = q]
           t2    == [t1 EXCEPT !.ub[s] = ub]
           t3    == [t2 EXCEPT !.lb[s] = lb]
           new   == Update(p, bp, s)
<1>1. s \in Node
  BY DEF BoundTable
<1>2. /\ grown \in BoundTable
      /\ bp.lookup \subseteq grown.lookup
      /\ grown.expanded = bp.expanded \cup {s}
      /\ Linked(p, grown)
      /\ \A n \in Node \ {s} : grown.qub[n] = bp.qub[n]
      /\ \A n \in bp.lookup : grown.ub[n] = bp.ub[n]
  BY GrownProperties
<1>3. new = t3
  BY DEF Update, UpdateBounds, Grown
<1> HIDE DEF grown
<1>4. q \in [Action -> Int] /\ q[MaxAction(q)] = Backup(p, grown.ub, s, MaxAction(q))
  BY <1>1, <1>2, NewQProperties
<1>5. ub \in Int
  <2>1. MaxValue(q) \in Int
    BY <1>4, MaxValueType
  <2>2. grown.ub[s] \in Int
    BY <1>1, <1>2 DEF BoundTable
  <2> QED
    BY <2>1, <2>2
<1>6. lb \in Int
  <2>1. grown.lb[s] \in Int /\ grown.lb \in [Node -> Int]
    BY <1>1, <1>2 DEF BoundTable
  <2>2. [a \in Action |-> Backup(p, grown.lb, s, a)] \in [Action -> Int]
    BY <1>1, <2>1, BackupType
  <2>3. MaxValue([a \in Action |-> Backup(p, grown.lb, s, a)]) \in Int
    BY <2>2, MaxValueType
  <2> QED
    BY <2>1, <2>3 DEF NewLB
<1> HIDE DEF q, ub, lb
<1>7. /\ t1 \in BoundTable
      /\ t1.lookup = grown.lookup /\ t1.expanded = grown.expanded
      /\ t1.ub = grown.ub /\ t1.lb = grown.lb
      /\ t1.qub[s] = q
      /\ \A n \in Node \ {s} : t1.qub[n] = grown.qub[n]
  BY <1>1, <1>2, <1>4 DEF BoundTable
<1> HIDE DEF t1
<1>8. /\ t2 \in BoundTable
      /\ t2.lookup = grown.lookup /\ t2.expanded = grown.expanded
      /\ t2.qub = t1.qub
      /\ t2.ub = [grown.ub EXCEPT ![s] = ub]
  BY <1>1, <1>5, <1>7 DEF BoundTable
<1> HIDE DEF t2
<1>9. /\ t3 \in BoundTable
      /\ t3.lookup = grown.lookup /\ t3.expanded = grown.expanded
      /\ t3.qub = t1.qub
      /\ t3.ub = [grown.ub EXCEPT ![s] = ub]
  BY <1>1, <1>6, <1>8 DEF BoundTable
<1> HIDE DEF t3, new
<1>10. Linked(p, new)
  BY <1>2, <1>3, <1>9 DEF Linked
<1>11. \A n \in bp.lookup \ {s} : new.ub[n] = bp.ub[n]
  BY <1>1, <1>2, <1>3, <1>9 DEF BoundTable
<1>12. [new.ub EXCEPT ![s] = bp.ub[s]] = grown.ub
  BY <1>1, <1>2, <1>3, <1>9 DEF BoundTable
<1>13. /\ new \in BoundTable
       /\ bp.lookup \subseteq new.lookup
       /\ new.expanded = bp.expanded \cup {s}
       /\ new.qub[s] = q
       /\ \A n \in Node \ {s} : new.qub[n] = bp.qub[n]
  BY <1>1, <1>2, <1>3, <1>7, <1>9
<1> QED
  BY <1>4, <1>10, <1>11, <1>12, <1>13 DEF new

\* The table after Update, as far as most steps need to know it.
LEMMA TableAfterUpdate ==
  ASSUME NEW p \in Problem, NEW bp \in BoundTable, Linked(p, bp),
         NEW s \in bp.lookup
  PROVE  LET T == Update(p, bp, s)
         IN  /\ T \in BoundTable
             /\ bp.lookup \subseteq T.lookup
             /\ T.expanded = bp.expanded \cup {s}
             /\ Linked(p, T)
             /\ \A n \in Node \ {s} : T.qub[n] = bp.qub[n]
             /\ \A n \in bp.lookup \ {s} : T.ub[n] = bp.ub[n]
<1> DEFINE T == Update(p, bp, s)
<1>1. /\ T \in BoundTable
      /\ bp.lookup \subseteq T.lookup
      /\ T.expanded = bp.expanded \cup {s}
      /\ Linked(p, T)
      /\ \A n \in Node \ {s} : T.qub[n] = bp.qub[n]
      /\ \A n \in bp.lookup \ {s} : T.ub[n] = bp.ub[n]
      /\ T.qub[s][MaxAction(T.qub[s])]
           = Backup(p, [T.ub EXCEPT ![s] = bp.ub[s]], s, MaxAction(T.qub[s]))
  BY UpdateProperties, Z3
<1> QED
  BY <1>1

\* A backup that keeps the new Q values but not the new bound, as cacheQ in
\* LRTDP and HDP.
Cached(p, bp, s) == [Update(p, bp, s) EXCEPT !.ub[s] = bp.ub[s]]

\* Then only the Q values of s have changed, and the best of them is a backup
\* of the bounds as they are.
LEMMA CachedProperties ==
  ASSUME NEW p \in Problem, NEW bp \in BoundTable, Linked(p, bp),
         NEW s \in bp.lookup
  PROVE  LET T == Cached(p, bp, s)
             a == MaxUBAction(T, s)
         IN  /\ T \in BoundTable
             /\ bp.lookup \subseteq T.lookup
             /\ T.expanded = bp.expanded \cup {s}
             /\ Linked(p, T)
             /\ \A n \in Node \ {s} : T.qub[n] = bp.qub[n]
             /\ \A n \in bp.lookup : T.ub[n] = bp.ub[n]
             /\ a \in Action
             /\ T.qub[s][a] = Backup(p, T.ub, s, a)
<1> DEFINE U == Update(p, bp, s)
           T == Cached(p, bp, s)
<1>1. s \in Node /\ bp.ub[s] \in Int
  BY DEF BoundTable
<1>2. /\ U \in BoundTable
      /\ bp.lookup \subseteq U.lookup
      /\ U.expanded = bp.expanded \cup {s}
      /\ Linked(p, U)
      /\ \A n \in Node \ {s} : U.qub[n] = bp.qub[n]
      /\ \A n \in bp.lookup \ {s} : U.ub[n] = bp.ub[n]
      /\ U.qub[s][MaxAction(U.qub[s])]
           = Backup(p, [U.ub EXCEPT ![s] = bp.ub[s]], s, MaxAction(U.qub[s]))
  BY UpdateProperties, Z3
<1>3. T = [U EXCEPT !.ub[s] = bp.ub[s]]
  BY DEF Cached
<1> HIDE DEF U, T
<1>4. /\ T \in BoundTable
      /\ T.lookup = U.lookup /\ T.expanded = U.expanded /\ T.qub = U.qub
      /\ T.ub = [U.ub EXCEPT ![s] = bp.ub[s]]
  BY <1>1, <1>2, <1>3 DEF BoundTable
<1>5. \A n \in bp.lookup : T.ub[n] = bp.ub[n]
  BY <1>1, <1>2, <1>4 DEF BoundTable
<1>6. Linked(p, T)
  BY <1>2, <1>4 DEF Linked
<1>7. T.qub[s] \in [Action -> Int]
  BY <1>1, <1>4 DEF BoundTable
<1>8. MaxUBAction(T, s) = MaxAction(U.qub[s]) /\ MaxUBAction(T, s) \in Action
  BY <1>4, <1>7, MaxActionProperties DEF MaxUBAction
<1> QED
  BY <1>2, <1>4, <1>5, <1>6, <1>8 DEF T

-----------------------------------------------------------------------------
\* Stacks: what pushing and popping does to the set of their elements.
LEMMA EmptyStack == ToSet(<<>>) = {} /\ IsInjective(<<>>)
BY DEF ToSet, IsInjective

LEMMA PushProperties ==
  ASSUME NEW S, NEW st \in Seq(S), NEW x \in S
  PROVE  /\ Append(st, x) \in Seq(S)
         /\ Append(st, x) # <<>>
         /\ ToSet(Append(st, x)) = ToSet(st) \cup {x}
         /\ IsInjective(st) /\ x \notin ToSet(st) => IsInjective(Append(st, x))
<1> DEFINE t == Append(st, x)
<1>1. /\ t \in Seq(S) /\ Len(t) = Len(st) + 1
      /\ \A i \in 1 .. Len(st) : t[i] = st[i]
      /\ t[Len(st) + 1] = x
      /\ DOMAIN t = 1 .. Len(st) + 1 /\ DOMAIN st = 1 .. Len(st)
      /\ Len(st) \in Nat
  OBVIOUS
<1> HIDE DEF t
<1>2. t # <<>>
  BY <1>1
<1>3. \A i \in DOMAIN t : i \in DOMAIN st \/ i = Len(st) + 1
  BY <1>1
<1>4. ToSet(t) = ToSet(st) \cup {x}
  <2>1. ToSet(t) \subseteq ToSet(st) \cup {x}
    BY <1>1, <1>3 DEF ToSet
  <2>2. DOMAIN st \subseteq DOMAIN t /\ Len(st) + 1 \in DOMAIN t
    BY <1>1
  <2>3. ToSet(st) \cup {x} \subseteq ToSet(t)
    BY <1>1, <2>2 DEF ToSet
  <2> QED
    BY <2>1, <2>3
<1>5. ASSUME IsInjective(st), x \notin ToSet(st) PROVE IsInjective(t)
  BY <1>1, <1>3, <1>5 DEF IsInjective, ToSet
<1> QED
  BY <1>1, <1>2, <1>4, <1>5 DEF t

LEMMA PopProperties ==
  ASSUME NEW S, NEW st \in Seq(S), st # <<>>
  PROVE  /\ Front(st) \in Seq(S)
         /\ Last(st) \in S
         /\ Last(st) \in ToSet(st)
         /\ ToSet(st) = ToSet(Front(st)) \cup {Last(st)}
         /\ Front(st) = <<>> <=> Len(st) = 1
         /\ IsInjective(st) => /\ IsInjective(Front(st))
                               /\ Last(st) \notin ToSet(Front(st))
<1> DEFINE t == Front(st)
           n == Len(st)
<1>1. n \in Nat \ {0} /\ DOMAIN st = 1 .. n /\ st \in [1 .. n -> S]
  OBVIOUS
<1>2. /\ t \in Seq(S) /\ Len(t) = n - 1 /\ DOMAIN t = 1 .. n - 1
      /\ \A i \in 1 .. n - 1 : t[i] = st[i]
  BY <1>1 DEF Front
<1>3. t = <<>> <=> n = 1
  BY <1>1, <1>2
<1> HIDE DEF t, n
<1>4. Last(st) = st[n] /\ st[n] \in S /\ n \in DOMAIN st
  BY <1>1 DEF Last, n
<1>5. \A i \in DOMAIN st : i \in DOMAIN t \/ i = n
  BY <1>1, <1>2
<1>6. DOMAIN t \subseteq DOMAIN st /\ n \notin DOMAIN t
  BY <1>1, <1>2
<1>7. ToSet(st) = ToSet(t) \cup {st[n]}
  BY <1>2, <1>4, <1>5, <1>6 DEF ToSet
<1>8. ASSUME IsInjective(st) PROVE IsInjective(t) /\ st[n] \notin ToSet(t)
  BY <1>2, <1>4, <1>6, <1>8 DEF IsInjective, ToSet
<1> QED
  BY <1>2, <1>3, <1>4, <1>7, <1>8 DEF t, n

\* A stack that is pushed on, position by position.
LEMMA AppendKeeps ==
  ASSUME NEW S, NEW st \in Seq(S), NEW x \in S
  PROVE  LET t == Append(st, x)
         IN  /\ t \in Seq(S)
             /\ t # <<>>
             /\ Len(st) \in Nat
             /\ Len(t) = Len(st) + 1
             /\ DOMAIN st = 1 .. Len(st)
             /\ DOMAIN t = 1 .. Len(st) + 1
             /\ t[Len(st) + 1] = x
             /\ \A i \in 1 .. Len(st) : t[i] = st[i]
<1> DEFINE t == Append(st, x)
<1>1. /\ t \in Seq(S) /\ Len(t) = Len(st) + 1 /\ Len(st) \in Nat
      /\ DOMAIN st = 1 .. Len(st) /\ DOMAIN t = 1 .. Len(st) + 1
      /\ t[Len(st) + 1] = x
      /\ \A i \in 1 .. Len(st) : t[i] = st[i]
  OBVIOUS
<1> HIDE DEF t
<1>2. t # <<>>
  BY <1>1
<1> QED
  BY <1>1, <1>2 DEF t

\* A stack whose top is replaced, as when the innermost call goes on.
LEMMA ReplaceTopProperties ==
  ASSUME NEW S, NEW st \in Seq(S), st # <<>>, NEW x \in S
  PROVE  LET t == Append(Front(st), x)
         IN  /\ t \in Seq(S)
             /\ Len(t) = Len(st)
             /\ Len(t) \in Nat \ {0}
             /\ DOMAIN t = 1 .. Len(st)
             /\ t[Len(st)] = x
             /\ \A i \in 1 .. Len(st) - 1 : t[i] = st[i]
<1> DEFINE f == Front(st)
<1>1. Len(st) \in Nat \ {0}
  OBVIOUS
<1>2. /\ f \in Seq(S) /\ Len(f) = Len(st) - 1
      /\ \A i \in 1 .. Len(st) - 1 : f[i] = st[i]
  BY <1>1 DEF Front
<1> HIDE DEF f
<1>3. LET t == Append(f, x)
      IN  /\ t \in Seq(S) /\ Len(t) = Len(f) + 1 /\ DOMAIN t = 1 .. Len(f) + 1
          /\ t[Len(f) + 1] = x /\ \A i \in 1 .. Len(f) : t[i] = f[i]
  BY <1>2
<1>4. Len(f) + 1 = Len(st) /\ 1 .. Len(f) = 1 .. Len(st) - 1
  BY <1>1, <1>2
<1> DEFINE t == Append(f, x)
<1> HIDE DEF t
<1>5. /\ t \in Seq(S) /\ Len(t) = Len(st) /\ DOMAIN t = 1 .. Len(st)
      /\ t[Len(st)] = x /\ \A i \in 1 .. Len(st) - 1 : t[i] = st[i]
  BY <1>2, <1>3, <1>4 DEF t
<1> QED
  BY <1>1, <1>5 DEF f, t

\* The same for a stack that is popped: what is left, position by position.
LEMMA FrontProperties ==
  ASSUME NEW S, NEW st \in Seq(S), st # <<>>
  PROVE  /\ Front(st) \in Seq(S)
         /\ Len(st) \in Nat \ {0}
         /\ Len(Front(st)) = Len(st) - 1
         /\ \A i \in 1 .. Len(st) - 1 : Front(st)[i] = st[i]
         /\ Last(st) = st[Len(st)]
         /\ Last(st) \in S
<1>1. Len(st) \in Nat \ {0}
  OBVIOUS
<1>2. /\ Front(st) \in Seq(S) /\ Len(Front(st)) = Len(st) - 1
      /\ \A i \in 1 .. Len(st) - 1 : Front(st)[i] = st[i]
  <2>0. Len(st) - 1 \in 0 .. Len(st)
    BY <1>1
  <2>1. PICK k \in 0 .. Len(st) : k = Len(st) - 1
    BY <2>0
  <2>2. Len(SubSeq(st, 1, k)) = k
    OBVIOUS
  <2>3. Front(st) = SubSeq(st, 1, k)
    BY <2>1 DEF Front
  <2>4. Len(Front(st)) = Len(st) - 1
    BY <2>1, <2>2, <2>3
  <2>5. Front(st) \in Seq(S)
    BY <1>1 DEF Front
  <2>6. \A i \in 1 .. Len(st) - 1 : Front(st)[i] = st[i]
    BY <1>1 DEF Front
  <2> QED
    BY <2>4, <2>5, <2>6
<1>3. st \in [1 .. Len(st) -> S] /\ Len(st) \in 1 .. Len(st)
  BY <1>1
<1>4. Last(st) = st[Len(st)] /\ st[Len(st)] \in S
  BY <1>3 DEF Last
<1> QED
  BY <1>1, <1>2, <1>4

-----------------------------------------------------------------------------
\* Multiplication and division keep an order.
LEMMA TimesMonotone ==
  ASSUME NEW c \in Nat, NEW x \in Int, NEW y \in Int, x <= y
  PROVE  c * x <= c * y
OBVIOUS

LEMMA DivMonotone ==
  ASSUME NEW x \in Int, NEW y \in Int, NEW d \in Nat \ {0}, NEW k \in Nat,
         x <= y + d * k
  PROVE  x \div d <= y \div d + k
<1> DEFINE q == x \div d
           r == y \div d
<1>1. q \in Int /\ r \in Int
  OBVIOUS
<1>2. d * q <= x /\ y < d * r + d
  OBVIOUS
<1> HIDE DEF q, r
<1>3. d * q < d * r + d + d * k
  BY <1>1, <1>2
<1>4. SUFFICES ASSUME r + k + 1 <= q PROVE FALSE
  BY <1>1 DEF q, r
<1>5. d * (r + k + 1) <= d * q
  BY <1>1, <1>4, TimesMonotone
<1>6. d * (r + k + 1) = d * r + d * k + d
  BY <1>1
<1> QED
  BY <1>1, <1>3, <1>5, <1>6

\* The probabilities of every action's outcomes sum to one.
Distributed(p) ==
  \A s \in Node, a \in Action : p.prob[s][a][0] + p.prob[s][a][1] = ProbDen

\* Values that are at most k apart at the successors lead to backups that are
\* at most k apart, rounding included.
LEMMA BackupGap ==
  ASSUME NEW p \in Problem, Distributed(p),
         NEW u \in [Node -> Int], NEW l \in [Node -> Int], NEW k \in Nat,
         NEW s \in Node, NEW a \in Action,
         \A n \in Successors(p, s, a) : u[n] <= l[n] + k
  PROVE  Backup(p, u, s, a) <= Backup(p, l, s, a) + k
<1> DEFINE P(o) == p.prob[s][a][o]
           N(o) == p.next[s][a][o]
           X    == P(0) * u[N(0)] + P(1) * u[N(1)]
           Y    == P(0) * l[N(0)] + P(1) * l[N(1)]
           c    == p.discount
           d    == DiscountDen * ProbDen
<1>1. /\ p.reward[s][a] \in Int
      /\ p.prob[s][a] \in [Outcome -> 0 .. ProbDen]
      /\ p.next[s][a] \in [Outcome -> Node]
      /\ c \in 0 .. DiscountDen
  BY DEF Problem
<1>2. /\ ProbDen \in Nat /\ DiscountDen \in Nat /\ d \in Nat \ {0}
      /\ c \in Nat /\ c <= DiscountDen
  BY <1>1, DenominatorAssumption
<1>3. ASSUME NEW o \in Outcome
      PROVE  /\ P(o) \in Nat /\ u[N(o)] \in Int /\ l[N(o)] \in Int
             /\ P(o) * u[N(o)] <= P(o) * l[N(o)] + P(o) * k
  <2>1. P(o) \in Nat /\ u[N(o)] \in Int /\ l[N(o)] \in Int
    BY <1>1, <1>2
  <2>2. CASE P(o) = 0
    <3> HIDE DEF P, N
    <3> QED
      BY <2>1, <2>2
  <2>3. CASE P(o) > 0
    <3>1. N(o) \in Successors(p, s, a)
      BY <2>3 DEF Successors, Edges
    <3>2. u[N(o)] <= l[N(o)] + k
      BY <3>1
    <3> HIDE DEF P, N
    <3>3. P(o) * u[N(o)] <= P(o) * (l[N(o)] + k)
      BY <2>1, <3>2, TimesMonotone
    <3> DEFINE m == P(o)
               y == l[N(o)]
    <3>4. m \in Nat /\ y \in Int
      BY <2>1
    <3> HIDE DEF m, y
    <3>5. m * (y + k) = m * y + m * k
      BY <3>4
    <3> QED
      BY <2>1, <3>3, <3>5 DEF m, y
  <2> HIDE DEF P, N
  <2> QED
    BY <2>1, <2>2, <2>3
<1>4. P(0) + P(1) = ProbDen /\ 0 \in Outcome /\ 1 \in Outcome
  BY DEF Distributed, Outcome
<1>5. Backup(p, u, s, a) = p.reward[s][a] + (c * X) \div d
      /\ Backup(p, l, s, a) = p.reward[s][a] + (c * Y) \div d
  BY DEF Backup
<1>6. X \in Int /\ Y \in Int /\ X <= Y + ProbDen * k
  <2> HIDE DEF P, N
  <2>1. P(0) * k + P(1) * k = ProbDen * k
    BY <1>2, <1>3, <1>4
  <2> DEFINE x0 == P(0) * u[N(0)]
             x1 == P(1) * u[N(1)]
             y0 == P(0) * l[N(0)]
             y1 == P(1) * l[N(1)]
             k0 == P(0) * k
             k1 == P(1) * k
             kk == ProbDen * k
  <2>2. /\ x0 \in Int /\ x1 \in Int /\ y0 \in Int /\ y1 \in Int
        /\ k0 \in Int /\ k1 \in Int /\ kk \in Int
    BY <1>2, <1>3, <1>4
  <2>3. x0 <= y0 + k0 /\ x1 <= y1 + k1
    BY <1>3, <1>4
  <2>4. X = x0 + x1 /\ Y = y0 + y1
    OBVIOUS
  <2> HIDE DEF x0, x1, y0, y1, k0, k1, kk, X, Y
  <2>5. k0 + k1 = kk
    BY <2>1 DEF k0, k1, kk
  <2>6. X \in Int /\ Y \in Int /\ X <= Y + kk
    BY <2>2, <2>3, <2>4, <2>5
  <2> QED
    BY <2>6 DEF kk
<1> HIDE DEF P, N, X, Y, c, d
<1>7. c * X <= c * Y + d * k
  <2>1. c * X <= c * (Y + ProbDen * k)
    BY <1>2, <1>6, TimesMonotone
  <2>2. c * (Y + ProbDen * k) = c * Y + (ProbDen * k) * c
    BY <1>2, <1>6
  <2>3. (ProbDen * k) * c <= (ProbDen * k) * DiscountDen
    BY <1>2, TimesMonotone
  <2>4. (ProbDen * k) * DiscountDen = d * k
    BY <1>2 DEF d
  <2>5. ProbDen * k \in Nat
    BY <1>2
  <2> DEFINE z == ProbDen * k
  <2> HIDE DEF z
  <2>6. c * X \in Int /\ c * Y \in Int /\ z * c \in Int /\ d * k \in Int
    BY <1>2, <1>6, <2>5 DEF z
  <2> QED
    BY <2>1, <2>2, <2>3, <2>4, <2>6 DEF z
<1>8. (c * X) \div d <= (c * Y) \div d + k
  <2>1. c * X \in Int /\ c * Y \in Int
    BY <1>2, <1>6
  <2> QED
    BY <1>2, <1>7, <2>1, DivMonotone
<1>9. (c * X) \div d \in Int /\ (c * Y) \div d \in Int
  BY <1>2, <1>6
<1> QED
  BY <1>1, <1>5, <1>8, <1>9

\* A backup is monotone in the values of the successors.
LEMMA BackupMonotone ==
  ASSUME NEW p \in Problem, Distributed(p),
         NEW u \in [Node -> Int], NEW l \in [Node -> Int],
         NEW s \in Node, NEW a \in Action,
         \A n \in Successors(p, s, a) : u[n] <= l[n]
  PROVE  Backup(p, u, s, a) <= Backup(p, l, s, a)
<1>1. \A n \in Successors(p, s, a) : u[n] <= l[n] + 0
  <2>1. \A n \in Successors(p, s, a) : l[n] \in Int
    BY SuccessorsType
  <2> QED
    BY <2>1
<1>2. Backup(p, u, s, a) <= Backup(p, l, s, a) + 0
  BY <1>1, BackupGap
<1> QED
  BY <1>2, BackupType

-----------------------------------------------------------------------------
\* The bounds of all states: those that have no node have their initial ones.
UBOf(p, bp) == [n \in Node |-> IF n \in bp.lookup THEN bp.ub[n] ELSE InitUB(p, n)]
LBOf(p, bp) == [n \in Node |-> IF n \in bp.lookup THEN bp.lb[n] ELSE InitLB(p, n)]

LEMMA BoundsType ==
  ASSUME NEW p \in Problem, NEW bp \in BoundTable
  PROVE  UBOf(p, bp) \in [Node -> Int] /\ LBOf(p, bp) \in [Node -> Int]
<1>1. \A n \in Node : InitUB(p, n) \in Int /\ InitLB(p, n) \in Int
  BY DEF InitUB, InitLB, Problem
<1> QED
  BY <1>1 DEF UBOf, LBOf, BoundTable

\* Making nodes changes no bound ...
LEMMA GetNodesKeepsBounds ==
  ASSUME NEW p \in Problem, NEW bp \in BoundTable, NEW S \in SUBSET Node
  PROVE  /\ UBOf(p, GetNodes(p, bp, S)) = UBOf(p, bp)
         /\ LBOf(p, GetNodes(p, bp, S)) = LBOf(p, bp)
<1> DEFINE ub == [n \in Node |-> IF n \in S \ bp.lookup THEN InitUB(p, n)
                                                       ELSE bp.ub[n]]
           lb == [n \in Node |-> IF n \in S \ bp.lookup THEN InitLB(p, n)
                                                       ELSE bp.lb[n]]
           t1 == [bp EXCEPT !.lookup = @ \cup (S \ bp.lookup)]
           t2 == [t1 EXCEPT !.ub = ub]
           t3 == [t2 EXCEPT !.lb = lb]
<1>1. GetNodes(p, bp, S) = t3
  BY DEF GetNodes
<1>2. t1 \in BoundTable /\ t1.lookup = bp.lookup \cup S
  BY DEF BoundTable
<1>3. /\ \A n \in Node : InitUB(p, n) \in Int /\ InitLB(p, n) \in Int
      /\ ub \in [Node -> Int] /\ lb \in [Node -> Int]
  BY DEF InitUB, InitLB, Problem, BoundTable
<1>4. \A n \in Node : /\ ub[n] = IF n \in S \ bp.lookup THEN InitUB(p, n) ELSE bp.ub[n]
                      /\ lb[n] = IF n \in S \ bp.lookup THEN InitLB(p, n) ELSE bp.lb[n]
  OBVIOUS
<1> HIDE DEF t1, ub, lb
<1>5. t2 \in BoundTable /\ t2.lookup = bp.lookup \cup S /\ t2.ub = ub
  BY <1>2, <1>3 DEF BoundTable
<1> HIDE DEF t2
<1>6. t3.lookup = bp.lookup \cup S /\ t3.ub = ub /\ t3.lb = lb
  BY <1>3, <1>5 DEF BoundTable
<1> HIDE DEF t3
<1> QED
  BY <1>1, <1>4, <1>6 DEF UBOf, LBOf

\* ... and so does expanding one.
LEMMA GrownKeepsBounds ==
  ASSUME NEW p \in Problem, NEW bp \in BoundTable, NEW s \in Node
  PROVE  /\ UBOf(p, Grown(p, bp, s)) = UBOf(p, bp)
         /\ LBOf(p, Grown(p, bp, s)) = LBOf(p, bp)
<1>1. CASE s \in bp.expanded
  BY <1>1 DEF Grown
<1>2. CASE s \notin bp.expanded
  <2> DEFINE succ == UNION {Successors(p, s, a) : a \in Action}
             got  == GetNodes(p, bp, succ)
             t    == [got EXCEPT !.expanded = @ \cup {s}]
             new  == [t EXCEPT !.qub[s] = [a \in Action |-> QValUndefined]]
  <2>1. succ \in SUBSET Node
    BY SuccessorsType
  <2>2. Grown(p, bp, s) = new
    BY <1>2 DEF Grown, Expand
  <2> HIDE DEF succ
  <2>3. got \in BoundTable
    BY <2>1, GetNodesProperties
  <2>4. UBOf(p, got) = UBOf(p, bp) /\ LBOf(p, got) = LBOf(p, bp)
    BY <2>1, GetNodesKeepsBounds
  <2> HIDE DEF got
  <2>5. t \in BoundTable /\ t.lookup = got.lookup /\ t.ub = got.ub /\ t.lb = got.lb
    BY <2>3 DEF BoundTable
  <2> HIDE DEF t
  <2>6. new.lookup = got.lookup /\ new.ub = got.ub /\ new.lb = got.lb
    BY <2>5 DEF BoundTable
  <2> HIDE DEF new
  <2> QED
    BY <2>2, <2>4, <2>6 DEF UBOf, LBOf
<1> QED
  BY <1>1, <1>2

\* The best backup of s over the values v, and all of them.
Backups(p, v, s) == [a \in Action |-> Backup(p, v, s, a)]
Best(p, v, s)    == MaxValue(Backups(p, v, s))

\* With two point bounds an update sets the Q values to backups, lowers the
\* upper bound to the best of them and raises the lower bound likewise.
LEMMA UpdateOfBoth ==
  ASSUME DualPointBounds,
         NEW p \in Problem, NEW bp \in BoundTable, NEW s \in bp.lookup,
         Linked(p, bp)
  PROVE  LET T == Update(p, bp, s)
             u == UBOf(p, bp)
             l == LBOf(p, bp)
         IN  /\ T.qub[s] = Backups(p, u, s)
             /\ UBOf(p, T) = [u EXCEPT ![s] = IF Best(p, u, s) < u[s]
                                              THEN Best(p, u, s) ELSE u[s]]
             /\ LBOf(p, T) = [l EXCEPT ![s] = IF Best(p, l, s) > l[s]
                                              THEN Best(p, l, s) ELSE l[s]]
<1> DEFINE g  == Grown(p, bp, s)
           u  == UBOf(p, bp)
           l  == LBOf(p, bp)
           q  == NewQ(p, g, s)
           ub == IF MaxValue(q) < g.ub[s] THEN MaxValue(q) ELSE g.ub[s]
           lb == IF DualPointBounds THEN NewLB(p, g, s) ELSE g.lb[s]
           t1 == [g EXCEPT !.qub[s] = q]
           t2 == [t1 EXCEPT !.ub[s] = ub]
           t3 == [t2 EXCEPT !.lb[s] = lb]
           T  == Update(p, bp, s)
<1>1. s \in Node
  BY DEF BoundTable
<1>2. /\ g \in BoundTable /\ s \in g.lookup
      /\ g.expanded = bp.expanded \cup {s} /\ Linked(p, g)
  BY GrownProperties
<1>3. UBOf(p, g) = u /\ LBOf(p, g) = l
  BY <1>1, GrownKeepsBounds
<1>4. T = t3
  BY DEF Update, UpdateBounds, Grown
<1> HIDE DEF g, u, l
<1>5. /\ u \in [Node -> Int] /\ l \in [Node -> Int]
      /\ g.ub \in [Node -> Int] /\ g.lb \in [Node -> Int]
  BY <1>2, BoundsType DEF BoundTable, u, l
<1>6. \A n \in g.lookup : g.ub[n] = u[n] /\ g.lb[n] = l[n]
  BY <1>2, <1>3 DEF UBOf, LBOf, BoundTable
<1>7. ASSUME NEW a \in Action
      PROVE  /\ Backup(p, g.ub, s, a) = Backup(p, u, s, a)
             /\ Backup(p, g.lb, s, a) = Backup(p, l, s, a)
  <2>1. \A n \in Successors(p, s, a) : g.ub[n] = u[n] /\ g.lb[n] = l[n]
    BY <1>2, <1>6 DEF Linked
  <2> QED
    BY <1>1, <1>5, <2>1, BackupLocal
<1>8. q = Backups(p, u, s)
  BY <1>7 DEF NewQ, Backups
<1>9. [a \in Action |-> Backup(p, g.lb, s, a)] = Backups(p, l, s)
  BY <1>7 DEF Backups
<1>10. /\ ub = IF Best(p, u, s) < u[s] THEN Best(p, u, s) ELSE u[s]
       /\ lb = IF Best(p, l, s) > l[s] THEN Best(p, l, s) ELSE l[s]
  <2> HIDE DEF q
  <2> QED
    BY <1>2, <1>6, <1>8, <1>9 DEF Best, NewLB
<1>11. /\ Backups(p, u, s) \in [Action -> Int] /\ Backups(p, l, s) \in [Action -> Int]
  BY <1>1, <1>5, BackupType DEF Backups
<1>12. ub \in Int /\ lb \in Int
  <2>1. Best(p, u, s) \in Int /\ Best(p, l, s) \in Int /\ u[s] \in Int /\ l[s] \in Int
    BY <1>1, <1>5, <1>11, MaxValueType DEF Best
  <2> HIDE DEF ub, lb
  <2> QED
    BY <1>10, <2>1
<1> HIDE DEF q, ub, lb
<1>13. /\ t1 \in BoundTable
       /\ t1.lookup = g.lookup /\ t1.ub = g.ub /\ t1.lb = g.lb /\ t1.qub[s] = q
  BY <1>1, <1>2, <1>8, <1>11 DEF BoundTable
<1> HIDE DEF t1
<1>14. /\ t2 \in BoundTable
       /\ t2.lookup = g.lookup /\ t2.lb = g.lb /\ t2.qub[s] = q
       /\ t2.ub = [g.ub EXCEPT ![s] = ub]
  BY <1>1, <1>12, <1>13 DEF BoundTable
<1> HIDE DEF t2
<1>15. /\ t3.lookup = g.lookup /\ t3.qub[s] = q
       /\ t3.ub = [g.ub EXCEPT ![s] = ub]
       /\ t3.lb = [g.lb EXCEPT ![s] = lb]
  BY <1>1, <1>12, <1>14 DEF BoundTable
<1> HIDE DEF t3, T
<1>16. /\ UBOf(p, T) = [u EXCEPT ![s] = ub]
       /\ LBOf(p, T) = [l EXCEPT ![s] = lb]
  <2>1. \A n \in Node : UBOf(p, T)[n] = [u EXCEPT ![s] = ub][n]
    BY <1>1, <1>2, <1>3, <1>4, <1>5, <1>15 DEF UBOf
  <2>2. \A n \in Node : LBOf(p, T)[n] = [l EXCEPT ![s] = lb][n]
    BY <1>1, <1>2, <1>3, <1>4, <1>5, <1>15 DEF LBOf
  <2> DEFINE nu == UBOf(p, T)
             nl == LBOf(p, T)
             xu == [u EXCEPT ![s] = ub]
             xl == [l EXCEPT ![s] = lb]
  <2>3. nu = [n \in Node |-> nu[n]] /\ nl = [n \in Node |-> nl[n]]
    BY DEF UBOf, LBOf
  <2>4. xu = [n \in Node |-> xu[n]] /\ xl = [n \in Node |-> xl[n]]
    BY <1>5
  <2> HIDE DEF nu, nl, xu, xl
  <2>5. nu = xu /\ nl = xl
    BY <2>1, <2>2, <2>3, <2>4 DEF nu, nl, xu, xl
  <2> QED
    BY <2>5 DEF nu, nl, xu, xl
<1> QED
  BY <1>4, <1>8, <1>10, <1>15, <1>16 DEF u, l, T

\* The best backup is an integer, the largest of the backups, and monotone.
LEMMA BestProperties ==
  ASSUME NEW p \in Problem, NEW v \in [Node -> Int], NEW s \in Node
  PROVE  /\ Backups(p, v, s) \in [Action -> Int]
         /\ MaxAction(Backups(p, v, s)) \in Action
         /\ Best(p, v, s) \in Int
         /\ \A a \in Action : Backup(p, v, s, a) <= Best(p, v, s)
         /\ Best(p, v, s) = Backup(p, v, s, MaxAction(Backups(p, v, s)))
<1> DEFINE q == Backups(p, v, s)
<1>1. q \in [Action -> Int] /\ \A a \in Action : q[a] = Backup(p, v, s, a)
  BY BackupType DEF Backups
<1> HIDE DEF q
<1>2. /\ MaxAction(q) \in Action
      /\ \A a \in Action : q[a] <= q[MaxAction(q)]
  BY <1>1, MaxActionProperties
<1>3. Best(p, v, s) = q[MaxAction(q)]
  BY DEF Best, MaxValue, q
<1>4. Best(p, v, s) \in Int
  BY <1>1, <1>2, <1>3
<1> QED
  BY <1>1, <1>2, <1>3, <1>4 DEF q

LEMMA BestMonotone ==
  ASSUME NEW p \in Problem, Distributed(p),
         NEW u \in [Node -> Int], NEW v \in [Node -> Int], NEW s \in Node,
         \A n \in Node : u[n] <= v[n]
  PROVE  Best(p, u, s) <= Best(p, v, s)
<1> DEFINE a == MaxAction(Backups(p, u, s))
<1>1. a \in Action /\ Best(p, u, s) = Backup(p, u, s, a)
  BY BestProperties
<1> HIDE DEF a
<1>2. Backup(p, u, s, a) <= Backup(p, v, s, a)
  <2>1. \A n \in Successors(p, s, a) : u[n] <= v[n]
    BY <1>1, SuccessorsType
  <2> QED
    BY <1>1, <2>1, BackupMonotone
<1>3. Backup(p, v, s, a) <= Best(p, v, s)
  BY <1>1, BestProperties
<1>4. /\ Backup(p, u, s, a) \in Int /\ Backup(p, v, s, a) \in Int
      /\ Best(p, v, s) \in Int
  BY <1>1, BackupType, BestProperties
<1> QED
  BY <1>1, <1>2, <1>3, <1>4

-----------------------------------------------------------------------------
\* The upper bounds only ever come down: no backup would raise a bound, nor is
\* a cached Q value below its backup.
Descending(p, bp) ==
  LET u == UBOf(p, bp)
  IN  /\ \A n \in Node : ~p.terminal[n] =>
           \A a \in Action : Backup(p, u, n, a) <= u[n]
      /\ \A n \in bp.expanded, a \in Action : Backup(p, u, n, a) <= bp.qub[n][a]

\* A new Q value is not below its backup either, and the best one is equal to
\* it, in an expanded table.
LEMMA NewQAbove ==
  ASSUME NEW p \in Problem, NEW bp \in BoundTable, NEW s \in Node,
         \A a \in Action : \/ bp.qub[s][0] = QValUndefined
                           \/ Backup(p, bp.ub, s, a) <= bp.qub[s][a]
  PROVE  \A a \in Action : Backup(p, bp.ub, s, a) <= NewQ(p, bp, s)[a]
<1> DEFINE fresh == [a \in Action |-> Backup(p, bp.ub, s, a)]
<1>1. fresh \in [Action -> Int] /\ bp.qub[s] \in [Action -> Int]
  BY BackupType DEF BoundTable
<1>2. \A a \in Action : fresh[a] = Backup(p, bp.ub, s, a) /\ fresh[a] \in Int
  BY <1>1
<1>3. CASE NewQ(p, bp, s) = fresh
  <2> HIDE DEF fresh
  <2> QED
    BY <1>2, <1>3
<1>4. CASE /\ NewQ(p, bp, s) = UseCache(bp.qub[s], fresh)
           /\ bp.qub[s][0] # QValUndefined
  <2> HIDE DEF fresh
  <2>1. \A a \in Action : UseCache(bp.qub[s], fresh)[a] \in {fresh[a], bp.qub[s][a]}
    BY <1>1, UseCacheFreshBest
  <2> QED
    BY <1>2, <1>4, <2>1
<1> QED
  BY <1>3, <1>4 DEF NewQ

\* An update in terms of the bounds of all states.
LEMMA UpdateOfUB ==
  ASSUME NEW p \in Problem, NEW bp \in BoundTable, NEW s \in bp.lookup,
         Linked(p, bp)
  PROVE  LET T == Update(p, bp, s)
             u == UBOf(p, bp)
             q == NewQ(p, Grown(p, bp, s), s)
         IN  /\ T.qub[s] = q
             /\ UBOf(p, T) = [u EXCEPT ![s] = IF MaxValue(q) < u[s]
                                              THEN MaxValue(q) ELSE u[s]]
<1> DEFINE g  == Grown(p, bp, s)
           u  == UBOf(p, bp)
           q  == NewQ(p, g, s)
           ub == IF MaxValue(q) < g.ub[s] THEN MaxValue(q) ELSE g.ub[s]
           lb == IF DualPointBounds THEN NewLB(p, g, s) ELSE g.lb[s]
           t1 == [g EXCEPT !.qub[s] = q]
           t2 == [t1 EXCEPT !.ub[s] = ub]
           t3 == [t2 EXCEPT !.lb[s] = lb]
           T  == Update(p, bp, s)
<1>1. s \in Node
  BY DEF BoundTable
<1>2. g \in BoundTable /\ s \in g.lookup
  BY GrownProperties
<1>3. UBOf(p, g) = u /\ u \in [Node -> Int]
  BY <1>1, GrownKeepsBounds, BoundsType
<1>4. T = t3
  BY DEF Update, UpdateBounds, Grown
<1> HIDE DEF g, u
<1>5. q \in [Action -> Int]
  BY <1>1, <1>2, NewQProperties
<1> HIDE DEF q
<1>6. /\ g.ub \in [Node -> Int] /\ g.ub[s] = u[s]
      /\ MaxValue(q) \in Int
  BY <1>1, <1>2, <1>3, <1>5, MaxValueType DEF UBOf, BoundTable
<1>7. ub \in Int /\ ub = IF MaxValue(q) < u[s] THEN MaxValue(q) ELSE u[s]
  BY <1>1, <1>6
<1> HIDE DEF ub, lb
<1>8. /\ t1 \in BoundTable
      /\ t1.lookup = g.lookup /\ t1.ub = g.ub /\ t1.qub[s] = q
  BY <1>1, <1>2, <1>5 DEF BoundTable
<1> HIDE DEF t1
<1>9. /\ t2 \in BoundTable
      /\ t2.lookup = g.lookup /\ t2.qub[s] = q
      /\ t2.ub = [g.ub EXCEPT ![s] = ub]
  BY <1>1, <1>7, <1>8 DEF BoundTable
<1> HIDE DEF t2
<1>10. /\ t3.lookup = g.lookup /\ t3.qub[s] = q
       /\ t3.ub = [g.ub EXCEPT ![s] = ub]
  BY <1>9 DEF BoundTable
<1> HIDE DEF t3, T
<1>11. \A n \in Node : UBOf(p, T)[n] = [u EXCEPT ![s] = ub][n]
  BY <1>1, <1>2, <1>3, <1>4, <1>6, <1>10 DEF UBOf
<1>12. UBOf(p, T) = [u EXCEPT ![s] = ub]
  <2> DEFINE new == UBOf(p, T)
             x   == [u EXCEPT ![s] = ub]
  <2>1. new = [n \in Node |-> new[n]] /\ x = [n \in Node |-> x[n]]
    BY <1>3 DEF UBOf
  <2> HIDE DEF new, x
  <2>2. new = x
    BY <1>11, <2>1 DEF new, x
  <2> QED
    BY <2>2 DEF new, x
<1> QED
  BY <1>4, <1>7, <1>10, <1>12 DEF u, q, g, T

\* Then one that keeps the bound of s, or sets it to another value.
LEMMA BoundSetTo ==
  ASSUME NEW p \in Problem, NEW T \in BoundTable, NEW s \in T.lookup, NEW x \in Int
  PROVE  UBOf(p, [T EXCEPT !.ub[s] = x]) = [UBOf(p, T) EXCEPT ![s] = x]
<1> DEFINE T2  == [T EXCEPT !.ub[s] = x]
           new == UBOf(p, T2)
           old == UBOf(p, T)
           f   == [old EXCEPT ![s] = x]
<1>1. s \in Node
  BY DEF BoundTable
<1>2. T2.lookup = T.lookup /\ T2.ub = [T.ub EXCEPT ![s] = x] /\ T.ub \in [Node -> Int]
  BY DEF BoundTable
<1> HIDE DEF T2
<1>3. \A n \in Node : new[n] = IF n = s THEN x ELSE old[n]
  BY <1>1, <1>2 DEF UBOf
<1>4. old \in [Node -> Int]
  BY BoundsType
<1>5. new = [n \in Node |-> new[n]]
  BY DEF UBOf
<1> HIDE DEF new, old
<1>6. \A n \in Node : f[n] = IF n = s THEN x ELSE old[n]
  BY <1>4
<1>7. f = [n \in Node |-> f[n]]
  BY <1>4
<1> HIDE DEF f
<1>8. new = f
  BY <1>3, <1>5, <1>6, <1>7
<1> QED
  BY <1>8 DEF new, old, f, T2

\* Lowering one bound, to no less than its backups, keeps the bounds coming
\* down.
LEMMA LoweringKeepsDescending ==
  ASSUME NEW p \in Problem, Distributed(p),
         NEW bp \in BoundTable, NEW T \in BoundTable, NEW s \in Node, NEW x \in Int,
         Linked(p, bp), Descending(p, bp),
         UBOf(p, T) = [UBOf(p, bp) EXCEPT ![s] = x],
         x <= UBOf(p, bp)[s],
         ~p.terminal[s] => \A a \in Action : Backup(p, UBOf(p, bp), s, a) <= x,
         T.expanded \subseteq bp.expanded \cup {s},
         \A n \in Node \ {s} : T.qub[n] = bp.qub[n],
         \A a \in Action : Backup(p, UBOf(p, bp), s, a) <= T.qub[s][a]
  PROVE  Descending(p, T)
<1> DEFINE u == UBOf(p, bp)
           v == UBOf(p, T)
<1>1. u \in [Node -> Int] /\ v \in [Node -> Int]
  BY BoundsType
<1> HIDE DEF u, v
<1>2. /\ \A n \in Node : v[n] <= u[n]
      /\ \A n \in Node \ {s} : v[n] = u[n]
      /\ v[s] = x
  BY <1>1 DEF u, v
<1>3. ASSUME NEW n \in Node, NEW a \in Action
      PROVE  /\ Backup(p, v, n, a) <= Backup(p, u, n, a)
             /\ Backup(p, v, n, a) \in Int /\ Backup(p, u, n, a) \in Int
  <2>1. \A m \in Successors(p, n, a) : v[m] <= u[m]
    BY <1>2, SuccessorsType
  <2> QED
    BY <1>1, <2>1, BackupMonotone, BackupType
<1>4. ASSUME NEW n \in Node, ~p.terminal[n], NEW a \in Action
      PROVE  Backup(p, v, n, a) <= v[n]
  <2>1. Backup(p, u, n, a) <= v[n]
    <3>1. CASE n = s
      BY <1>2, <1>4, <3>1 DEF u
    <3>2. CASE n # s
      BY <1>2, <1>4, <3>2 DEF Descending, u
    <3> QED
      BY <3>1, <3>2
  <2>2. v[n] \in Int
    BY <1>1
  <2> QED
    BY <1>3, <2>1, <2>2
<1>5. ASSUME NEW n \in T.expanded, NEW a \in Action
      PROVE  Backup(p, v, n, a) <= T.qub[n][a]
  <2>1. n \in Node
    BY DEF BoundTable
  <2>2. Backup(p, u, n, a) <= T.qub[n][a]
    <3>1. CASE n = s
      BY <3>1 DEF u
    <3>2. CASE n # s
      BY <2>1, <3>2 DEF Descending, u
    <3> QED
      BY <3>1, <3>2
  <2>3. T.qub[n][a] \in Int
    BY <2>1 DEF BoundTable
  <2> QED
    BY <1>3, <2>1, <2>2, <2>3
<1> QED
  BY <1>4, <1>5 DEF Descending, v

\* The Q values that an update of a node that is not terminal leaves: none is
\* below its backup, and the best is its backup, hence not above the bound.
LEMMA UpdatedQ ==
  ASSUME NEW p \in Problem, NEW bp \in BoundTable, NEW s \in bp.lookup,
         Linked(p, bp), Descending(p, bp)
  PROVE  LET q == Update(p, bp, s).qub[s]
             u == UBOf(p, bp)
         IN  /\ q \in [Action -> Int]
             /\ MaxValue(q) \in Int
             /\ \A a \in Action : /\ Backup(p, u, s, a) <= q[a]
                                  /\ Backup(p, u, s, a) <= MaxValue(q)
             /\ ~p.terminal[s] => MaxValue(q) <= u[s]
<1> DEFINE g == Grown(p, bp, s)
           u == UBOf(p, bp)
           q == NewQ(p, g, s)
<1>1. s \in Node
  BY DEF BoundTable
<1>2. /\ g \in BoundTable /\ s \in g.lookup
      /\ g.expanded = bp.expanded \cup {s} /\ Linked(p, g)
  BY GrownProperties
<1>3. UBOf(p, g) = u /\ u \in [Node -> Int]
  BY <1>1, GrownKeepsBounds, BoundsType
<1>4. s \notin bp.expanded => g.qub[s][0] = QValUndefined
  <2>1. 0 \in Action
    BY NumActionsAssumption DEF Action
  <2> DEFINE new == GetNodes(p, bp, UNION {Successors(p, s, a) : a \in Action})
             t   == [new EXCEPT !.expanded = @ \cup {s}]
             w   == [a \in Action |-> QValUndefined]
  <2>2. new \in BoundTable
    <3>1. UNION {Successors(p, s, a) : a \in Action} \in SUBSET Node
      BY <1>1, SuccessorsType
    <3> QED
      BY <3>1, GetNodesProperties
  <2>3. s \notin bp.expanded => g = [t EXCEPT !.qub[s] = w]
    BY DEF Grown, Expand
  <2> HIDE DEF new, g
  <2>4. t.qub = new.qub /\ t \in BoundTable
    BY <1>1, <2>2 DEF BoundTable
  <2>5. w[0] = QValUndefined
    BY <2>1
  <2> HIDE DEF t, w
  <2>6. [t EXCEPT !.qub[s] = w].qub[s] = w
    BY <1>1, <2>4 DEF BoundTable
  <2> QED
    BY <2>3, <2>5, <2>6
<1>5. s \in bp.expanded => g.qub[s] = bp.qub[s]
  BY DEF Grown
<1> HIDE DEF g, u
<1>6. ASSUME NEW a \in Action
      PROVE  Backup(p, g.ub, s, a) = Backup(p, u, s, a)
  <2>1. \A n \in g.lookup : g.ub[n] = u[n]
    BY <1>2, <1>3 DEF UBOf, BoundTable
  <2>2. \A n \in Successors(p, s, a) : g.ub[n] = u[n]
    BY <1>2, <2>1 DEF Linked
  <2>3. g.ub \in [Node -> Int]
    BY <1>2 DEF BoundTable
  <2> QED
    BY <1>1, <1>3, <2>2, <2>3, BackupLocal
<1>7. \A a \in Action : \/ g.qub[s][0] = QValUndefined
                        \/ Backup(p, g.ub, s, a) <= g.qub[s][a]
  <2>1. CASE s \in bp.expanded
    BY <1>5, <1>6, <2>1 DEF Descending, u
  <2> QED
    BY <1>4, <2>1
<1>8. \A a \in Action : Backup(p, g.ub, s, a) <= q[a]
  BY <1>1, <1>2, <1>7, NewQAbove
<1>9. q \in [Action -> Int] /\ q[MaxAction(q)] = Backup(p, g.ub, s, MaxAction(q))
  BY <1>1, <1>2, NewQProperties
<1> HIDE DEF q
<1>10. /\ MaxAction(q) \in Action /\ MaxValue(q) \in Int
       /\ \A a \in Action : q[a] <= MaxValue(q)
  BY <1>9, MaxActionProperties, MaxValueType DEF MaxValue
<1>11. MaxValue(q) = Backup(p, u, s, MaxAction(q))
  BY <1>6, <1>9, <1>10 DEF MaxValue
<1>12. ~p.terminal[s] => MaxValue(q) <= u[s]
  BY <1>1, <1>10, <1>11 DEF Descending, u
<1>13. ASSUME NEW a \in Action
       PROVE  Backup(p, u, s, a) <= q[a] /\ Backup(p, u, s, a) <= MaxValue(q)
  <2>1. Backup(p, u, s, a) <= q[a] /\ q[a] <= MaxValue(q)
    BY <1>6, <1>8, <1>10
  <2>2. Backup(p, u, s, a) \in Int /\ q[a] \in Int
    BY <1>1, <1>3, <1>9, BackupType
  <2> QED
    BY <1>10, <2>1, <2>2
<1>14. Update(p, bp, s).qub[s] = q
  BY UpdateOfUB DEF q, g
<1> QED
  BY <1>9, <1>10, <1>12, <1>13, <1>14 DEF u

\* Bounds keep coming down through an update, one that keeps the new bound as
\* well as one that does not, or that sets the bound to the best Q value.
LEMMA UpdateKeepsDescending ==
  ASSUME NEW p \in Problem, Distributed(p), NEW bp \in BoundTable,
         NEW s \in bp.lookup, ~p.terminal[s], Linked(p, bp), Descending(p, bp)
  PROVE  Descending(p, Update(p, bp, s))
<1> DEFINE T == Update(p, bp, s)
           u == UBOf(p, bp)
           q == T.qub[s]
           x == IF MaxValue(q) < u[s] THEN MaxValue(q) ELSE u[s]
<1>1. s \in Node
  BY DEF BoundTable
<1>2. /\ T \in BoundTable
      /\ T.expanded = bp.expanded \cup {s}
      /\ \A n \in Node \ {s} : T.qub[n] = bp.qub[n]
  BY TableAfterUpdate
<1>3. UBOf(p, T) = [u EXCEPT ![s] = x]
  BY UpdateOfUB
<1>4. /\ MaxValue(q) \in Int /\ MaxValue(q) <= u[s]
      /\ \A a \in Action : /\ Backup(p, u, s, a) <= q[a]
                           /\ Backup(p, u, s, a) <= MaxValue(q)
  BY UpdatedQ
<1>5. u \in [Node -> Int]
  BY BoundsType
<1> HIDE DEF q, T, u
<1>6. x \in Int /\ x <= u[s] /\ x = MaxValue(q)
  BY <1>1, <1>4, <1>5
<1> HIDE DEF x
<1>7. Descending(p, T)
  BY <1>1, <1>2, <1>3, <1>4, <1>6, LoweringKeepsDescending DEF u, q
<1> QED
  BY <1>7 DEF T

LEMMA CachedKeepsDescending ==
  ASSUME NEW p \in Problem, Distributed(p), NEW bp \in BoundTable,
         NEW s \in bp.lookup, ~p.terminal[s], Linked(p, bp), Descending(p, bp)
  PROVE  LET T == Cached(p, bp, s)
         IN  /\ Descending(p, T)
             /\ Descending(p, [T EXCEPT !.ub[s] = MaxValue(T.qub[s])])
<1> DEFINE U == Update(p, bp, s)
           T == Cached(p, bp, s)
           u == UBOf(p, bp)
           q == U.qub[s]
           x == IF MaxValue(q) < u[s] THEN MaxValue(q) ELSE u[s]
           V == [T EXCEPT !.ub[s] = MaxValue(T.qub[s])]
<1>1. s \in Node
  BY DEF BoundTable
<1>2. /\ T \in BoundTable
      /\ bp.lookup \subseteq T.lookup
      /\ T.expanded = bp.expanded \cup {s}
      /\ \A n \in Node \ {s} : T.qub[n] = bp.qub[n]
  BY CachedProperties
<1>3. U \in BoundTable /\ s \in U.lookup
  BY TableAfterUpdate
<1>4. UBOf(p, U) = [u EXCEPT ![s] = x]
  BY UpdateOfUB
<1>5. /\ MaxValue(q) \in Int /\ MaxValue(q) <= u[s]
      /\ \A a \in Action : /\ Backup(p, u, s, a) <= q[a]
                           /\ Backup(p, u, s, a) <= MaxValue(q)
  BY UpdatedQ
<1>6. u \in [Node -> Int] /\ bp.ub[s] = u[s]
  BY <1>1, BoundsType DEF UBOf
<1>7. T = [U EXCEPT !.ub[s] = bp.ub[s]]
  BY DEF Cached
<1> HIDE DEF U, T, u, x
<1>8. T.qub[s] = q
  BY <1>1, <1>3, <1>7 DEF BoundTable
<1> HIDE DEF q
<1>9. UBOf(p, T) = [u EXCEPT ![s] = u[s]]
  <2>1. UBOf(p, T) = [UBOf(p, U) EXCEPT ![s] = u[s]]
    BY <1>1, <1>3, <1>6, <1>7, BoundSetTo
  <2> QED
    BY <1>1, <1>4, <1>6, <2>1
<1>10. u[s] \in Int /\ \A a \in Action : Backup(p, u, s, a) <= u[s]
  BY <1>1, <1>6 DEF Descending, u
<1>11. Descending(p, T)
  BY <1>1, <1>2, <1>5, <1>8, <1>9, <1>10, LoweringKeepsDescending DEF u
<1>12. /\ V \in BoundTable /\ V.expanded = T.expanded /\ V.qub = T.qub
  BY <1>1, <1>2, <1>5, <1>8 DEF BoundTable
<1>13. UBOf(p, V) = [u EXCEPT ![s] = MaxValue(q)]
  <2>1. UBOf(p, V) = [UBOf(p, T) EXCEPT ![s] = MaxValue(q)]
    BY <1>2, <1>5, <1>8, BoundSetTo
  <2> QED
    BY <1>1, <1>6, <1>9, <2>1
<1> HIDE DEF V
<1>14. Descending(p, V)
  BY <1>1, <1>2, <1>5, <1>8, <1>12, <1>13, LoweringKeepsDescending DEF u
<1> QED
  BY <1>11, <1>14 DEF V, T

LEMMA GetNodesKeepsDescending ==
  ASSUME NEW p \in Problem, NEW bp \in BoundTable, NEW S \in SUBSET Node,
         Descending(p, bp)
  PROVE  Descending(p, GetNodes(p, bp, S))
<1> DEFINE T == GetNodes(p, bp, S)
<1>1. T.expanded = bp.expanded /\ T.qub = bp.qub
  BY GetNodesProperties
<1>2. UBOf(p, T) = UBOf(p, bp)
  BY GetNodesKeepsBounds
<1> HIDE DEF T
<1>3. Descending(p, T)
  BY <1>1, <1>2 DEF Descending
<1> QED
  BY <1>3 DEF T

\* At the start they come down when the heuristic is an upper bound that one
\* backup confirms.
LEMMA EmptyTableDescends ==
  ASSUME NEW p \in Problem, UniformlyImprovable(p)
  PROVE  Descending(p, EmptyTable)
<1> DEFINE u == UBOf(p, EmptyTable)
           h == [n \in Node |-> IF p.terminal[n] THEN 0 ELSE p.upper[n]]
<1>1. u = h
  BY DEF UBOf, EmptyTable, InitUB
<1>2. h \in [Node -> Int]
  BY DEF Problem
<1>3. \A n \in Node : ~p.terminal[n] => Best(p, h, n) <= h[n]
  BY DEF UniformlyImprovable, Best, Backups
<1> HIDE DEF u, h
<1>4. ASSUME NEW n \in Node, ~p.terminal[n], NEW a \in Action
      PROVE  Backup(p, h, n, a) <= h[n]
  <2>1. Backup(p, h, n, a) <= Best(p, h, n) /\ Best(p, h, n) <= h[n]
    BY <1>2, <1>3, <1>4, BestProperties
  <2>2. Backup(p, h, n, a) \in Int /\ Best(p, h, n) \in Int /\ h[n] \in Int
    BY <1>2, BackupType, BestProperties
  <2> QED
    BY <2>1, <2>2
<1>5. EmptyTable.expanded = {}
  BY DEF EmptyTable
<1> QED
  BY <1>1, <1>4, <1>5 DEF Descending, u

\* Where the best cached Q value is fresh, looking one step ahead finds the
\* same action: the others are no better than they seem.
LEMMA LookaheadIsGreedy ==
  ASSUME NEW p \in Problem, NEW bp \in BoundTable, Linked(p, bp),
         Descending(p, bp), NEW s \in bp.expanded,
         bp.qub[s][MaxUBAction(bp, s)] = Backup(p, bp.ub, s, MaxUBAction(bp, s))
  PROVE  ChooseActionUB(p, bp, s) = MaxUBAction(bp, s)
<1> DEFINE w == ValueOf(p, bp, bp.ub, p.upper)
           u == UBOf(p, bp)
           f == [b \in Action |-> Backup(p, w, s, b)]
           q == bp.qub[s]
           a == MaxAction(q)
<1>1. s \in Node /\ q \in [Action -> Int] /\ bp.ub \in [Node -> Int]
  BY DEF BoundTable
<1>2. w \in [Node -> Int] /\ u \in [Node -> Int]
  BY <1>1, BoundsType DEF ValueOf, Problem
<1>3. \A n \in bp.lookup : n \in Node /\ w[n] = bp.ub[n] /\ u[n] = bp.ub[n]
  BY DEF ValueOf, UBOf, BoundTable
<1> HIDE DEF w, u, q
<1>4. ASSUME NEW b \in Action
      PROVE  /\ Backup(p, w, s, b) = Backup(p, bp.ub, s, b)
             /\ Backup(p, w, s, b) = Backup(p, u, s, b)
  <2>1. \A n \in Successors(p, s, b) : w[n] = bp.ub[n] /\ w[n] = u[n]
    BY <1>3 DEF Linked
  <2> QED
    BY <1>1, <1>2, <2>1, BackupLocal
<1>5. f \in [Action -> Int]
  BY <1>1, <1>2, BackupType
<1>6. \A b \in Action : f[b] = Backup(p, w, s, b)
  OBVIOUS
<1> HIDE DEF f
<1>7. \A b \in Action : f[b] <= q[b]
  BY <1>4, <1>6 DEF Descending, u, q
<1>8. /\ a \in Action
      /\ \A b \in Action : q[b] <= q[a] /\ (b < a => q[b] < q[a])
  BY <1>1, MaxActionProperties
<1>9. f[a] = q[a]
  BY <1>4, <1>6, <1>8 DEF MaxUBAction, q
<1> HIDE DEF a
<1>10. \A b \in Action : f[b] <= f[a] /\ (b < a => f[b] < f[a])
  <2>1. \A b \in Action : f[b] \in Int /\ q[b] \in Int
    BY <1>1, <1>5
  <2> QED
    BY <1>7, <1>8, <1>9, <2>1
<1>11. MaxAction(f) = a
  BY <1>5, <1>8, <1>10, MaxActionUnique
<1> QED
  BY <1>11 DEF ChooseActionUB, MaxUBAction, f, a, q, w
=============================================================================
