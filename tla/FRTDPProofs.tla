----------------------------- MODULE FRTDPProofs -----------------------------
(***************************************************************************)
(* Proofs about FRTDP: its priorities never hide an imprecise node, and    *)
(* the policy that looks ahead over its lower bound keeps that bound.      *)
(***************************************************************************)
EXTENDS FRTDP, BoundPairProofs

\* PrioBounds of any table and priorities.
Prioritised(table, pr) ==
  \A n \in table.lookup : /\ pr[n] = 0 => ExcessWidth(table, n) <= 0
                          /\ pr[n] <= OwnPrio(table, n)

\* The lower bounds l would be lowered by no backup.
Improvable(p, l) == \A n \in Node : ~p.terminal[n] => l[n] <= Best(p, l, n)

\* The inductive invariant: the nodes of the active calls exist, the one that
\* was just called was worth calling, and lower bounds stay improvable.
IInv ==
  /\ TypeOK
  /\ problem \in Problems
  /\ Linked(problem, bp)
  /\ ToSet(stack) \subseteq bp.lookup
  /\ pc = "trialRecurse" => stack # <<>>
  /\ pc = "trialRecurse" /\ Len(stack) > 1 => ExcessWidth(bp, Last(stack)) > 0
  /\ Prioritised(bp, prio)
  /\ problem \in UniformProblems => Improvable(problem, LBOf(problem, bp))

LEMMA ProblemFacts ==
  ASSUME NEW p \in Problems
  PROVE  p \in Problem /\ Distributed(p)
BY ProblemsAssumption, DistributionAssumption DEF Distributed

-----------------------------------------------------------------------------
\* A quotient rounded up is positive just when its dividend is.
LEMMA CeilingPositive ==
  ASSUME NEW x \in Nat, NEW d \in Nat \ {0}
  PROVE  LET c == - ((- x) \div d)
         IN  c \in Nat /\ (c > 0 <=> x > 0)
<1> DEFINE q == (- x) \div d
<1>1. q \in Int /\ d * q <= - x /\ - x < d * q + d
  OBVIOUS
<1> HIDE DEF q
<1>2. q <= 0
  <2>1. SUFFICES ASSUME q >= 1 PROVE FALSE
    BY <1>1
  <2>2. d * 1 <= d * q
    BY <1>1, <2>1, TimesMonotone
  <2> QED
    BY <1>1, <2>2
<1>3. ASSUME q = 0 PROVE x = 0
  BY <1>1, <1>3
<1>4. ASSUME x = 0 PROVE q = 0
  <2>1. SUFFICES ASSUME q <= -1 PROVE FALSE
    BY <1>1, <1>2
  <2>2. d * q <= d * (-1)
    BY <1>1, <2>1, TimesMonotone
  <2>3. d * q + d <= 0
    BY <1>1, <2>2
  <2> QED
    BY <1>1, <1>4, <2>3
<1>5. -q \in Nat /\ (-q > 0 <=> x > 0)
  BY <1>1, <1>2, <1>3, <1>4
<1> QED
  BY <1>5 DEF q

LEMMA ProductPositive ==
  ASSUME NEW x \in Nat, NEW y \in Nat
  PROVE  x * y \in Nat /\ (x * y > 0 <=> x > 0 /\ y > 0)
OBVIOUS

\* An outcome has a priority when its successor has one and it can happen.
LEMMA OutcomePrioPositive ==
  ASSUME problem \in Problem, NEW pr \in [Node -> Nat],
         NEW s \in Node, NEW a \in Action, NEW o \in Outcome
  PROVE  /\ problem.next[s][a][o] \in Node
         /\ OutcomePrio(pr, s, a, o) \in Nat
         /\ OutcomePrio(pr, s, a, o) > 0 <=>
              /\ problem.discount > 0
              /\ problem.prob[s][a][o] > 0
              /\ pr[problem.next[s][a][o]] > 0
<1> DEFINE c == problem.discount
           p == problem.prob[s][a][o]
           n == problem.next[s][a][o]
           x == c * p * pr[n]
           d == DiscountDen * ProbDen
<1>1. c \in Nat /\ p \in Nat /\ n \in Node /\ pr[n] \in Nat
  BY DenominatorAssumption DEF Problem
<1>2. d \in Nat \ {0}
  BY DenominatorAssumption
<1>3. OutcomePrio(pr, s, a, o) = - ((- x) \div d)
  BY <1>1, <1>2 DEF OutcomePrio
<1> HIDE DEF c, p, n, d
<1>4. c * p \in Nat /\ (c * p > 0 <=> c > 0 /\ p > 0)
  BY <1>1, ProductPositive
<1>5. x \in Nat /\ (x > 0 <=> c * p > 0 /\ pr[n] > 0)
  BY <1>1, <1>4, ProductPositive
<1> HIDE DEF x
<1>6. - ((- x) \div d) \in Nat /\ (- ((- x) \div d) > 0 <=> x > 0)
  BY <1>2, <1>5, CeilingPositive
<1> QED
  BY <1>1, <1>3, <1>4, <1>5, <1>6 DEF c, p, n

\* The outcome a trial follows, when there is one, has a priority; when there
\* is none, no outcome has.
LEMMA MaxPrioOutcomeProperties ==
  ASSUME problem \in Problem, NEW pr \in [Node -> Nat],
         NEW s \in Node, NEW a \in Action
  PROVE  LET o == MaxPrioOutcome(pr, s, a)
         IN  \/ o = -1 /\ \A x \in Edges(problem, s, a) : OutcomePrio(pr, s, a, x) = 0
             \/ o # -1 /\ o \in Edges(problem, s, a) /\ OutcomePrio(pr, s, a, o) > 0
<1> DEFINE value(x) == OutcomePrio(pr, s, a, x)
           able == {x \in Edges(problem, s, a) : value(x) > 0}
           First(x) == \A y \in able : /\ value(y) <= value(x)
                                       /\ y < x => value(y) < value(x)
           o == MaxPrioOutcome(pr, s, a)
<1>1. \A x \in Outcome : value(x) \in Nat
  BY OutcomePrioPositive
<1>2. able \subseteq {0, 1} /\ Edges(problem, s, a) \subseteq Outcome
  BY DEF Edges, Outcome
<1>3. o = IF able = {} THEN -1 ELSE CHOOSE x \in able : First(x)
  BY DEF MaxPrioOutcome
<1> HIDE DEF o, value
<1>4. CASE able = {}
  <2>1. \A x \in Edges(problem, s, a) : value(x) = 0
    BY <1>1, <1>2, <1>4
  <2> QED
    BY <1>3, <1>4, <2>1 DEF value, o
<1>5. CASE able # {}
  <2>1. \E x \in able : First(x)
    <3>1. 0 \in Outcome /\ 1 \in Outcome
      BY DEF Outcome
    <3>2. value(0) \in Nat /\ value(1) \in Nat
      BY <1>1, <3>1
    <3>3. CASE able = {0}
      BY <3>2, <3>3
    <3>4. CASE able = {1}
      BY <3>2, <3>4
    <3>5. CASE able = {0, 1}
      <4>1. CASE value(1) <= value(0)
        <5>1. First(0)
          BY <3>2, <3>5, <4>1
        <5> QED
          BY <3>5, <5>1
      <4>2. CASE value(0) < value(1)
        <5>1. First(1)
          BY <3>2, <3>5, <4>2
        <5> QED
          BY <3>5, <5>1
      <4> QED
        BY <3>2, <4>1, <4>2
    <3> QED
      BY <1>2, <1>5, <3>3, <3>4, <3>5
  <2>2. o \in able
    BY <1>3, <1>5, <2>1
  <2>3. o # -1
    BY <1>2, <2>2
  <2> QED
    BY <2>2, <2>3 DEF value, o
<1> QED
  BY <1>4, <1>5

-----------------------------------------------------------------------------
\* What an update of node s starts from.
Ready(s) ==
  /\ problem \in Problems
  /\ bp \in BoundTable
  /\ prio \in [Node -> Nat]
  /\ Linked(problem, bp)
  /\ Prioritised(bp, prio)
  /\ s \in bp.lookup

LEMMA OwnPrioProperties ==
  ASSUME NEW table \in BoundTable, NEW n \in Node
  PROVE  /\ Width(table, n) \in Int
         /\ ExcessWidth(table, n) \in Int
         /\ OwnPrio(table, n) \in Nat
         /\ OwnPrio(table, n) > 0 <=> ExcessWidth(table, n) > 0
<1> DEFINE e == ExcessWidth(table, n)
<1>1. Width(table, n) \in Int /\ e \in Int
  BY FRTDPAssumption DEF Width, ExcessWidth, BoundTable
<1>2. OwnPrio(table, n) = IF e <= 0 THEN 0 ELSE PrioScale * e
  BY DEF OwnPrio
<1> HIDE DEF e
<1>3. CASE e <= 0
  BY <1>1, <1>2, <1>3 DEF e
<1>4. CASE e > 0
  <2>1. PrioScale * e \in Nat /\ PrioScale * e > 0
    BY <1>1, <1>4, FRTDPAssumption, ProductPositive
  <2> QED
    BY <1>1, <1>2, <1>4, <2>1 DEF e
<1> QED
  BY <1>1, <1>3, <1>4

LEMMA WithNewNodesProperties ==
  ASSUME bp \in BoundTable, prio \in [Node -> Nat], NEW new \in BoundTable
  PROVE  /\ WithNewNodes(new) \in [Node -> Nat]
         /\ \A n \in new.lookup \ bp.lookup : WithNewNodes(new)[n] = OwnPrio(new, n)
         /\ \A n \in bp.lookup : WithNewNodes(new)[n] = prio[n]
<1>1. new.lookup \subseteq Node /\ bp.lookup \subseteq Node
  BY DEF BoundTable
<1>2. \A n \in Node : OwnPrio(new, n) \in Nat
  BY OwnPrioProperties
<1> QED
  BY <1>1, <1>2 DEF WithNewNodes

\* The bounds after an update of s, against those of all states before it.
LEMMA BoundsAfterUpdate ==
  ASSUME NEW s, Ready(s)
  PROVE  LET T == Update(problem, bp, s)
             u == UBOf(problem, bp)
             l == LBOf(problem, bp)
         IN  /\ s \in Node
             /\ T \in BoundTable
             /\ bp.lookup \subseteq T.lookup
             /\ T.expanded = bp.expanded \cup {s}
             /\ Linked(problem, T)
             /\ u \in [Node -> Int] /\ l \in [Node -> Int]
             /\ \A n \in bp.lookup : u[n] = bp.ub[n] /\ l[n] = bp.lb[n]
             /\ \A n \in T.lookup \ {s} : T.ub[n] = u[n] /\ T.lb[n] = l[n]
             /\ T.ub[s] <= Best(problem, u, s) /\ T.lb[s] >= Best(problem, l, s)
             /\ MaxUBAction(T, s) = MaxAction(Backups(problem, u, s))
             /\ LBOf(problem, T) = [l EXCEPT ![s] = IF Best(problem, l, s) > l[s]
                                                    THEN Best(problem, l, s) ELSE l[s]]
<1> DEFINE T == Update(problem, bp, s)
           u == UBOf(problem, bp)
           l == LBOf(problem, bp)
           bu == Best(problem, u, s)
           bl == Best(problem, l, s)
<1>1. /\ problem \in Problem /\ bp \in BoundTable /\ Linked(problem, bp)
      /\ s \in bp.lookup /\ s \in Node /\ DualPointBounds
  BY ProblemFacts, FRTDPAssumption DEF Ready, BoundTable
<1>2. /\ T \in BoundTable
      /\ bp.lookup \subseteq T.lookup
      /\ T.expanded = bp.expanded \cup {s}
      /\ Linked(problem, T)
  BY <1>1, TableAfterUpdate
<1>3. /\ T.qub[s] = Backups(problem, u, s)
      /\ UBOf(problem, T) = [u EXCEPT ![s] = IF bu < u[s] THEN bu ELSE u[s]]
      /\ LBOf(problem, T) = [l EXCEPT ![s] = IF bl > l[s] THEN bl ELSE l[s]]
  BY <1>1, UpdateOfBoth
<1>4. u \in [Node -> Int] /\ l \in [Node -> Int]
  BY <1>1, BoundsType
<1>5. bu \in Int /\ bl \in Int
  <2>1. Backups(problem, u, s) \in [Action -> Int] /\ Backups(problem, l, s) \in [Action -> Int]
    BY <1>1, <1>4, BackupType DEF Backups
  <2> QED
    BY <2>1, MaxValueType DEF Best
<1>6. \A n \in bp.lookup : u[n] = bp.ub[n] /\ l[n] = bp.lb[n]
  BY <1>1 DEF UBOf, LBOf, BoundTable
<1>7. \A n \in T.lookup : T.ub[n] = UBOf(problem, T)[n] /\ T.lb[n] = LBOf(problem, T)[n]
  BY <1>2 DEF UBOf, LBOf, BoundTable
<1>8. T.lookup \subseteq Node
  BY <1>2 DEF BoundTable
<1>9. MaxUBAction(T, s) = MaxAction(Backups(problem, u, s))
  BY <1>3 DEF MaxUBAction
<1> HIDE DEF T, u, l, bu, bl
<1>10. \A n \in T.lookup \ {s} : T.ub[n] = u[n] /\ T.lb[n] = l[n]
  BY <1>3, <1>4, <1>7, <1>8
<1>11. T.ub[s] <= bu /\ T.lb[s] >= bl
  <2>1. T.ub[s] = IF bu < u[s] THEN bu ELSE u[s]
    BY <1>1, <1>2, <1>3, <1>4, <1>7
  <2>2. T.lb[s] = IF bl > l[s] THEN bl ELSE l[s]
    BY <1>1, <1>2, <1>3, <1>4, <1>7
  <2> QED
    BY <1>1, <1>4, <1>5, <2>1, <2>2
<1> QED
  BY <1>1, <1>2, <1>3, <1>4, <1>6, <1>9, <1>10, <1>11 DEF T, u, l, bu, bl

\* The bounds of a node whose actions have no outcome worth following are
\* close: those of its successors are, whoever updated them.
LEMMA NoOutcomeMeansClose ==
  ASSUME NEW s, Ready(s),
         LET T == Update(problem, bp, s)
         IN  MaxPrioOutcome(WithNewNodes(T), s, MaxUBAction(T, s)) = -1
  PROVE  ExcessWidth(Update(problem, bp, s), s) <= 0
<1> DEFINE T  == Update(problem, bp, s)
           u  == UBOf(problem, bp)
           l  == LBOf(problem, bp)
           pr == WithNewNodes(T)
           a  == MaxUBAction(T, s)
           k  == TargetPrecision \div 2
           qu == Backups(problem, u, s)
           ql == Backups(problem, l, s)
<1>1. /\ problem \in Problem /\ Distributed(problem) /\ bp \in BoundTable
      /\ prio \in [Node -> Nat] /\ s \in bp.lookup /\ Prioritised(bp, prio)
  BY ProblemFacts DEF Ready
<1>2. /\ s \in Node /\ T \in BoundTable
      /\ bp.lookup \subseteq T.lookup
      /\ s \in T.expanded /\ Linked(problem, T)
      /\ u \in [Node -> Int] /\ l \in [Node -> Int]
      /\ \A n \in bp.lookup : u[n] = bp.ub[n] /\ l[n] = bp.lb[n]
      /\ \A n \in T.lookup \ {s} : T.ub[n] = u[n] /\ T.lb[n] = l[n]
      /\ T.ub[s] <= MaxValue(qu) /\ T.lb[s] >= MaxValue(ql)
      /\ a = MaxAction(qu)
  BY BoundsAfterUpdate DEF Best
<1>3. /\ pr \in [Node -> Nat]
      /\ \A n \in T.lookup \ bp.lookup : pr[n] = OwnPrio(T, n)
      /\ \A n \in bp.lookup : pr[n] = prio[n]
  BY <1>1, <1>2, WithNewNodesProperties
<1>4. MaxPrioOutcome(pr, s, a) = -1
  OBVIOUS
<1>5. qu \in [Action -> Int] /\ ql \in [Action -> Int]
  <2> HIDE DEF u, l
  <2> QED
    BY <1>1, <1>2, BackupType DEF Backups
<1> HIDE DEF T, u, l, pr, a, qu, ql
<1>6. a \in Action
  BY <1>2, <1>5, MaxActionProperties
<1>7. \A x \in Edges(problem, s, a) : OutcomePrio(pr, s, a, x) = 0
  BY <1>1, <1>2, <1>3, <1>4, <1>6, MaxPrioOutcomeProperties
<1>8. k \in Nat /\ (\A w \in Int : 2 * w - TargetPrecision <= 0 <=> w <= k)
  BY FRTDPAssumption
<1> HIDE DEF k
<1>9. qu[a] <= ql[a] + k
  <2>1. CASE problem.discount = 0
    <3>1. \A v \in [Node -> Int] : Backup(problem, v, s, a) = problem.reward[s][a]
      <4> TAKE v \in [Node -> Int]
      <4> DEFINE w == problem.prob[s][a][0] * v[problem.next[s][a][0]]
                      + problem.prob[s][a][1] * v[problem.next[s][a][1]]
      <4>1. w \in Int
        <5>1. /\ problem.prob[s][a] \in [Outcome -> 0 .. ProbDen]
              /\ problem.next[s][a] \in [Outcome -> Node]
              /\ 0 \in Outcome /\ 1 \in Outcome
          BY <1>1, <1>2, <1>6 DEF Problem, Outcome
        <5> QED
          BY <5>1, DenominatorAssumption
      <4> HIDE DEF w
      <4>2. Backup(problem, v, s, a)
              = problem.reward[s][a] + (0 * w) \div (DiscountDen * ProbDen)
        BY <2>1 DEF Backup, w
      <4>3. (0 * w) \div (DiscountDen * ProbDen) = 0
        <5>1. DiscountDen * ProbDen \in Nat \ {0}
          BY DenominatorAssumption
        <5> QED
          BY <4>1, <5>1
      <4>4. problem.reward[s][a] \in Int
        BY <1>1, <1>2, <1>6 DEF Problem
      <4> QED
        BY <4>2, <4>3, <4>4
    <3>2. qu[a] = problem.reward[s][a] /\ ql[a] = problem.reward[s][a]
      BY <1>2, <1>6, <3>1 DEF qu, ql, Backups
    <3> QED
      BY <1>5, <1>6, <1>8, <3>2
  <2>2. CASE problem.discount # 0
    <3>1. ASSUME NEW n \in Successors(problem, s, a) PROVE u[n] <= l[n] + k
      <4>1. PICK o \in Edges(problem, s, a) : n = problem.next[s][a][o]
        BY <3>1 DEF Successors
      <4>2. o \in Outcome /\ problem.prob[s][a][o] > 0
        BY <4>1 DEF Edges
      <4>3. problem.discount > 0
        BY <1>1, <2>2, DenominatorAssumption DEF Problem
      <4>4. n \in Node /\ pr[n] = 0
        <5>1. ~(OutcomePrio(pr, s, a, o) > 0)
          BY <1>7, <4>1
        <5>2. n \in Node /\ ~(pr[n] > 0)
          BY <1>1, <1>2, <1>3, <1>6, <4>1, <4>2, <4>3, <5>1, OutcomePrioPositive
        <5> QED
          BY <1>3, <5>2
      <4>5. n \in T.lookup
        BY <1>2, <1>6, <3>1 DEF Linked
      <4>6. u[n] \in Int /\ l[n] \in Int
        BY <1>2, <4>4
      <4>7. 2 * (u[n] - l[n]) - TargetPrecision <= 0
        <5>1. CASE n \in bp.lookup
          <6>1. ExcessWidth(bp, n) <= 0
            BY <1>1, <1>3, <4>4, <5>1 DEF Prioritised
          <6> QED
            BY <1>2, <5>1, <6>1 DEF ExcessWidth, Width
        <5>2. CASE n \notin bp.lookup
          <6>1. n # s /\ OwnPrio(T, n) = 0
            BY <1>1, <1>3, <4>4, <4>5, <5>2
          <6>2. ExcessWidth(T, n) <= 0
            BY <1>2, <4>4, <6>1, OwnPrioProperties
          <6> QED
            BY <1>2, <4>5, <6>1, <6>2 DEF ExcessWidth, Width
        <5> QED
          BY <5>1, <5>2
      <4>8. u[n] - l[n] <= k
        <5>1. u[n] - l[n] \in Int
          BY <4>6
        <5> QED
          BY <1>8, <4>7, <5>1
      <4> QED
        BY <1>8, <4>6, <4>8
    <3>2. Backup(problem, u, s, a) <= Backup(problem, l, s, a) + k
      BY <1>1, <1>2, <1>6, <1>8, <3>1, BackupGap
    <3> QED
      BY <1>6, <3>2 DEF qu, ql, Backups
  <2> QED
    BY <2>1, <2>2
<1>10. MaxValue(qu) = qu[a] /\ MaxValue(ql) >= ql[a]
  <2>1. MaxValue(qu) = qu[a]
    BY <1>2 DEF MaxValue
  <2>2. ql[MaxAction(ql)] >= ql[a]
    BY <1>5, <1>6, MaxActionProperties
  <2> QED
    BY <2>1, <2>2 DEF MaxValue
<1>11. /\ T.ub[s] \in Int /\ T.lb[s] \in Int
       /\ qu[a] \in Int /\ ql[a] \in Int /\ MaxValue(ql) \in Int
  BY <1>2, <1>5, <1>6, MaxValueType DEF BoundTable
<1>12. T.ub[s] - T.lb[s] <= k
  BY <1>2, <1>8, <1>9, <1>10, <1>11
<1>13. 2 * (T.ub[s] - T.lb[s]) - TargetPrecision <= 0
  <2>1. T.ub[s] - T.lb[s] \in Int
    BY <1>11
  <2> QED
    BY <1>8, <1>12, <2>1
<1> QED
  BY <1>13 DEF ExcessWidth, Width, T

-----------------------------------------------------------------------------
\* Raising a lower bound to its best backup keeps all of them improvable.
LEMMA RaisingKeepsImprovable ==
  ASSUME NEW p \in Problem, Distributed(p), NEW l \in [Node -> Int],
         NEW s \in Node, Improvable(p, l)
  PROVE  Improvable(p, [l EXCEPT ![s] = IF Best(p, l, s) > l[s]
                                        THEN Best(p, l, s) ELSE l[s]])
<1> DEFINE best == Best(p, l, s)
           m    == [l EXCEPT ![s] = IF best > l[s] THEN best ELSE l[s]]
<1>1. best \in Int
  BY BestProperties
<1> HIDE DEF best
<1>2. /\ m \in [Node -> Int]
      /\ \A n \in Node : l[n] <= m[n]
      /\ \A n \in Node \ {s} : m[n] = l[n]
      /\ best >= l[s] => m[s] = best
  BY <1>1
<1> HIDE DEF m
<1>3. ASSUME NEW n \in Node, ~p.terminal[n] PROVE m[n] <= Best(p, m, n)
  <2>1. Best(p, l, n) <= Best(p, m, n)
    BY <1>2, BestMonotone
  <2>2. l[n] <= Best(p, l, n)
    BY <1>3 DEF Improvable
  <2>3. m[n] <= Best(p, l, n)
    <3>1. CASE n = s
      <4>1. best >= l[s] /\ best = Best(p, l, n)
        BY <1>1, <2>2, <3>1 DEF best
      <4> QED
        BY <1>1, <1>2, <3>1, <4>1
    <3>2. CASE n # s
      BY <1>2, <2>2, <3>2
    <3> QED
      BY <3>1, <3>2
  <2>4. m[n] \in Int /\ Best(p, l, n) \in Int /\ Best(p, m, n) \in Int
    BY <1>2, BestProperties
  <2> QED
    BY <2>1, <2>3, <2>4
<1> QED
  BY <1>3 DEF Improvable, m, best

\* An update keeps the table in order and the priorities sound.
LEMMA UpdateKeeps ==
  ASSUME NEW s, Ready(s), UpdateNode(s)
  PROVE  /\ bp' \in BoundTable
         /\ prio' \in [Node -> Nat]
         /\ Linked(problem, bp')
         /\ bp.lookup \subseteq bp'.lookup
         /\ Prioritised(bp', prio')
         /\ Improvable(problem, LBOf(problem, bp)) =>
              Improvable(problem, LBOf(problem, bp'))
<1> DEFINE T  == Update(problem, bp, s)
           pr == WithNewNodes(T)
           a  == MaxUBAction(T, s)
           o  == MaxPrioOutcome(pr, s, a)
           np == NodePrio(T, pr, s)
<1>1. /\ problem \in Problem /\ Distributed(problem) /\ bp \in BoundTable
      /\ prio \in [Node -> Nat] /\ s \in bp.lookup /\ Prioritised(bp, prio)
  BY ProblemFacts DEF Ready
<1>2. /\ s \in Node /\ T \in BoundTable
      /\ bp.lookup \subseteq T.lookup
      /\ Linked(problem, T)
      /\ UBOf(problem, bp) \in [Node -> Int] /\ LBOf(problem, bp) \in [Node -> Int]
      /\ \A n \in bp.lookup \ {s} : T.ub[n] = bp.ub[n] /\ T.lb[n] = bp.lb[n]
      /\ MaxUBAction(T, s) = MaxAction(Backups(problem, UBOf(problem, bp), s))
      /\ Improvable(problem, LBOf(problem, bp)) => Improvable(problem, LBOf(problem, T))
  BY <1>1, BoundsAfterUpdate, RaisingKeepsImprovable
<1>3. /\ pr \in [Node -> Nat]
      /\ \A n \in T.lookup \ bp.lookup : pr[n] = OwnPrio(T, n)
      /\ \A n \in bp.lookup : pr[n] = prio[n]
  BY <1>1, <1>2, WithNewNodesProperties
<1>4. o = -1 => ExcessWidth(T, s) <= 0
  BY NoOutcomeMeansClose
<1>5. bp' = T /\ prio' = [pr EXCEPT ![s] = np]
  BY DEF UpdateNode
<1>6. a \in Action
  BY <1>1, <1>2, BestProperties
<1>7. o # -1 => /\ OutcomePrio(pr, s, a, o) \in Nat
                /\ OutcomePrio(pr, s, a, o) > 0
  <2>1. Edges(problem, s, a) \subseteq Outcome
    BY DEF Edges
  <2> HIDE DEF T, pr, a
  <2> QED
    BY <1>1, <1>2, <1>3, <1>6, <2>1, MaxPrioOutcomeProperties, OutcomePrioPositive
<1>8. /\ np \in Nat
      /\ np = 0 => ExcessWidth(T, s) <= 0
      /\ np <= OwnPrio(T, s)
  <2> DEFINE own == OwnPrio(T, s)
             out == OutcomePrio(pr, s, a, o)
  <2>1. own \in Nat /\ ExcessWidth(T, s) \in Int /\ (own > 0 <=> ExcessWidth(T, s) > 0)
    BY <1>2, OwnPrioProperties
  <2>2. np = IF o = -1 THEN 0 ELSE IF out < own THEN out ELSE own
    BY DEF NodePrio
  <2> HIDE DEF T, own, out, o, np
  <2>3. CASE o = -1
    BY <1>4, <2>1, <2>2, <2>3 DEF own
  <2>4. CASE o # -1
    <3>1. out \in Nat /\ out > 0
      BY <1>7, <2>4 DEF out
    <3> QED
      BY <2>1, <2>2, <2>4, <3>1 DEF own
  <2> QED
    BY <2>3, <2>4
<1> HIDE DEF T, pr, np, a, o
<1>9. prio' \in [Node -> Nat]
  BY <1>2, <1>3, <1>5, <1>8
<1>10. ASSUME NEW n \in T.lookup
       PROVE  /\ prio'[n] = 0 => ExcessWidth(T, n) <= 0
              /\ prio'[n] <= OwnPrio(T, n)
  <2>0. n \in Node
    BY <1>2 DEF BoundTable
  <2>1. CASE n = s
    BY <1>2, <1>3, <1>5, <1>8, <2>1
  <2>2. CASE n # s /\ n \in bp.lookup
    <3>1. prio'[n] = prio[n]
      BY <1>3, <1>5, <2>0, <2>2
    <3>2. ExcessWidth(T, n) = ExcessWidth(bp, n) /\ OwnPrio(T, n) = OwnPrio(bp, n)
      BY <1>2, <2>2 DEF OwnPrio, ExcessWidth, Width
    <3> QED
      BY <1>1, <2>2, <3>1, <3>2 DEF Prioritised
  <2>3. CASE n # s /\ n \notin bp.lookup
    <3>1. prio'[n] = OwnPrio(T, n)
      BY <1>3, <1>5, <2>0, <2>3
    <3>2. /\ OwnPrio(T, n) \in Nat /\ ExcessWidth(T, n) \in Int
          /\ (OwnPrio(T, n) > 0 <=> ExcessWidth(T, n) > 0)
      BY <1>2, <2>0, OwnPrioProperties
    <3> QED
      BY <3>1, <3>2
  <2> QED
    BY <2>1, <2>2, <2>3
<1> QED
  BY <1>2, <1>5, <1>9, <1>10 DEF Prioritised

\* The outcome that a trial follows leads to a node whose bounds are apart.
LEMMA FollowedIsApart ==
  ASSUME NEW s, Ready(s), UpdateNode(s),
         ExcessWidth(bp', s) > 0,
         NEW a, a = MaxUBAction(bp', s),
         NEW o, o = MaxPrioOutcome(WithNewNodes(bp'), s, a), o # -1
  PROVE  LET n == problem.next[s][a][o]
         IN  n \in bp'.lookup /\ ExcessWidth(bp', n) > 0
<1> DEFINE T  == Update(problem, bp, s)
           pr == WithNewNodes(T)
           n  == problem.next[s][a][o]
<1>0. bp' = T
  BY DEF UpdateNode
<1>1. /\ problem \in Problem /\ bp \in BoundTable
      /\ prio \in [Node -> Nat] /\ s \in bp.lookup /\ Prioritised(bp, prio)
  BY ProblemFacts DEF Ready
<1>2. /\ s \in Node /\ T \in BoundTable
      /\ bp.lookup \subseteq T.lookup
      /\ T.expanded = bp.expanded \cup {s}
      /\ Linked(problem, T)
      /\ UBOf(problem, bp) \in [Node -> Int]
      /\ \A x \in bp.lookup \ {s} : T.ub[x] = bp.ub[x] /\ T.lb[x] = bp.lb[x]
      /\ MaxUBAction(T, s) = MaxAction(Backups(problem, UBOf(problem, bp), s))
  BY <1>1, BoundsAfterUpdate
<1>3. /\ pr \in [Node -> Nat]
      /\ \A x \in T.lookup \ bp.lookup : pr[x] = OwnPrio(T, x)
      /\ \A x \in bp.lookup : pr[x] = prio[x]
  BY <1>1, <1>2, WithNewNodesProperties
<1>4. a \in Action
  BY <1>0, <1>1, <1>2, BestProperties
<1>5. o \in Edges(problem, s, a) /\ OutcomePrio(pr, s, a, o) > 0
  BY <1>0, <1>1, <1>2, <1>3, <1>4, MaxPrioOutcomeProperties
<1>6. o \in Outcome /\ n \in Successors(problem, s, a)
  BY <1>5 DEF Edges, Successors
<1> HIDE DEF T, pr
<1>7. n \in Node /\ pr[n] > 0
  BY <1>1, <1>2, <1>3, <1>4, <1>5, <1>6, OutcomePrioPositive
<1>8. n \in T.lookup
  BY <1>2, <1>4, <1>6 DEF Linked
<1>9. ExcessWidth(T, n) > 0
  <2>1. CASE n = s
    BY <1>0, <2>1
  <2>2. CASE n # s /\ n \in bp.lookup
    <3>1. prio[n] > 0 /\ prio[n] <= OwnPrio(bp, n)
      BY <1>1, <1>3, <1>7, <2>2 DEF Prioritised
    <3>2. OwnPrio(bp, n) > 0
      BY <1>1, <1>7, <3>1, OwnPrioProperties
    <3>3. ExcessWidth(bp, n) > 0
      BY <1>1, <1>7, <3>2, OwnPrioProperties
    <3> QED
      BY <1>2, <2>2, <3>3 DEF ExcessWidth, Width
  <2>3. CASE n # s /\ n \notin bp.lookup
    BY <1>2, <1>3, <1>7, <1>8, <2>3, OwnPrioProperties
  <2> QED
    BY <2>1, <2>2, <2>3
<1> QED
  BY <1>0, <1>8, <1>9

-----------------------------------------------------------------------------
LEMMA InitIInv == Init => IInv
<1> SUFFICES ASSUME Init PROVE IInv
  OBVIOUS
<1>1. problem \in Problems /\ problem \in Problem
  BY ProblemFacts DEF Init
<1>2. EmptyTable \in BoundTable /\ EmptyTable.lookup = {} /\ EmptyTable.expanded = {}
  BY BoundPairAssumption DEF EmptyTable, BoundTable
<1>3. TypeOK
  <2>1. prio \in [Node -> Nat] /\ stack \in Seq(Node) /\ pc \in Location
    BY DEF Init, Location
  <2>2. {oldMaxDepth, maxDepth} \subseteq 0 .. 100 * DepthCap
    BY FRTDPAssumption DEF Init
  <2> QED
    BY <1>1, <1>2, <2>1, <2>2 DEF Init, TypeOK
<1>4. Linked(problem, bp) /\ Prioritised(bp, prio)
  BY <1>2 DEF Init, Linked, Prioritised
<1>5. ToSet(stack) \subseteq bp.lookup
  BY EmptyStack DEF Init
<1>6. ASSUME problem \in UniformProblems PROVE Improvable(problem, LBOf(problem, bp))
  <2> DEFINE lb == [n \in Node |-> IF problem.terminal[n] THEN 0 ELSE problem.lower[n]]
  <2>1. LBOf(problem, bp) = lb
    BY <1>2, FRTDPAssumption DEF Init, LBOf, InitLB
  <2>2. \A n \in Node : Backups(problem, lb, n) \in [Action -> Int]
                        /\ Best(problem, lb, n) \in Int /\ lb[n] \in Int
    <3>1. lb \in [Node -> Int]
      BY <1>1 DEF Problem
    <3> HIDE DEF lb
    <3> QED
      BY <1>1, <3>1, BestProperties
  <2>3. \A n \in Node : ~problem.terminal[n] => Best(problem, lb, n) >= lb[n]
    BY <1>6 DEF UniformProblems, UniformlyImprovable, Best, Backups
  <2> HIDE DEF lb
  <2>4. Improvable(problem, lb)
    BY <2>2, <2>3 DEF Improvable
  <2> QED
    BY <2>1, <2>4
<1> QED
  BY <1>1, <1>3, <1>4, <1>5, <1>6 DEF IInv, Init

\* Making the root's node gives it its own priority and changes no other.
LEMMA PlanFixedTimeIInv ==
  ASSUME IInv, PlanFixedTime
  PROVE  IInv'
<1> DEFINE root == problem.initial
           T    == GetNodes(problem, bp, {root})
<1>1. /\ problem \in Problems /\ problem \in Problem
      /\ bp \in BoundTable /\ prio \in [Node -> Nat]
      /\ Linked(problem, bp) /\ Prioritised(bp, prio)
  BY ProblemFacts DEF IInv, TypeOK
<1>2. root \in Node
  BY <1>1 DEF Problem
<1>3. /\ T \in BoundTable
      /\ T.lookup = bp.lookup \cup {root}
      /\ T.expanded = bp.expanded
  BY <1>1, <1>2, GetNodesProperties
<1>4. UBOf(problem, T) = UBOf(problem, bp) /\ LBOf(problem, T) = LBOf(problem, bp)
  BY <1>1, <1>2, GetNodesKeepsBounds
<1>5. bp' = T /\ prio' = WithNewNodes(T) /\ problem' = problem /\ stack' = <<root>>
  BY DEF PlanFixedTime
<1>6. \A n \in bp.lookup : T.ub[n] = bp.ub[n] /\ T.lb[n] = bp.lb[n]
  BY <1>1, <1>3, <1>4 DEF UBOf, LBOf, BoundTable
<1> HIDE DEF T, root
<1>7. /\ WithNewNodes(T) \in [Node -> Nat]
      /\ \A n \in T.lookup \ bp.lookup : WithNewNodes(T)[n] = OwnPrio(T, n)
      /\ \A n \in bp.lookup : WithNewNodes(T)[n] = prio[n]
  BY <1>1, <1>3, WithNewNodesProperties
<1>8. Prioritised(T, WithNewNodes(T))
  <2> SUFFICES ASSUME NEW n \in T.lookup
               PROVE  /\ WithNewNodes(T)[n] = 0 => ExcessWidth(T, n) <= 0
                      /\ WithNewNodes(T)[n] <= OwnPrio(T, n)
    BY DEF Prioritised
  <2>1. CASE n \in bp.lookup
    <3>1. ExcessWidth(T, n) = ExcessWidth(bp, n) /\ OwnPrio(T, n) = OwnPrio(bp, n)
      BY <1>6, <2>1 DEF OwnPrio, ExcessWidth, Width
    <3> QED
      BY <1>1, <1>7, <2>1, <3>1 DEF Prioritised
  <2>2. CASE n \notin bp.lookup
    <3>1. n \in Node
      BY <1>3 DEF BoundTable
    <3>2. /\ OwnPrio(T, n) \in Nat /\ ExcessWidth(T, n) \in Int
          /\ (OwnPrio(T, n) > 0 <=> ExcessWidth(T, n) > 0)
      BY <1>3, <3>1, OwnPrioProperties
    <3> QED
      BY <1>7, <2>2, <3>2
  <2> QED
    BY <2>1, <2>2
<1>9. Linked(problem, T)
  BY <1>1, <1>3 DEF Linked
<1>10. stack' \in Seq(Node) /\ stack' # <<>> /\ ToSet(stack') = {root} /\ Len(stack') = 1
  BY <1>2, <1>5 DEF ToSet
<1>11. TypeOK'
  BY <1>3, <1>5, <1>7, <1>10 DEF IInv, TypeOK, PlanFixedTime, Location
<1>12. problem' \in UniformProblems => Improvable(problem', LBOf(problem', bp'))
  BY <1>4, <1>5 DEF IInv
<1> QED
  BY <1>1, <1>3, <1>5, <1>8, <1>9, <1>10, <1>11, <1>12 DEF IInv

\* The parts of the invariant that every step which updates a node shares.
LEMMA StepUpdates ==
  ASSUME IInv, stack # <<>>, UpdateNode(Last(stack)), UNCHANGED problem
  PROVE  /\ Ready(Last(stack))
         /\ Last(stack) \in Node
         /\ bp' \in BoundTable /\ prio' \in [Node -> Nat]
         /\ problem' \in Problems /\ problem' \in Problem
         /\ Linked(problem', bp')
         /\ bp.lookup \subseteq bp'.lookup
         /\ Prioritised(bp', prio')
         /\ problem' \in UniformProblems => Improvable(problem', LBOf(problem', bp'))
         /\ Front(stack) \in Seq(Node)
         /\ ToSet(stack) \subseteq bp'.lookup
         /\ ToSet(Front(stack)) \subseteq bp'.lookup
<1>1. /\ problem \in Problems /\ problem \in Problem
      /\ bp \in BoundTable /\ prio \in [Node -> Nat] /\ stack \in Seq(Node)
      /\ Linked(problem, bp) /\ Prioritised(bp, prio)
      /\ ToSet(stack) \subseteq bp.lookup
  BY ProblemFacts DEF IInv, TypeOK
<1>2. /\ Front(stack) \in Seq(Node) /\ Last(stack) \in Node
      /\ Last(stack) \in ToSet(stack)
      /\ ToSet(stack) = ToSet(Front(stack)) \cup {Last(stack)}
  BY <1>1, PopProperties
<1>3. Ready(Last(stack))
  BY <1>1, <1>2 DEF Ready
<1>4. /\ bp' \in BoundTable /\ prio' \in [Node -> Nat]
      /\ Linked(problem, bp')
      /\ bp.lookup \subseteq bp'.lookup
      /\ Prioritised(bp', prio')
      /\ Improvable(problem, LBOf(problem, bp)) => Improvable(problem, LBOf(problem, bp'))
  BY <1>3, UpdateKeeps
<1>5. problem \in UniformProblems => Improvable(problem, LBOf(problem, bp))
  BY DEF IInv
<1> QED
  BY <1>1, <1>2, <1>3, <1>4, <1>5

LEMMA DepthType ==
  ASSUME TypeOK
  PROVE  LET m == (11 * maxDepth) \div 10
         IN  (IF m > 100 * DepthCap THEN 100 * DepthCap ELSE m) \in 0 .. 100 * DepthCap
<1>1. maxDepth \in Nat /\ 100 * DepthCap \in Nat
  BY FRTDPAssumption DEF TypeOK
<1>2. (11 * maxDepth) \div 10 \in Nat
  BY <1>1
<1> QED
  BY <1>1, <1>2

LEMMA NextIInv == IInv /\ [Next]_vars => IInv'
<1> SUFFICES ASSUME IInv, [Next]_vars PROVE IInv'
  OBVIOUS
<1>1. CASE PlanFixedTime
  BY <1>1, PlanFixedTimeIInv
<1>2. CASE TrialEnds
  <2>1. /\ pc = "trialRecurse" /\ stack # <<>> /\ UpdateNode(Last(stack))
        /\ UNCHANGED problem /\ stack' = Front(stack) /\ pc' = "return"
        /\ UNCHANGED <<oldMaxDepth, maxDepth>>
    BY <1>2 DEF TrialEnds, IInv
  <2>2. newUpdates' \in BOOLEAN /\ oldImproved' \in BOOLEAN
    BY <1>2 DEF TrialEnds, CountQuality, IInv, TypeOK
  <2>3. TypeOK'
    BY <2>1, <2>2, StepUpdates DEF IInv, TypeOK, Location
  <2> QED
    BY <2>1, <2>3, StepUpdates DEF IInv
<1>3. CASE TrialStep
  <2> DEFINE s == Last(stack)
             a == MaxUBAction(bp', s)
             o == MaxPrioOutcome(WithNewNodes(bp'), s, a)
             n == problem.next[s][a][o]
  <2>1. /\ pc = "trialRecurse" /\ stack # <<>> /\ UpdateNode(s)
        /\ UNCHANGED problem /\ stack' = Append(stack, n) /\ pc' = pc
        /\ UNCHANGED <<oldMaxDepth, maxDepth>>
        /\ ExcessWidth(bp', s) > 0 /\ o # -1
    BY <1>3 DEF TrialStep, IInv
  <2>2. newUpdates' \in BOOLEAN /\ oldImproved' \in BOOLEAN
    BY <1>3 DEF TrialStep, CountQuality, IInv, TypeOK
  <2>3. /\ Ready(s) /\ bp' \in BoundTable /\ stack \in Seq(Node)
        /\ ToSet(stack) \subseteq bp'.lookup
    BY <2>1, StepUpdates DEF IInv, TypeOK
  <2>4. n \in bp'.lookup /\ ExcessWidth(bp', n) > 0
    BY <2>1, <2>3, FollowedIsApart
  <2> HIDE DEF n, a, o
  <2>5. n \in Node
    BY <2>3, <2>4 DEF BoundTable
  <2>6. /\ stack' \in Seq(Node) /\ stack' # <<>>
        /\ ToSet(stack') = ToSet(stack) \cup {n}
    BY <2>1, <2>3, <2>5, PushProperties
  <2>7. Last(stack') = n
    <3>1. /\ stack' \in Seq(Node) /\ Len(stack) \in Nat /\ Len(stack') = Len(stack) + 1
          /\ stack'[Len(stack) + 1] = n
      BY <2>1, <2>3, <2>5, AppendKeeps
    <3> QED
      BY <3>1 DEF Last
  <2>8. TypeOK'
    BY <2>1, <2>2, <2>6, StepUpdates DEF IInv, TypeOK
  <2>9. ToSet(stack') \subseteq bp'.lookup
    BY <2>3, <2>4, <2>6
  <2>10. ExcessWidth(bp', Last(stack')) > 0
    BY <2>4, <2>7
  <2>11. ExcessWidth(bp, Last(stack))' > 0
    BY <2>10 DEF ExcessWidth, Width
  <2> QED
    BY <2>1, <2>6, <2>8, <2>9, <2>11, StepUpdates DEF IInv
<1>4. CASE TrialReturns
  <2>1. /\ pc = "return" /\ stack # <<>> /\ UpdateNode(Last(stack))
        /\ UNCHANGED problem /\ stack' = Front(stack) /\ pc' = pc
        /\ UNCHANGED <<oldMaxDepth, maxDepth, oldImproved, newUpdates>>
    BY <1>4 DEF TrialReturns
  <2>2. TypeOK'
    BY <2>1, StepUpdates DEF IInv, TypeOK
  <2> QED
    BY <2>1, <2>2, StepUpdates DEF IInv
<1>5. CASE \E deepen \in BOOLEAN : EndTrial(deepen)
  <2>1. PICK deepen \in BOOLEAN : EndTrial(deepen)
    BY <1>5
  <2>2. /\ UNCHANGED <<problem, bp, prio, stack, oldImproved, newUpdates>>
        /\ pc' \in {"done", "planFixedTime"}
        /\ oldMaxDepth' \in {oldMaxDepth, maxDepth}
    BY <2>1 DEF EndTrial
  <2>3. maxDepth' \in 0 .. 100 * DepthCap
    <3>1. maxDepth' \in {maxDepth, IF (11 * maxDepth) \div 10 > 100 * DepthCap
                                   THEN 100 * DepthCap ELSE (11 * maxDepth) \div 10}
      BY <2>1 DEF EndTrial
    <3> QED
      BY <3>1, DepthType DEF IInv, TypeOK
  <2>4. TypeOK'
    BY <2>2, <2>3 DEF IInv, TypeOK, Location
  <2> QED
    BY <2>2, <2>4 DEF IInv, Linked, Prioritised, OwnPrio, ExcessWidth, Width
<1>6. CASE UNCHANGED vars
  BY <1>6 DEF vars, IInv, TypeOK, Linked, Prioritised, OwnPrio, ExcessWidth, Width
<1> QED
  BY <1>1, <1>2, <1>3, <1>4, <1>5, <1>6 DEF Next

LEMMA Invariance == Spec => []IInv
BY InitIInv, NextIInv, PTL DEF Spec

-----------------------------------------------------------------------------
\* The variables of the solver keep their types.
THEOREM TypeCorrect == Spec => []TypeOK
<1>1. IInv => TypeOK
  BY DEF IInv
<1> QED
  BY <1>1, Invariance, PTL

\* The assertion of trialRecurse holds, and the priorities it rests on never
\* hide a node that is still imprecise, however trials interleave updates.
THEOREM PriosAreSound == Spec => []PrioSound
<1>1. ASSUME IInv PROVE PrioSound
  <2>1. PrioBounds
    BY <1>1 DEF IInv, Prioritised, PrioBounds
  <2>2. ASSUME pc = "trialRecurse"
        PROVE  LET s == Last(stack)
                   t == Update(problem, bp, s)
               IN  /\ Len(stack) > 1 => ExcessWidth(bp, s) > 0
                   /\ ExcessWidth(t, s) > 0 =>
                        MaxPrioOutcome(WithNewNodes(t), s, MaxUBAction(t, s)) # -1
    <3> DEFINE s == Last(stack)
               t == Update(problem, bp, s)
    <3>1. stack \in Seq(Node) /\ stack # <<>>
      BY <1>1, <2>2 DEF IInv, TypeOK
    <3>2. s \in ToSet(stack)
      BY <3>1, PopProperties
    <3>3. Ready(s)
      BY <1>1, <3>2 DEF IInv, TypeOK, Ready
    <3>4. MaxPrioOutcome(WithNewNodes(t), s, MaxUBAction(t, s)) = -1 =>
            ExcessWidth(t, s) <= 0
      BY <3>3, NoOutcomeMeansClose
    <3>5. ExcessWidth(t, s) \in Int
      <4>1. t \in BoundTable /\ s \in Node
        BY <3>3, BoundsAfterUpdate
      <4> QED
        BY <4>1, OwnPrioProperties
    <3>6. Len(stack) > 1 => ExcessWidth(bp, s) > 0
      BY <1>1, <2>2 DEF IInv
    <3> QED
      BY <3>4, <3>5, <3>6
  <2> QED
    BY <2>1, <2>2 DEF PrioSound, AssertionHolds
<1> QED
  BY <1>1, Invariance, PTL

\* When no backup would lower the initial lower bounds, the policy that looks
\* one step ahead over the bounds never loses value against them, although the
\* bounds of a node and of its successors come from different trials.
THEOREM PolicyKeepsBound == Spec => []PolicyKeepsLowerBound
<1>1. ASSUME IInv PROVE PolicyKeepsLowerBound
  <2> SUFFICES ASSUME problem \in UniformProblems,
                      NEW s \in bp.expanded, ~problem.terminal[s]
               PROVE  bp.lb[s] <= Backup(problem, ValueOf(problem, bp, bp.lb, problem.lower),
                                         s, ChooseActionLB(problem, bp, s))
    BY DEF PolicyKeepsLowerBound
  <2> DEFINE l == LBOf(problem, bp)
             v == ValueOf(problem, bp, bp.lb, problem.lower)
             q == Backups(problem, l, s)
  <2>1. /\ problem \in Problem /\ bp \in BoundTable /\ Linked(problem, bp)
        /\ Improvable(problem, l)
    BY <1>1, ProblemFacts DEF IInv, TypeOK
  <2>2. s \in Node /\ s \in bp.lookup
    BY <2>1 DEF BoundTable, Linked
  <2>3. l \in [Node -> Int]
    BY <2>1, BoundsType
  <2>4. v \in [Node -> Int]
    BY <2>1 DEF ValueOf, BoundTable, Problem
  <2>5. \A n \in bp.lookup : v[n] = bp.lb[n] /\ l[n] = bp.lb[n]
    BY <2>1 DEF ValueOf, LBOf, BoundTable
  <2>6. ChooseActionLB(problem, bp, s) = MaxAction([a \in Action |-> Backup(problem, v, s, a)])
    BY DEF ChooseActionLB
  <2> HIDE DEF l, v
  <2>7. \A a \in Action : Backup(problem, v, s, a) = Backup(problem, l, s, a)
    <3> TAKE a \in Action
    <3>1. \A n \in Successors(problem, s, a) : v[n] = l[n]
      BY <2>1, <2>5 DEF Linked
    <3> QED
      BY <2>1, <2>2, <2>3, <2>4, <3>1, BackupLocal
  <2>8. ChooseActionLB(problem, bp, s) = MaxAction(q)
    BY <2>6, <2>7 DEF Backups
  <2>9. /\ MaxAction(q) \in Action
        /\ Best(problem, l, s) = Backup(problem, l, s, MaxAction(q))
    BY <2>1, <2>2, <2>3, BestProperties
  <2>10. l[s] <= Best(problem, l, s)
    BY <2>1, <2>2 DEF Improvable
  <2> QED
    BY <2>2, <2>5, <2>7, <2>8, <2>9, <2>10 DEF v
<1> QED
  BY <1>1, Invariance, PTL
=============================================================================
