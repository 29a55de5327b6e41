----------------------------- MODULE HSVIProofs ------------------------------
(***************************************************************************)
(* Proofs about HSVI: its bounds bracket the values of the problem, in     *)
(* whatever order its trials update the nodes, the lazy loop by which an   *)
(* upper bound is updated computes what the model of HSVI says it does,    *)
(* and the relaxed problem's bounds bracket its values (RelaxUB, which is  *)
(* instantiated here with variables of its own).                           *)
(***************************************************************************)
EXTENDS HSVI, UseCacheLoop, BoundPairProofs

\* The bounds of all states, and the cached Q values, bracket v.
Within(p, v, table) ==
  /\ \A n \in Node : LBOf(p, table)[n] <= v[n] /\ v[n] <= UBOf(p, table)[n]
  /\ \A n \in table.expanded, a \in Action : Backup(p, v, n, a) <= table.qub[n][a]

\* The bounds of terminal nodes are exact.
TerminalsExact(p, table) ==
  \A n \in table.lookup : p.terminal[n] => table.ub[n] = 0 /\ table.lb[n] = 0

\* Whether a trial has updated the nodes of st, none of which is terminal.
NoneTerminal(st) == \A n \in ToSet(st) : ~problem.terminal[n]

\* The inductive invariant: trials update no terminal node, as the bounds of
\* those are equal and a trial begins with bounds that are not crossed.
IInv ==
  /\ TypeOK
  /\ problem \in Problems
  /\ Linked(problem, bp)
  /\ ToSet(stack) \subseteq bp.lookup
  /\ Within(problem, Value[problem], bp)
  /\ TerminalsExact(problem, bp)
  /\ startWidth >= 0
  /\ pc = "trialRecurse" => stack # <<>> /\ NoneTerminal(Front(stack))
  /\ pc = "return" => NoneTerminal(stack)

LEMMA ProblemFacts ==
  ASSUME NEW p \in Problems
  PROVE  /\ p \in Problem /\ Distributed(p)
         /\ Value[p] \in [Node -> Int]
         /\ IsValue(p, Value[p]) /\ ValidHeuristics(p, Value[p])
BY ProblemsAssumption, DistributionAssumption, ValueAssumption DEF Distributed

-----------------------------------------------------------------------------
\* The powers of a natural number.
Power(x, h, n) ==
  h = [i \in 0 .. n |-> IF i = 0 THEN 1 ELSE x * h[i - 1]]

LEMMA PowerExists ==
  ASSUME NEW x, NEW n \in Nat
  PROVE  \E h : Power(x, h, n)
<1> DEFINE Without == {m \in Nat : ~ \E h : Power(x, h, m)}
<1>1. SUFFICES ASSUME Without # {} PROVE FALSE
  OBVIOUS
<1>2. PICK m \in Without : \A k \in Without : m <= k
  <2>1. Without \in SUBSET Nat
    OBVIOUS
  <2> HIDE DEF Without
  <2> QED
    BY <1>1, <2>1, LeastNatural
<1>3. m \in Nat
  OBVIOUS
<1>4. CASE m = 0
  <2> DEFINE h == [i \in 0 .. 0 |-> 1]
  <2>1. Power(x, h, 0)
    BY DEF Power
  <2> QED
    BY <1>2, <1>4, <2>1
<1>5. CASE m # 0
  <2>1. m - 1 \in Nat /\ m - 1 \notin Without
    BY <1>2, <1>3, <1>5
  <2>2. PICK h : Power(x, h, m - 1)
    BY <2>1
  <2> DEFINE g == [i \in 0 .. m |-> IF i = m THEN x * h[m - 1] ELSE h[i]]
  <2>3. \A i \in 0 .. m : g[i] = IF i = 0 THEN 1 ELSE x * g[i - 1]
    <3> TAKE i \in 0 .. m
    <3>1. CASE i = m
      BY <1>3, <1>5, <3>1
    <3>2. CASE i # m
      <4>1. i \in 0 .. m - 1 /\ g[i] = h[i] /\ (i # 0 => i - 1 \in 0 .. m /\ i - 1 # m)
        BY <1>3, <3>2
      <4>2. h[i] = IF i = 0 THEN 1 ELSE x * h[i - 1]
        BY <2>2, <4>1 DEF Power
      <4>3. i # 0 => g[i - 1] = h[i - 1]
        BY <4>1
      <4> QED
        BY <4>1, <4>2, <4>3
    <3> QED
      BY <3>1, <3>2
  <2>4. Power(x, g, m)
    <3>1. g = [i \in 0 .. m |-> g[i]]
      OBVIOUS
    <3> HIDE DEF g
    <3> QED
      BY <2>3, <3>1 DEF Power
  <2> QED
    BY <1>2, <2>4
<1> QED
  BY <1>4, <1>5

LEMMA PowerUnique ==
  ASSUME NEW x, NEW n \in Nat, NEW m \in Nat, NEW g, NEW h,
         Power(x, g, n), Power(x, h, m)
  PROVE  \A k \in Nat : k <= n /\ k <= m => g[k] = h[k]
<1> DEFINE Apart == {k \in Nat : k <= n /\ k <= m /\ g[k] # h[k]}
<1>1. SUFFICES ASSUME Apart # {} PROVE FALSE
  OBVIOUS
<1>2. PICK k \in Apart : \A j \in Apart : k <= j
  <2>1. Apart \in SUBSET Nat
    OBVIOUS
  <2> HIDE DEF Apart
  <2> QED
    BY <1>1, <2>1, LeastNatural
<1>3. k \in 0 .. n /\ k \in 0 .. m /\ g[k] # h[k]
  OBVIOUS
<1>4. /\ g[k] = IF k = 0 THEN 1 ELSE x * g[k - 1]
      /\ h[k] = IF k = 0 THEN 1 ELSE x * h[k - 1]
  BY <1>3 DEF Power
<1>5. k # 0 => g[k - 1] = h[k - 1]
  <2>1. k # 0 => k - 1 \in Nat /\ k - 1 <= n /\ k - 1 <= m /\ ~(k <= k - 1)
    BY <1>3
  <2> QED
    BY <1>2, <2>1
<1> QED
  BY <1>3, <1>4, <1>5

\* pow computes natural numbers.
LEMMA PowType ==
  ASSUME NEW x \in Nat, NEW k \in Nat
  PROVE  pow(x, k) \in Nat
<1> DEFINE Rec(g) == [i \in Nat |-> IF i = 0 THEN 1 ELSE x * g[i - 1]]
           f == CHOOSE g : g = Rec(g)
           H(n) == CHOOSE h : Power(x, h, n)
           all == [n \in Nat |-> H(n)[n]]
<1>1. pow(x, k) = f[k]
  BY DEF pow
<1>2. all = Rec(all)
  <2>1. ASSUME NEW n \in Nat
        PROVE  all[n] = IF n = 0 THEN 1 ELSE x * all[n - 1]
    <3>1. Power(x, H(n), n)
      BY PowerExists
    <3>2. H(n)[n] = IF n = 0 THEN 1 ELSE x * H(n)[n - 1]
      <4>1. n \in 0 .. n
        OBVIOUS
      <4> HIDE DEF H
      <4> QED
        BY <3>1, <4>1 DEF Power
    <3>3. CASE n = 0
      BY <3>2, <3>3
    <3>4. CASE n # 0
      <4>1. n - 1 \in Nat /\ n - 1 <= n
        BY <3>4
      <4>2. Power(x, H(n - 1), n - 1)
        BY <4>1, PowerExists
      <4> HIDE DEF H
      <4>3. H(n)[n - 1] = H(n - 1)[n - 1]
        BY <3>1, <4>1, <4>2, PowerUnique
      <4> QED
        BY <3>2, <3>4, <4>1, <4>3
    <3> QED
      BY <3>3, <3>4
  <2>2. all = [n \in Nat |-> all[n]]
    OBVIOUS
  <2> HIDE DEF all
  <2> QED
    BY <2>1, <2>2
<1>3. f = Rec(f)
  <2> HIDE DEF all
  <2> QED
    BY <1>2
<1>4. \A i \in Nat : f[i] = IF i = 0 THEN 1 ELSE x * f[i - 1]
  <2> HIDE DEF f
  <2> QED
    BY <1>3
<1> HIDE DEF f
<1> DEFINE Bad == {i \in Nat : f[i] \notin Nat}
<1>5. Bad = {}
  <2>1. SUFFICES ASSUME Bad # {} PROVE FALSE
    OBVIOUS
  <2>2. PICK m \in Bad : \A j \in Bad : m <= j
    <3>1. Bad \in SUBSET Nat
      OBVIOUS
    <3> HIDE DEF Bad
    <3> QED
      BY <2>1, <3>1, LeastNatural
  <2>3. m \in Nat /\ f[m] \notin Nat
    OBVIOUS
  <2>4. m # 0
    BY <1>4, <2>3
  <2>5. m - 1 \in Nat /\ ~(m <= m - 1)
    BY <2>3, <2>4
  <2>6. f[m - 1] \in Nat
    BY <2>2, <2>5
  <2>7. x * f[m - 1] \in Nat
    BY <2>6
  <2> QED
    BY <1>4, <2>3, <2>4, <2>7
<1> QED
  BY <1>1, <1>5

-----------------------------------------------------------------------------
LEMMA ExcessUncType ==
  ASSUME problem \in Problem, startWidth \in Int,
         NEW table \in BoundTable, NEW n \in Node, NEW depth \in Nat
  PROVE  ExcessUnc(table, n, depth) \in Int
<1> DEFINE c == pow(problem.discount, depth)
           d == pow(DiscountDen, depth)
           w == Width(table, n)
<1>1. problem.discount \in Nat /\ DiscountDen \in Nat
  BY DenominatorAssumption DEF Problem
<1>2. c \in Nat /\ d \in Nat
  BY <1>1, PowType
<1>3. w \in Int
  BY DEF Width, BoundTable
<1>4. ExcessUnc(table, n, depth) = 20 * c * w - 19 * d * startWidth
  BY DEF ExcessUnc
<1> HIDE DEF c, d, w
<1>5. 20 * c * w \in Int /\ 19 * d * startWidth \in Int
  BY <1>2, <1>3
<1> QED
  BY <1>4, <1>5

\* A trial stops at a node whose bounds are equal.
LEMMA ExactStops ==
  ASSUME problem \in Problem, startWidth \in Int, startWidth >= 0,
         NEW s \in Node, NEW depth \in Nat, bp.ub[s] = 0, bp.lb[s] = 0
  PROVE  StopsAt(s, depth)
<1> DEFINE c == pow(problem.discount, depth)
           d == pow(DiscountDen, depth)
<1>1. problem.discount \in Nat /\ DiscountDen \in Nat
  BY DenominatorAssumption DEF Problem
<1>2. c \in Nat /\ d \in Nat
  BY <1>1, PowType
<1>3. ExcessUnc(bp, s, depth) = 20 * c * 0 - 19 * d * startWidth
  BY DEF ExcessUnc, Width
<1> HIDE DEF c, d
<1>4. d * startWidth \in Nat
  BY <1>2
<1>5. 19 * d * startWidth = 19 * (d * startWidth) /\ 20 * c * 0 = 0
  BY <1>2
<1>6. 19 * (d * startWidth) \in Nat
  BY <1>4
<1> QED
  BY <1>3, <1>5, <1>6 DEF StopsAt

\* There is an outcome to follow: the assertion of trialRecurse.
LEMMA OutcomeExists ==
  ASSUME problem \in Problem, Distributed(problem), startWidth \in Int,
         NEW table \in BoundTable, NEW s \in Node, NEW a \in Action,
         NEW depth \in Nat
  PROVE  LET o == MaxExcessUncOutcome(table, s, a, depth)
         IN  o \in Edges(problem, s, a) /\ problem.next[s][a][o] \in Node
<1> DEFINE unc(x) == problem.prob[s][a][x]
                       * ExcessUnc(table, problem.next[s][a][x], depth + 1)
           E == Edges(problem, s, a)
           First(x) == \A y \in E : /\ unc(y) <= unc(x)
                                    /\ y < x => unc(y) < unc(x)
           o == MaxExcessUncOutcome(table, s, a, depth)
<1>1. /\ problem.prob[s][a] \in [Outcome -> 0 .. ProbDen]
      /\ problem.next[s][a] \in [Outcome -> Node]
      /\ problem.prob[s][a][0] + problem.prob[s][a][1] = ProbDen
      /\ 0 \in Outcome /\ 1 \in Outcome /\ depth + 1 \in Nat
  BY DEF Problem, Distributed, Outcome
<1>2. unc(0) \in Int /\ unc(1) \in Int
  <2>1. ASSUME NEW x \in Outcome PROVE unc(x) \in Int
    <3>1. problem.next[s][a][x] \in Node /\ problem.prob[s][a][x] \in Int
      BY <1>1, DenominatorAssumption
    <3>2. ExcessUnc(table, problem.next[s][a][x], depth + 1) \in Int
      BY <1>1, <3>1, ExcessUncType
    <3> QED
      BY <3>1, <3>2
  <2> QED
    BY <1>1, <2>1
<1>3. E \subseteq {0, 1} /\ E \subseteq Outcome /\ E # {}
  <2>1. E \subseteq Outcome
    BY DEF Edges
  <2>2. problem.prob[s][a][0] > 0 \/ problem.prob[s][a][1] > 0
    BY <1>1, DenominatorAssumption
  <2>3. 0 \in E \/ 1 \in E
    BY <1>1, <2>2 DEF Edges
  <2> QED
    BY <2>1, <2>3 DEF Outcome
<1>4. o = CHOOSE x \in E : First(x)
  BY DEF MaxExcessUncOutcome
<1> HIDE DEF unc, E, o
<1>5. \E x \in E : First(x)
  <2>1. CASE E = {0}
    BY <1>2, <2>1
  <2>2. CASE E = {1}
    BY <1>2, <2>2
  <2>3. CASE E = {0, 1} /\ unc(1) <= unc(0)
    <3>1. First(0)
      BY <1>2, <2>3
    <3> QED
      BY <2>3, <3>1
  <2>4. CASE E = {0, 1} /\ unc(0) < unc(1)
    <3>1. First(1)
      BY <1>2, <2>4
    <3> QED
      BY <2>4, <3>1
  <2>5. E = {0} \/ E = {1} \/ E = {0, 1}
    BY <1>3
  <2> QED
    BY <1>2, <2>1, <2>2, <2>3, <2>4, <2>5
<1>6. o \in E
  BY <1>4, <1>5
<1> QED
  BY <1>1, <1>3, <1>6 DEF E, o

-----------------------------------------------------------------------------
\* An update of a node that is not terminal keeps the table in order and every
\* bound on its side of the values.
LEMMA UpdateKeeps ==
  ASSUME NEW p \in Problems, NEW table \in BoundTable, Linked(p, table),
         Within(p, Value[p], table), TerminalsExact(p, table),
         NEW s \in table.lookup, ~p.terminal[s]
  PROVE  LET T == Update(p, table, s)
         IN  /\ T \in BoundTable
             /\ Linked(p, T)
             /\ table.lookup \subseteq T.lookup
             /\ s \in T.expanded
             /\ T.expanded \subseteq T.lookup
             /\ MaxUBAction(T, s) \in Action
             /\ Within(p, Value[p], T)
             /\ TerminalsExact(p, T)
<1> DEFINE T == Update(p, table, s)
           u == UBOf(p, table)
           l == LBOf(p, table)
           v == Value[p]
           bu == Best(p, u, s)
           bl == Best(p, l, s)
<1>1. /\ p \in Problem /\ Distributed(p) /\ v \in [Node -> Int]
      /\ v[s] = Best(p, v, s) /\ s \in Node /\ DualPointBounds
  <2>1. s \in Node /\ p \in Problem /\ Distributed(p) /\ v \in [Node -> Int] /\ IsValue(p, v)
    BY ProblemFacts DEF BoundTable
  <2> HIDE DEF v
  <2>2. v[s] = Best(p, v, s)
    BY <2>1 DEF IsValue, Best, Backups
  <2> QED
    BY <2>1, <2>2, HSVIAssumption
<1>2. /\ T \in BoundTable /\ table.lookup \subseteq T.lookup
      /\ T.expanded = table.expanded \cup {s} /\ Linked(p, T)
      /\ \A n \in Node \ {s} : T.qub[n] = table.qub[n]
  BY <1>1, TableAfterUpdate
<1>3. /\ T.qub[s] = Backups(p, u, s)
      /\ UBOf(p, T) = [u EXCEPT ![s] = IF bu < u[s] THEN bu ELSE u[s]]
      /\ LBOf(p, T) = [l EXCEPT ![s] = IF bl > l[s] THEN bl ELSE l[s]]
  BY <1>1, UpdateOfBoth
<1>4. /\ u \in [Node -> Int] /\ l \in [Node -> Int]
      /\ \A n \in Node : l[n] <= v[n] /\ v[n] <= u[n]
  BY <1>1, BoundsType DEF Within
<1>5. /\ bu \in Int /\ bl \in Int /\ bl <= v[s] /\ v[s] <= bu
  <2> HIDE DEF u, l, v
  <2> QED
    BY <1>1, <1>4, BestProperties, BestMonotone
<1>6. MaxUBAction(T, s) \in Action
  <2> HIDE DEF u
  <2> QED
    BY <1>1, <1>3, <1>4, BestProperties DEF MaxUBAction
<1>7. ASSUME NEW n \in T.expanded, NEW a \in Action
      PROVE  Backup(p, v, n, a) <= T.qub[n][a]
  <2>1. CASE n = s
    <3>1. Backup(p, v, s, a) <= Backup(p, u, s, a)
      <4>1. \A x \in Successors(p, s, a) : v[x] <= u[x]
        BY <1>1, <1>4, SuccessorsType
      <4> HIDE DEF u, v
      <4> QED
        BY <1>1, <1>4, <4>1, BackupMonotone
    <3>2. T.qub[s][a] = Backup(p, u, s, a)
      BY <1>3 DEF Backups
    <3> QED
      BY <2>1, <3>1, <3>2
  <2>2. CASE n # s
    <3>1. n \in table.expanded /\ n \in Node /\ T.qub[n] = table.qub[n]
      BY <1>2, <2>2 DEF BoundTable
    <3> QED
      BY <3>1 DEF Within
  <2> QED
    BY <2>1, <2>2
<1> HIDE DEF T, u, l, v, bu, bl
<1>8. \A n \in Node : LBOf(p, T)[n] <= v[n] /\ v[n] <= UBOf(p, T)[n]
  BY <1>1, <1>3, <1>4, <1>5
<1>9. Within(p, v, T)
  BY <1>7, <1>8 DEF Within
<1>10. ASSUME NEW n \in T.lookup, p.terminal[n]
       PROVE  T.ub[n] = 0 /\ T.lb[n] = 0
  <2>1. n # s /\ n \in Node
    BY <1>2, <1>10 DEF BoundTable
  <2>2. T.ub[n] = u[n] /\ T.lb[n] = l[n]
    <3>1. T.ub[n] = UBOf(p, T)[n] /\ T.lb[n] = LBOf(p, T)[n]
      BY <2>1 DEF UBOf, LBOf
    <3> QED
      BY <1>3, <1>4, <2>1, <3>1
  <2>3. u[n] = 0 /\ l[n] = 0
    BY <1>1, <1>10, <2>1 DEF u, l, UBOf, LBOf, InitUB, InitLB, TerminalsExact
  <2> QED
    BY <2>2, <2>3
<1> QED
  BY <1>2, <1>6, <1>9, <1>10 DEF TerminalsExact, Linked, T, v

\* Looking up a node keeps them, too.
LEMMA GetNodeKeeps ==
  ASSUME NEW p \in Problems, NEW table \in BoundTable, Linked(p, table),
         Within(p, Value[p], table), TerminalsExact(p, table), NEW s \in Node
  PROVE  LET T == GetNodes(p, table, {s})
         IN  /\ T \in BoundTable
             /\ Linked(p, T)
             /\ T.lookup = table.lookup \cup {s}
             /\ Within(p, Value[p], T)
             /\ TerminalsExact(p, T)
             /\ Width(T, s) >= 0
<1> DEFINE T == GetNodes(p, table, {s})
<1>1. /\ p \in Problem /\ Value[p] \in [Node -> Int] /\ DualPointBounds
  BY ProblemFacts, HSVIAssumption
<1>2. /\ T \in BoundTable /\ T.lookup = table.lookup \cup {s}
      /\ T.expanded = table.expanded /\ T.qub = table.qub
  BY <1>1, GetNodesProperties
<1>3. UBOf(p, T) = UBOf(p, table) /\ LBOf(p, T) = LBOf(p, table)
  BY <1>1, GetNodesKeepsBounds
<1> HIDE DEF T
<1>4. Linked(p, T) /\ Within(p, Value[p], T)
  BY <1>2, <1>3 DEF Linked, Within
<1>5. \A n \in T.lookup : n \in Node /\ T.ub[n] = UBOf(p, table)[n] /\ T.lb[n] = LBOf(p, table)[n]
  <2>1. \A n \in T.lookup : n \in Node /\ T.ub[n] = UBOf(p, T)[n] /\ T.lb[n] = LBOf(p, T)[n]
    BY <1>2 DEF UBOf, LBOf, BoundTable
  <2> QED
    BY <1>3, <2>1
<1>6. TerminalsExact(p, T)
  <2>1. ASSUME NEW n \in T.lookup, p.terminal[n]
        PROVE  UBOf(p, table)[n] = 0 /\ LBOf(p, table)[n] = 0
    <3>1. n \in Node
      BY <1>5
    <3> QED
      BY <1>1, <2>1, <3>1 DEF UBOf, LBOf, InitUB, InitLB, TerminalsExact
  <2> QED
    BY <1>5, <2>1 DEF TerminalsExact
<1>7. Width(T, s) >= 0
  <2>1. T.ub[s] \in Int /\ T.lb[s] \in Int /\ Value[p][s] \in Int
    BY <1>1, <1>2 DEF BoundTable
  <2>2. T.lb[s] <= Value[p][s] /\ Value[p][s] <= T.ub[s]
    BY <1>2, <1>5 DEF Within
  <2> QED
    BY <2>1, <2>2 DEF Width
<1> QED
  BY <1>2, <1>4, <1>6, <1>7 DEF T

-----------------------------------------------------------------------------
LEMMA InitIInv == Init => IInv
<1> SUFFICES ASSUME Init PROVE IInv
  OBVIOUS
<1> DEFINE p == problem
           v == Value[p]
<1>1. /\ p \in Problems /\ p \in Problem /\ v \in [Node -> Int]
      /\ IsValue(p, v) /\ ValidHeuristics(p, v) /\ DualPointBounds
  BY ProblemFacts, HSVIAssumption DEF Init
<1>2. EmptyTable \in BoundTable /\ EmptyTable.lookup = {} /\ EmptyTable.expanded = {}
  BY BoundPairAssumption DEF EmptyTable, BoundTable
<1>3. TypeOK /\ ToSet(stack) = {}
  BY <1>1, <1>2, EmptyStack DEF Init, TypeOK
<1>4. ASSUME NEW n \in Node
      PROVE  LBOf(p, bp)[n] <= v[n] /\ v[n] <= UBOf(p, bp)[n]
  <2>1. /\ LBOf(p, bp)[n] = IF p.terminal[n] THEN 0 ELSE p.lower[n]
        /\ UBOf(p, bp)[n] = IF p.terminal[n] THEN 0 ELSE p.upper[n]
    BY <1>1, <1>2 DEF Init, LBOf, UBOf, InitLB, InitUB
  <2>2. p.terminal[n] => v[n] = 0
    BY <1>1 DEF IsValue
  <2>3. ~p.terminal[n] => p.lower[n] <= v[n] /\ v[n] <= p.upper[n]
    BY <1>1 DEF ValidHeuristics
  <2> HIDE DEF v, p
  <2> QED
    BY <2>1, <2>2, <2>3
<1>5. Within(p, v, bp)
  BY <1>2, <1>4 DEF Within, Init
<1>6. Linked(p, bp) /\ TerminalsExact(p, bp)
  BY <1>2 DEF Init, Linked, TerminalsExact
<1> QED
  BY <1>1, <1>3, <1>5, <1>6 DEF Init, IInv

LEMMA PlanFixedTimeIInv ==
  ASSUME IInv, PlanFixedTime
  PROVE  IInv'
<1> DEFINE root == problem.initial
           T    == GetNodes(problem, bp, {root})
<1>1. /\ problem \in Problems /\ problem \in Problem /\ bp \in BoundTable
      /\ Linked(problem, bp) /\ Within(problem, Value[problem], bp) /\ TerminalsExact(problem, bp)
      /\ root \in Node
  BY ProblemFacts DEF IInv, TypeOK, Problem
<1>2. /\ bp' = T /\ problem' = problem /\ stack' = <<root>>
      /\ pc' = "trialRecurse" /\ startWidth' = Width(T, root)
  BY DEF PlanFixedTime
<1> HIDE DEF root
<1>3. /\ T \in BoundTable /\ Linked(problem, T)
      /\ T.lookup = bp.lookup \cup {root}
      /\ Within(problem, Value[problem], T) /\ TerminalsExact(problem, T)
      /\ Width(T, root) >= 0
  <2>1. PICK p \in Problems : p = problem
    BY <1>1
  <2>2. PICK table \in BoundTable : table = bp
    BY <1>1
  <2>3. Linked(p, table) /\ Within(p, Value[p], table) /\ TerminalsExact(p, table)
    BY <1>1, <2>1, <2>2
  <2>4. T = GetNodes(p, table, {root})
    BY <2>1, <2>2
  <2> HIDE DEF T
  <2> QED
    BY <1>1, <2>1, <2>2, <2>3, <2>4, GetNodeKeeps
<1> HIDE DEF T
<1>4. Width(T, root) \in Int
  BY <1>1, <1>3 DEF Width, BoundTable
<1>5. stack' \in Seq(Node) /\ stack' # <<>> /\ ToSet(stack') = {root}
  BY <1>1, <1>2 DEF ToSet
<1>6. Front(stack') = <<>>
  <2>1. Len(stack') = 1
    BY <1>2
  <2> QED
    BY <1>5, <2>1, PopProperties
<1>7. ToSet(Front(stack')) = {}
  BY <1>6, EmptyStack
<1>8. TypeOK'
  BY <1>1, <1>2, <1>3, <1>4, <1>5 DEF TypeOK
<1> QED
  BY <1>1, <1>2, <1>3, <1>5, <1>7, <1>8 DEF IInv, NoneTerminal

\* A step that updates the node on top of the stack, which is not terminal.
LEMMA StepUpdates ==
  ASSUME IInv, stack # <<>>, ~problem.terminal[Last(stack)],
         UpdateNode(Last(stack)), UNCHANGED problem
  PROVE  /\ problem' \in Problems /\ problem' \in Problem
         /\ bp' \in BoundTable /\ Linked(problem', bp')
         /\ Last(stack) \in bp'.expanded /\ Last(stack) \in Node
         /\ MaxUBAction(bp', Last(stack)) \in Action
         /\ Within(problem', Value[problem'], bp') /\ TerminalsExact(problem', bp')
         /\ ToSet(stack) \subseteq bp'.lookup
<1>1. /\ problem \in Problems /\ problem \in Problem /\ bp \in BoundTable
      /\ stack \in Seq(Node) /\ Linked(problem, bp)
      /\ Within(problem, Value[problem], bp) /\ TerminalsExact(problem, bp)
      /\ ToSet(stack) \subseteq bp.lookup
  BY DEF IInv, TypeOK
<1>2. Last(stack) \in Node /\ Last(stack) \in bp.lookup
  BY <1>1, PopProperties
<1>3. bp' = Update(problem, bp, Last(stack)) /\ problem' = problem
  BY DEF UpdateNode
<1>4. LET T == Update(problem, bp, Last(stack))
      IN  /\ T \in BoundTable
          /\ Linked(problem, T)
          /\ bp.lookup \subseteq T.lookup
          /\ Last(stack) \in T.expanded
          /\ MaxUBAction(T, Last(stack)) \in Action
          /\ Within(problem, Value[problem], T)
          /\ TerminalsExact(problem, T)
  BY <1>1, <1>2, UpdateKeeps
<1> QED
  BY <1>1, <1>2, <1>3, <1>4

LEMMA NextIInv == IInv /\ [Next]_vars => IInv'
<1> SUFFICES ASSUME IInv, [Next]_vars PROVE IInv'
  OBVIOUS
<1>t. /\ problem \in Problem /\ bp \in BoundTable /\ stack \in Seq(Node)
      /\ startWidth \in Int /\ startWidth >= 0
  BY DEF IInv, TypeOK
<1>1. CASE PlanFixedTime
  BY <1>1, PlanFixedTimeIInv
<1>2. CASE TrialEnds
  <2>1. /\ pc = "trialRecurse" /\ stack # <<>> /\ NoneTerminal(Front(stack))
        /\ stack' = Front(stack) /\ pc' = "return"
        /\ UNCHANGED <<problem, bp, startWidth>>
    BY <1>2 DEF TrialEnds, IInv
  <2>2. Front(stack) \in Seq(Node) /\ ToSet(Front(stack)) \subseteq ToSet(stack)
    BY <1>t, <2>1, PopProperties
  <2>3. TypeOK'
    BY <2>1, <2>2 DEF IInv, TypeOK
  <2> QED
    BY <2>1, <2>2, <2>3 DEF IInv, NoneTerminal
<1>3. CASE TrialStep
  <2> DEFINE s == Last(stack)
             depth == Len(stack) - 1
             a == MaxUBAction(bp', s)
             o == MaxExcessUncOutcome(bp', s, a, depth)
             n == problem.next[s][a][o]
  <2>1. /\ pc = "trialRecurse" /\ stack # <<>> /\ NoneTerminal(Front(stack))
        /\ UpdateNode(s) /\ stack' = Append(stack, n) /\ pc' = pc
        /\ problem' = problem /\ startWidth' = startWidth /\ ~StopsAt(s, depth)
    BY <1>3 DEF TrialStep, IInv
  <2>2. depth \in Nat
    <3>1. Len(stack) \in Nat \ {0}
      BY <1>t, <2>1
    <3> QED
      BY <3>1
  <2>3. s \in Node /\ s \in bp.lookup /\ ToSet(stack) = ToSet(Front(stack)) \cup {s}
    BY <1>t, <2>1, PopProperties DEF IInv
  <2>4. ~problem.terminal[s]
    <3>1. SUFFICES ASSUME problem.terminal[s] PROVE FALSE
      OBVIOUS
    <3>2. bp.ub[s] = 0 /\ bp.lb[s] = 0
      BY <2>3, <3>1 DEF IInv, TerminalsExact
    <3> QED
      BY <1>t, <2>1, <2>2, <2>3, <3>2, ExactStops
  <2>5. /\ problem' \in Problems /\ bp' \in BoundTable /\ Linked(problem', bp')
        /\ s \in bp'.expanded /\ a \in Action
        /\ Within(problem', Value[problem'], bp') /\ TerminalsExact(problem', bp')
        /\ ToSet(stack) \subseteq bp'.lookup
    BY <2>1, <2>4, StepUpdates
  <2>6. o \in Edges(problem, s, a) /\ n \in Node
    BY <1>t, <2>1, <2>2, <2>3, <2>5, ProblemFacts, OutcomeExists
  <2> HIDE DEF o, a, s
  <2>7. n \in bp'.lookup
    <3>1. n \in Successors(problem, s, a)
      BY <2>6 DEF Successors
    <3> QED
      BY <2>1, <2>5, <3>1 DEF Linked
  <2> HIDE DEF n
  <2>8. /\ stack' \in Seq(Node) /\ stack' # <<>>
        /\ ToSet(stack') = ToSet(stack) \cup {n}
    BY <1>t, <2>1, <2>6, PushProperties
  <2>9. Front(stack') = stack
    BY <1>t, <2>1, <2>6 DEF Front
  <2>10. NoneTerminal(Front(stack))'
    BY <2>1, <2>3, <2>4, <2>9 DEF NoneTerminal
  <2>11. TypeOK'
    BY <1>t, <2>1, <2>5, <2>8 DEF IInv, TypeOK
  <2> QED
    BY <1>t, <2>1, <2>5, <2>7, <2>8, <2>9, <2>10, <2>11 DEF IInv, NoneTerminal
<1>4. CASE TrialReturns
  <2>1. /\ pc = "return" /\ stack # <<>> /\ NoneTerminal(stack)
        /\ UpdateNode(Last(stack)) /\ stack' = Front(stack) /\ pc' = pc
        /\ problem' = problem /\ startWidth' = startWidth
    BY <1>4 DEF TrialReturns, IInv
  <2>2. /\ Front(stack) \in Seq(Node) /\ Last(stack) \in ToSet(stack)
        /\ ToSet(stack) = ToSet(Front(stack)) \cup {Last(stack)}
    BY <1>t, <2>1, PopProperties
  <2>3. ~problem.terminal[Last(stack)]
    BY <2>1, <2>2 DEF NoneTerminal
  <2>4. /\ problem' \in Problems /\ bp' \in BoundTable /\ Linked(problem', bp')
        /\ Within(problem', Value[problem'], bp') /\ TerminalsExact(problem', bp')
        /\ ToSet(stack) \subseteq bp'.lookup
    BY <2>1, <2>3, StepUpdates
  <2>5. TypeOK'
    BY <1>t, <2>1, <2>2, <2>4 DEF IInv, TypeOK
  <2> QED
    BY <1>t, <2>1, <2>2, <2>4, <2>5 DEF IInv, NoneTerminal
<1>5. CASE EndTrial
  <2>1. /\ UNCHANGED <<problem, bp, stack, startWidth>>
        /\ pc' \in {"done", "planFixedTime"}
    BY <1>5 DEF EndTrial
  <2> QED
    BY <2>1 DEF IInv, TypeOK
<1>6. CASE UNCHANGED vars
  BY <1>6 DEF vars, IInv, TypeOK, NoneTerminal
<1> QED
  BY <1>1, <1>2, <1>3, <1>4, <1>5, <1>6 DEF Next

LEMMA Invariance == Spec => []IInv
BY InitIInv, NextIInv, PTL DEF Spec

-----------------------------------------------------------------------------
\* The variables of the solver keep their types.
THEOREM TypeCorrect == Spec => []TypeOK
<1>1. IInv => TypeOK
  BY DEF IInv
<1> QED
  BY <1>1, Invariance, PTL

\* Every bound, and every cached Q value, stays on its side of the values of
\* the problem, in whatever order trials update the nodes.
THEOREM BoundsBracket == Spec => []Bracket
<1>1. ASSUME IInv PROVE Bracket
  <2> DEFINE v == Value[problem]
  <2>1. /\ problem \in Problem /\ bp \in BoundTable
        /\ Linked(problem, bp) /\ Within(problem, v, bp)
    BY <1>1 DEF IInv, TypeOK
  <2>2. ASSUME NEW n \in bp.lookup
        PROVE  v[n] <= bp.ub[n] /\ bp.lb[n] <= v[n]
    <3>1. n \in Node
      BY <2>1 DEF BoundTable
    <3>2. UBOf(problem, bp)[n] = bp.ub[n] /\ LBOf(problem, bp)[n] = bp.lb[n]
      BY <3>1 DEF UBOf, LBOf
    <3> QED
      BY <2>1, <3>1, <3>2 DEF Within
  <2>3. \A n \in bp.expanded, a \in Action : Backup(problem, v, n, a) <= bp.qub[n][a]
    BY <2>1 DEF Within
  <2> QED
    BY <2>2, <2>3 DEF Bracket, Bracketed
<1> QED
  BY <1>1, Invariance, PTL

-----------------------------------------------------------------------------
(***************************************************************************)
(* The update of an upper bound.  For any number of actions and any        *)
(* values, the lazy backup of module UseCacheLoop finds the best value a   *)
(* full backup would find, and leaves the Q values that the operator       *)
(* UseCache, with which HSVI and the other strategies update their nodes,  *)
(* describes in closed form.                                               *)
(***************************************************************************)
\* The arrays in the closed form of UseCache.
Mixed(U) == [a \in Action |-> IF a \in U THEN fresh[a] ELSE cached[a]]

Before(a) == {b \in Action : \/ cached[b] > cached[a]
                             \/ cached[b] = cached[a] /\ b < a}

LoopInv ==
  /\ LoopTypeOK
  /\ FreshWhereUpdated
  /\ maxUBAction = MaxAction(cachedUpperBound)
  /\ running <=> maxUBAction \notin updatedAction
  \* the actions updated are the first ones in the order of cached values
  /\ \A a \in updatedAction, b \in Action \ updatedAction : a \in Before(b)
  \* and each was the best once those before it were fresh
  /\ \A a \in updatedAction : MaxAction(Mixed(Before(a))) = a

LEMMA LoopTypes == LoopTypeOK => /\ cached \in [Action -> Int]
                         /\ fresh \in [Action -> Int]
                         /\ cachedUpperBound \in [Action -> Int]
BY ValuesAssumption DEF LoopTypeOK

LEMMA LoopInitInv == LoopInit => LoopInv
<1> SUFFICES ASSUME LoopInit PROVE LoopInv
  OBVIOUS
<1>1. cached \in [Action -> Int]
  BY ValuesAssumption DEF LoopInit
<1>2. MaxAction(cached) \in Action
  BY <1>1, MaxActionProperties
<1> QED
  BY <1>2 DEF LoopInit, LoopInv, LoopTypeOK, FreshWhereUpdated

\* Before a pass, the actions updated are those before the best one.
LEMMA UpdatedIsBefore ==
  ASSUME LoopInv, running
  PROVE  Before(maxUBAction) = updatedAction
<1>1. /\ maxUBAction \in Action \ updatedAction
      /\ updatedAction \subseteq Action
      /\ \A a \in updatedAction : a \in Before(maxUBAction)
  BY DEF LoopInv, LoopTypeOK
<1>2. ASSUME NEW b \in Action \ updatedAction PROVE b \notin Before(maxUBAction)
  <2>1. /\ cachedUpperBound[b] <= cachedUpperBound[maxUBAction]
        /\ b < maxUBAction =>
             cachedUpperBound[b] < cachedUpperBound[maxUBAction]
    BY LoopTypes, MaxActionProperties DEF LoopInv
  <2>2. /\ cachedUpperBound[b] = cached[b]
        /\ cachedUpperBound[maxUBAction] = cached[maxUBAction]
    BY <1>1 DEF LoopInv, FreshWhereUpdated
  <2>3. cached[b] \in Int /\ cached[maxUBAction] \in Int
    BY <1>1, LoopTypes DEF LoopInv
  <2> QED
    BY <2>1, <2>2, <2>3 DEF Before
<1> QED
  BY <1>1, <1>2 DEF Before

LEMMA LoopNextInv == LoopInv /\ [LoopNext]_loopVars => LoopInv'
<1> SUFFICES ASSUME LoopInv, [LoopNext]_loopVars PROVE LoopInv'
  OBVIOUS
<1>1. CASE UNCHANGED loopVars
  BY <1>1 DEF loopVars, LoopInv, LoopTypeOK, FreshWhereUpdated, Mixed, Before
<1>2. CASE Pass
  <2>1. /\ running
        /\ cachedUpperBound' = [cachedUpperBound EXCEPT ![maxUBAction] = fresh[maxUBAction]]
        /\ updatedAction' = updatedAction \cup {maxUBAction}
        /\ maxUBAction' = MaxAction(cachedUpperBound')
        /\ running' = (maxUBAction' \notin updatedAction')
        /\ cached' = cached /\ fresh' = fresh
    BY <1>2 DEF Pass, Store, GoesOn
  <2>2. LoopTypeOK /\ maxUBAction \in Action \ updatedAction
    BY <2>1 DEF LoopInv, LoopTypeOK
  <2>3. cachedUpperBound' \in [Action -> Values]
    BY <2>1, <2>2 DEF LoopTypeOK
  <2>4. maxUBAction' \in Action
    <3>1. cachedUpperBound' \in [Action -> Int]
      BY <2>3, ValuesAssumption
    <3> QED
      BY <2>1, <3>1, MaxActionProperties
  <2>5. LoopTypeOK'
    BY <2>1, <2>2, <2>3, <2>4 DEF LoopTypeOK
  <2>6. FreshWhereUpdated'
    BY <2>1, <2>2 DEF LoopInv, LoopTypeOK, FreshWhereUpdated
  <2>7. Before(maxUBAction) = updatedAction
    BY <2>1, UpdatedIsBefore
  <2>8. ASSUME NEW b \in Action \ updatedAction', NEW a \in updatedAction'
        PROVE  a \in Before(b)
    <3>1. CASE a \in updatedAction
      BY <2>1, <2>8, <3>1 DEF LoopInv
    <3>2. CASE a = maxUBAction
      <4>1. b \in Action /\ b # maxUBAction /\ b \notin Before(maxUBAction)
        BY <2>1, <2>7
      <4>2. cached[b] \in Int /\ cached[maxUBAction] \in Int
        BY <2>2, <4>1, LoopTypes
      <4>3. b \in Int /\ maxUBAction \in Int
        BY <2>2, <4>1 DEF Action
      <4> QED
        BY <2>2, <3>2, <4>1, <4>2, <4>3 DEF Before
    <3> QED
      BY <2>1, <3>1, <3>2
  <2>9. MaxAction(Mixed(Before(maxUBAction))) = maxUBAction
    <3>1. Mixed(updatedAction) = cachedUpperBound
      BY DEF LoopInv, LoopTypeOK, FreshWhereUpdated, Mixed
    <3> QED
      BY <2>7, <3>1 DEF LoopInv
  <2>10. \A a \in updatedAction' : MaxAction(Mixed(Before(a))) = a
    BY <2>1, <2>9 DEF LoopInv
  <2>11. /\ \A a \in updatedAction', b \in Action \ updatedAction' : a \in Before(b)'
         /\ \A a \in updatedAction' : MaxAction(Mixed(Before(a))') = a
    BY <2>1, <2>8, <2>10 DEF Before, Mixed
  <2> QED
    BY <2>1, <2>5, <2>6, <2>11 DEF LoopInv
<1> QED
  BY <1>1, <1>2 DEF LoopNext

LEMMA LoopInvImpliesExact == LoopInv => Exact
<1> SUFFICES ASSUME LoopInv, ~running, \A a \in Action : fresh[a] <= cached[a],
                    NEW a \in Action
             PROVE  /\ maxUBAction \in updatedAction
                    /\ fresh[a] <= cachedUpperBound[maxUBAction]
  BY DEF Exact, LoopInv
<1>1. /\ cachedUpperBound[a] <= cachedUpperBound[maxUBAction]
      /\ maxUBAction \in updatedAction
      /\ maxUBAction \in Action
  BY LoopTypes, MaxActionProperties DEF LoopInv, LoopTypeOK
<1>2. fresh[a] <= cachedUpperBound[a]
  BY LoopTypes DEF LoopInv, FreshWhereUpdated
<1>3. /\ fresh[a] \in Int /\ cachedUpperBound[a] \in Int
      /\ cachedUpperBound[maxUBAction] \in Int
  BY <1>1, LoopTypes DEF LoopInv
<1> QED
  BY <1>1, <1>2, <1>3

LEMMA LoopInvImpliesUseCache == LoopInv => ImplementsUseCache
<1> SUFFICES ASSUME LoopInv, ~running
             PROVE  cachedUpperBound = UseCache(cached, fresh)
  BY DEF ImplementsUseCache
<1> DEFINE U == {a \in Action : MaxAction(Mixed(Before(a))) = a}
<1>1. UseCache(cached, fresh) = Mixed(U)
  BY DEF UseCache, Mixed, Before
<1>2. LoopTypeOK /\ maxUBAction \in updatedAction
  BY DEF LoopInv
<1>3. ASSUME NEW b \in Action, b \notin updatedAction
      PROVE  MaxAction(Mixed(Before(b))) # b
  <2> DEFINE r == Mixed(Before(b))
  <2>1. r \in [Action -> Int]
    BY <1>2, LoopTypes DEF Mixed
  <2>2. maxUBAction \in Action /\ maxUBAction \in Before(b) /\ b \notin Before(b)
    BY <1>2, <1>3, LoopTypes DEF LoopInv, LoopTypeOK, Before, Action
  <2>3. r[maxUBAction] = cachedUpperBound[maxUBAction] /\ r[b] = cachedUpperBound[b]
    BY <1>2, <1>3, <2>2 DEF LoopInv, FreshWhereUpdated, Mixed
  <2>4. /\ cachedUpperBound[b] <= cachedUpperBound[maxUBAction]
        /\ b < maxUBAction =>
             cachedUpperBound[b] < cachedUpperBound[maxUBAction]
    BY LoopTypes, MaxActionProperties DEF LoopInv
  <2>5. SUFFICES ASSUME MaxAction(r) = b PROVE FALSE
    OBVIOUS
  <2> HIDE DEF r
  <2>6. /\ r[maxUBAction] <= r[b]
        /\ maxUBAction < b => r[maxUBAction] < r[b]
    BY <2>1, <2>2, <2>5, MaxActionProperties
  <2>7. /\ b \in Int /\ maxUBAction \in Int /\ b # maxUBAction
        /\ r[b] \in Int /\ r[maxUBAction] \in Int
    BY <1>2, <1>3, <2>1, <2>2 DEF Action
  <2> QED
    BY <2>3, <2>4, <2>6, <2>7
<1>4. U = updatedAction
  BY <1>2, <1>3 DEF LoopInv, LoopTypeOK
<1> HIDE DEF U
<1> QED
  BY <1>1, <1>2, <1>4 DEF LoopInv, LoopTypeOK, FreshWhereUpdated, Mixed

LEMMA LoopInvariance == LoopSpec => []LoopInv
<1> QED
  BY LoopInitInv, LoopNextInv, PTL DEF LoopSpec

\* The lazy backup is as good as a full one: when no value rises, the best
\* value it leaves is the best of all fresh values, for any problem.
THEOREM LazyBackupExact == LoopSpec => []Exact
<1> QED
  BY LoopInvariance, LoopInvImpliesExact, PTL

\* The closed form by which the models of the search strategies update the Q
\* values of a node is what the loop computes.
THEOREM LazyBackupClosedForm == LoopSpec => []ImplementsUseCache
<1> QED
  BY LoopInvariance, LoopInvImpliesUseCache, PTL

\* No action is backed up twice in one update.
THEOREM LazyBackupNoRepeat == LoopSpec => [](LoopTypeOK /\ NoRepeat)
<1>1. LoopInv => LoopTypeOK /\ NoRepeat
  BY DEF LoopInv, NoRepeat
<1> QED
  BY <1>1, LoopInvariance, PTL

-----------------------------------------------------------------------------
\* The relaxed heuristic, which upper bounds may begin with, on any problem whose
\* relaxation has values.

CONSTANTS RelaxProblems, Relaxed, MinusInfinity

VARIABLES relaxProblem, lookup, expanded, calls, relaxPc

Relax == INSTANCE RelaxUB WITH
           Problems <- RelaxProblems, problem <- relaxProblem, stack <- calls, pc <- relaxPc

\* What RelaxUB assumes of its constants.
RelaxAssumption ==
  /\ NumActions \in Nat /\ NumActions > 1
  /\ \A p \in RelaxProblems : Relax!IsProblem(p)
  /\ \A p \in RelaxProblems : Relax!IsRelaxedValue(p, Relaxed[p])
  /\ MinusInfinity \in Int

NodeBounds  == [lbVal : Int, ubVal : Int]
Calls(p)    == [s : DOMAIN p.next, costSoFar : Int, altActionPrio : Int]

\* The bounds of the nodes in a table bracket the values of the relaxed problem.
Brackets(p, nodes) ==
  /\ DOMAIN nodes \subseteq DOMAIN p.next
  /\ nodes \in [DOMAIN nodes -> NodeBounds]
  /\ \A x \in DOMAIN nodes :
       nodes[x].lbVal <= Relaxed[p][x] /\ Relaxed[p][x] <= nodes[x].ubVal

RelaxInv ==
  /\ relaxProblem \in RelaxProblems
  /\ Brackets(relaxProblem, lookup)
  /\ calls \in Seq(Calls(relaxProblem))
  /\ relaxPc = "call" => calls # <<>>

\* What is at the end of an edge.
RelaxNext(s, a) == relaxProblem.next[s][a]

\* What an edge to a state of value v gives.
RelaxGain(s, a, v) ==
  relaxProblem.reward[s][a] + ((relaxProblem.discount * v) \div DiscountDen)

LEMMA RelaxFacts ==
  ASSUME RelaxAssumption, relaxProblem \in RelaxProblems, NEW s \in DOMAIN relaxProblem.next
  PROVE  /\ \A a \in Relax!Action :
              /\ RelaxNext(s, a) \in Seq(DOMAIN relaxProblem.next) \ {<<>>}
              /\ relaxProblem.reward[s][a] \in Int
              /\ \A v \in Int : RelaxGain(s, a, v) \in Int
              /\ \A v, w \in Int : v <= w => RelaxGain(s, a, v) <= RelaxGain(s, a, w)
         /\ relaxProblem.lower[s] \in Int /\ relaxProblem.upper[s] \in Int
         /\ Relaxed[relaxProblem] \in [DOMAIN relaxProblem.next -> Int]
         /\ relaxProblem.lower[s] <= Relaxed[relaxProblem][s]
         /\ Relaxed[relaxProblem][s] <= relaxProblem.upper[s]
         /\ \E a \in Relax!Action : \E i \in DOMAIN RelaxNext(s, a) :
              Relaxed[relaxProblem][s] =
                RelaxGain(s, a, Relaxed[relaxProblem][RelaxNext(s, a)[i]])
         /\ \A a \in Relax!Action : \A i \in DOMAIN RelaxNext(s, a) :
              RelaxGain(s, a, Relaxed[relaxProblem][RelaxNext(s, a)[i]])
                <= Relaxed[relaxProblem][s]
<1>1. /\ Relax!IsProblem(relaxProblem)
      /\ Relax!IsRelaxedValue(relaxProblem, Relaxed[relaxProblem])
  BY DEF RelaxAssumption
<1>2. relaxProblem.discount \in Nat /\ DiscountDen \in Nat \ {0}
  BY <1>1, DenominatorAssumption DEF Relax!IsProblem
<1>3. ASSUME NEW a \in Relax!Action
      PROVE  /\ RelaxNext(s, a) \in Seq(DOMAIN relaxProblem.next) \ {<<>>}
             /\ relaxProblem.reward[s][a] \in Int
  BY <1>1 DEF Relax!IsProblem, RelaxNext
<1>4. ASSUME NEW a \in Relax!Action, NEW v \in Int
      PROVE  RelaxGain(s, a, v) \in Int
  <2>1. PICK w : w = relaxProblem.discount * v
    OBVIOUS
  <2>2. w \in Int /\ w \div DiscountDen \in Int
    BY <1>2, <2>1
  <2> QED
    BY <1>3, <2>1, <2>2 DEF RelaxGain
<1>5. ASSUME NEW a \in Relax!Action, NEW v \in Int, NEW w \in Int, v <= w
      PROVE  RelaxGain(s, a, v) <= RelaxGain(s, a, w)
  <2>1. PICK x \in Int, y \in Int :
          x = relaxProblem.discount * v /\ y = relaxProblem.discount * w
    BY <1>2
  <2>2. x <= y
    BY <1>2, <1>5, <2>1, TimesMonotone
  <2>3. x \div DiscountDen <= y \div DiscountDen + 0
    BY <1>2, <2>2, DivMonotone
  <2>4. x \div DiscountDen \in Int /\ y \div DiscountDen \in Int
    BY <1>2
  <2> QED
    BY <1>3, <2>1, <2>3, <2>4 DEF RelaxGain
<1>6. /\ Relaxed[relaxProblem] \in [DOMAIN relaxProblem.next -> Int]
      /\ relaxProblem.lower[s] <= Relaxed[relaxProblem][s]
      /\ Relaxed[relaxProblem][s] <= relaxProblem.upper[s]
      /\ \E a \in Relax!Action : \E i \in DOMAIN RelaxNext(s, a) :
           Relaxed[relaxProblem][s] =
             RelaxGain(s, a, Relaxed[relaxProblem][RelaxNext(s, a)[i]])
      /\ \A a \in Relax!Action : \A i \in DOMAIN RelaxNext(s, a) :
           RelaxGain(s, a, Relaxed[relaxProblem][RelaxNext(s, a)[i]])
             <= Relaxed[relaxProblem][s]
  BY <1>1, Zenon DEF Relax!IsRelaxedValue, RelaxGain, RelaxNext
<1>7. relaxProblem.lower[s] \in Int /\ relaxProblem.upper[s] \in Int
  BY <1>1 DEF Relax!IsProblem
<1> QED
  BY <1>3, <1>4, <1>5, <1>6, <1>7

\* The maximum of a list of numbers is one of them.
LEMMA BestOfList ==
  ASSUME NEW f, NEW n \in Nat \ {0}, f \in [1 .. n -> Int]
  PROVE  /\ \E i \in 1 .. n : Relax!Best(f) = f[i]
         /\ \A i \in 1 .. n : f[i] <= Relax!Best(f)
<1> DEFINE g == [k \in 0 .. n - 1 |-> f[k + 1]]
<1>1. n - 1 \in Nat /\ g \in [0 .. n - 1 -> Int]
  OBVIOUS
<1>2. PICK m \in 0 .. n - 1 : FirstMax(g, n - 1, m)
  <2> HIDE DEF g
  <2> QED
    BY <1>1, FirstMaxExists
<1>3. PICK i \in 1 .. n : \A j \in 1 .. n : f[j] <= f[i]
  <2>1. ASSUME NEW j \in 1 .. n PROVE f[j] <= f[m + 1]
    <3>1. j - 1 \in 0 .. n - 1 /\ g[j - 1] = f[j] /\ g[m] = f[m + 1]
      OBVIOUS
    <3>2. g[j - 1] <= g[m]
      BY <1>2, <3>1 DEF FirstMax
    <3> QED
      BY <3>1, <3>2
  <2>2. m + 1 \in 1 .. n
    OBVIOUS
  <2> QED
    BY <2>1, <2>2
<1>4. Relax!ToSet(f) = {f[j] : j \in 1 .. n}
  BY DEF Relax!ToSet
<1>5. Relax!Max(Relax!ToSet(f)) \in Relax!ToSet(f)
      /\ \A y \in Relax!ToSet(f) : y <= Relax!Max(Relax!ToSet(f))
  <2>1. f[i] \in Relax!ToSet(f) /\ \A y \in Relax!ToSet(f) : f[i] >= y
    BY <1>3, <1>4
  <2>2. Relax!ToSet(f) \subseteq Int
    BY <1>4
  <2> QED
    BY <2>1, <2>2 DEF Relax!Max
<1> QED
  BY <1>4, <1>5 DEF Relax!Best

\* The best and the second best of the actions' values.
LEMMA RelaxBestAction ==
  ASSUME RelaxAssumption, NEW f \in [Relax!Action -> Int]
  PROVE  LET S == {f[a] : a \in Relax!Action}
         IN  Relax!Max(S) \in S /\ \A a \in Relax!Action : f[a] <= Relax!Max(S)
<1> DEFINE S == {f[a] : a \in Relax!Action}
<1>1. NumActions - 1 \in Nat /\ Relax!Action = 0 .. NumActions - 1
  BY DEF RelaxAssumption, Relax!Action
<1>2. PICK m \in Relax!Action : FirstMax(f, NumActions - 1, m)
  BY <1>1, FirstMaxExists
<1>3. f[m] \in S /\ \A y \in S : f[m] >= y
  BY <1>1, <1>2 DEF FirstMax
<1>4. S \subseteq Int
  OBVIOUS
<1>5. Relax!Max(S) \in S /\ \A y \in S : Relax!Max(S) >= y
  <2> HIDE DEF S
  <2> QED
    BY <1>3 DEF Relax!Max
<1> QED
  BY <1>4, <1>5

\* A backup of an action keeps below and above the values what it goes on from.
LEMMA RelaxQVal ==
  ASSUME RelaxAssumption, relaxProblem \in RelaxProblems,
         NEW nodes, Brackets(relaxProblem, nodes),
         NEW s \in DOMAIN relaxProblem.next, NEW a \in Relax!Action,
         \A i \in DOMAIN RelaxNext(s, a) : RelaxNext(s, a)[i] \in DOMAIN nodes
  PROVE  /\ Relax!QVal(nodes, s, a) \in NodeBounds
         /\ Relax!QVal(nodes, s, a).lbVal <= Relaxed[relaxProblem][s]
         /\ \A i \in DOMAIN RelaxNext(s, a) :
              RelaxGain(s, a, Relaxed[relaxProblem][RelaxNext(s, a)[i]])
                <= Relax!QVal(nodes, s, a).ubVal
<1> DEFINE next == RelaxNext(s, a)
           v == Relaxed[relaxProblem]
           lows == [i \in DOMAIN next |-> nodes[next[i]].lbVal]
           highs == [i \in DOMAIN next |-> nodes[next[i]].ubVal]
<1>1. PICK n \in Nat \ {0} : DOMAIN next = 1 .. n
  <2>1. next \in Seq(DOMAIN relaxProblem.next) /\ next # <<>>
    BY RelaxFacts
  <2> QED
    BY <2>1
<1>2. \A i \in 1 .. n : /\ next[i] \in DOMAIN nodes /\ next[i] \in DOMAIN relaxProblem.next
                        /\ nodes[next[i]] \in NodeBounds
                        /\ v[next[i]] \in Int
                        /\ nodes[next[i]].lbVal <= v[next[i]]
                        /\ v[next[i]] <= nodes[next[i]].ubVal
  BY <1>1, RelaxFacts DEF Brackets
<1>3. lows \in [1 .. n -> Int] /\ highs \in [1 .. n -> Int]
  BY <1>1, <1>2 DEF NodeBounds
<1>4. Relax!QVal(nodes, s, a) =
        [ lbVal |-> RelaxGain(s, a, Relax!Best(lows)),
          ubVal |-> RelaxGain(s, a, Relax!Best(highs)) ]
  <2>1. PICK sn : sn = [i \in DOMAIN next |-> nodes[next[i]]]
    OBVIOUS
  <2>2. lows = [i \in DOMAIN sn |-> sn[i].lbVal] /\ highs = [i \in DOMAIN sn |-> sn[i].ubVal]
    BY <2>1
  <2> QED
    BY <2>1, <2>2, Zenon DEF Relax!QVal, RelaxGain, RelaxNext
<1> HIDE DEF next, v, lows, highs
<1>5. PICK i \in 1 .. n : Relax!Best(lows) = lows[i]
  BY <1>3, BestOfList
<1>6. \A j \in 1 .. n : highs[j] <= Relax!Best(highs) /\ Relax!Best(highs) \in Int
  BY <1>3, BestOfList
<1>7. Relax!Best(lows) \in Int /\ Relax!Best(highs) \in Int
  BY <1>3, <1>5, <1>6
<1>8. lows[i] <= v[next[i]] /\ \A j \in 1 .. n : v[next[j]] <= highs[j]
  BY <1>1, <1>2 DEF lows, highs
<1>9. /\ RelaxGain(s, a, Relax!Best(lows)) \in Int
      /\ RelaxGain(s, a, Relax!Best(highs)) \in Int
  BY <1>7, RelaxFacts
<1>10. RelaxGain(s, a, Relax!Best(lows)) <= v[s]
  <2>1. RelaxGain(s, a, Relax!Best(lows)) <= RelaxGain(s, a, v[next[i]])
    BY <1>2, <1>5, <1>7, <1>8, RelaxFacts
  <2>2. RelaxGain(s, a, v[next[i]]) <= v[s] /\ v[s] \in Int
    BY <1>1, RelaxFacts DEF next, v
  <2>3. RelaxGain(s, a, v[next[i]]) \in Int
    BY <1>2, RelaxFacts
  <2> QED
    BY <1>9, <2>1, <2>2, <2>3
<1>11. ASSUME NEW j \in 1 .. n
       PROVE  RelaxGain(s, a, v[next[j]]) <= RelaxGain(s, a, Relax!Best(highs))
  <2>1. v[next[j]] <= highs[j] /\ highs[j] <= Relax!Best(highs) /\ highs[j] \in Int
    BY <1>3, <1>6, <1>8
  <2>2. v[next[j]] <= Relax!Best(highs)
    BY <1>2, <1>7, <2>1
  <2> QED
    BY <1>2, <1>7, <2>2, RelaxFacts
<1> QED
  BY <1>1, <1>4, <1>9, <1>10, <1>11 DEF NodeBounds, next, v

\* Nodes for the states at the ends of edges begin with the heuristics.
LEMMA RelaxExpand ==
  ASSUME RelaxAssumption, relaxProblem \in RelaxProblems, Brackets(relaxProblem, lookup),
         NEW s \in DOMAIN relaxProblem.next
  PROVE  /\ Brackets(relaxProblem, Relax!Expand(s))
         /\ DOMAIN lookup \subseteq DOMAIN Relax!Expand(s)
         /\ \A a \in Relax!Action : \A i \in DOMAIN RelaxNext(s, a) :
              RelaxNext(s, a)[i] \in DOMAIN Relax!Expand(s)
<1> DEFINE reached == UNION {Relax!ToSet(relaxProblem.next[s][a]) : a \in Relax!Action}
           nodes == Relax!Expand(s)
<1>1. nodes = [x \in DOMAIN lookup \cup reached |->
                 IF x \in DOMAIN lookup THEN lookup[x] ELSE Relax!NewNode(relaxProblem, x)]
  BY DEF Relax!Expand
<1>2. \A a \in Relax!Action : \A i \in DOMAIN RelaxNext(s, a) :
        RelaxNext(s, a)[i] \in reached
  BY DEF RelaxNext, Relax!ToSet
<1>3. reached \subseteq DOMAIN relaxProblem.next
  <2>1. ASSUME NEW a \in Relax!Action
        PROVE  Relax!ToSet(relaxProblem.next[s][a]) \subseteq DOMAIN relaxProblem.next
    <3>1. RelaxNext(s, a) \in Seq(DOMAIN relaxProblem.next)
      BY RelaxFacts
    <3> QED
      BY <3>1 DEF Relax!ToSet, RelaxNext
  <2> QED
    BY <2>1
<1> HIDE DEF reached, nodes
<1>4. DOMAIN nodes = DOMAIN lookup \cup reached
  BY <1>1
<1>5. ASSUME NEW x \in DOMAIN nodes
      PROVE  /\ nodes[x] \in NodeBounds
             /\ nodes[x].lbVal <= Relaxed[relaxProblem][x]
             /\ Relaxed[relaxProblem][x] <= nodes[x].ubVal
  <2>1. CASE x \in DOMAIN lookup
    BY <1>1, <1>4, <2>1 DEF Brackets
  <2>2. CASE x \notin DOMAIN lookup
    <3>1. x \in DOMAIN relaxProblem.next
      BY <1>3, <1>4, <2>2
    <3>2. nodes[x] = [lbVal |-> relaxProblem.lower[x], ubVal |-> relaxProblem.upper[x]]
      BY <1>1, <1>4, <2>2 DEF Relax!NewNode
    <3> QED
      BY <3>1, <3>2, RelaxFacts DEF NodeBounds
  <2> QED
    BY <2>1, <2>2
<1>6. Brackets(relaxProblem, nodes)
  BY <1>1, <1>3, <1>4, <1>5 DEF Brackets
<1> QED
  BY <1>2, <1>4, <1>6 DEF nodes

\* The bounds of the best action bracket the value, and an update keeps those
\* of all nodes.
LEMMA RelaxUpdate ==
  ASSUME RelaxAssumption, relaxProblem \in RelaxProblems, Brackets(relaxProblem, lookup),
         NEW s \in DOMAIN relaxProblem.next, NEW u \in Relax!Update(s)
  PROVE  /\ Brackets(relaxProblem, u.nodes)
         /\ u.q \in [Relax!Action -> NodeBounds]
         /\ \A a \in Relax!Action : \A i \in DOMAIN RelaxNext(s, a) :
              RelaxNext(s, a)[i] \in DOMAIN u.nodes
<1> DEFINE v == Relaxed[relaxProblem]
<1>1. PICK nodes, q : /\ nodes = Relax!Expand(s)
                      /\ q = [a \in Relax!Action |-> Relax!QVal(nodes, s, a)]
                      /\ u = Relax!UpdateInternal(nodes, s, q)
  BY DEF Relax!Update
<1>2. /\ Brackets(relaxProblem, nodes)
      /\ \A a \in Relax!Action : \A i \in DOMAIN RelaxNext(s, a) :
           RelaxNext(s, a)[i] \in DOMAIN nodes
  BY <1>1, RelaxExpand
<1>3. \A a \in Relax!Action :
        /\ q[a] \in NodeBounds
        /\ q[a].lbVal <= v[s]
        /\ \A i \in DOMAIN RelaxNext(s, a) :
             RelaxGain(s, a, v[RelaxNext(s, a)[i]]) <= q[a].ubVal
  <2>1. \A a \in Relax!Action : q[a] = Relax!QVal(nodes, s, a)
    BY <1>1
  <2> QED
    BY <1>2, <2>1, RelaxQVal
<1>4. PICK lo, hi : /\ lo = Relax!Max({q[a].lbVal : a \in Relax!Action})
                    /\ hi = Relax!Max({q[a].ubVal : a \in Relax!Action})
  OBVIOUS
<1>5. lo \in Int /\ lo <= v[s]
  <2>1. PICK f \in [Relax!Action -> Int] : f = [a \in Relax!Action |-> q[a].lbVal]
    BY <1>3 DEF NodeBounds
  <2>2. {q[a].lbVal : a \in Relax!Action} = {f[a] : a \in Relax!Action}
    BY <2>1
  <2>3. lo \in {f[a] : a \in Relax!Action}
    BY <1>4, <2>2, RelaxBestAction
  <2>4. PICK a \in Relax!Action : lo = f[a]
    BY <2>3
  <2> QED
    BY <1>3, <2>1, <2>4
<1>6. hi \in Int /\ v[s] <= hi
  <2>1. PICK f \in [Relax!Action -> Int] : f = [a \in Relax!Action |-> q[a].ubVal]
    BY <1>3 DEF NodeBounds
  <2>2. {q[a].ubVal : a \in Relax!Action} = {f[a] : a \in Relax!Action}
    BY <2>1
  <2>3. hi \in {f[a] : a \in Relax!Action} /\ \A a \in Relax!Action : f[a] <= hi
    BY <1>4, <2>2, RelaxBestAction
  <2>4. PICK a \in Relax!Action :
          \E i \in DOMAIN RelaxNext(s, a) : v[s] = RelaxGain(s, a, v[RelaxNext(s, a)[i]])
    BY RelaxFacts
  <2>5. v[s] <= q[a].ubVal /\ q[a].ubVal \in Int /\ f[a] = q[a].ubVal
    BY <1>3, <2>1, <2>4 DEF NodeBounds
  <2>6. hi \in Int /\ f[a] <= hi
    BY <2>1, <2>3
  <2>7. v[s] \in Int
    BY RelaxFacts
  <2> QED
    BY <2>5, <2>6, <2>7
<1>7. u = [q |-> q, nodes |-> [nodes EXCEPT ![s] = [lbVal |-> lo, ubVal |-> hi]]]
  BY <1>1, <1>4, Zenon DEF Relax!UpdateInternal
<1> HIDE DEF v
<1>8. /\ DOMAIN u.nodes = DOMAIN nodes
      /\ \A x \in DOMAIN nodes :
           u.nodes[x] = IF x = s THEN [lbVal |-> lo, ubVal |-> hi] ELSE nodes[x]
      /\ u.nodes = [x \in DOMAIN nodes |-> u.nodes[x]]
  <2>1. PICK w : w = [nodes EXCEPT ![s] = [lbVal |-> lo, ubVal |-> hi]]
    OBVIOUS
  <2>2. u.nodes = w
    BY <1>7, <2>1
  <2>3. nodes \in [DOMAIN nodes -> NodeBounds]
    BY <1>2 DEF Brackets
  <2> QED
    BY <2>1, <2>2, <2>3
<1>9. Brackets(relaxProblem, u.nodes)
  <2>1. ASSUME NEW x \in DOMAIN nodes
        PROVE  /\ u.nodes[x] \in NodeBounds
               /\ u.nodes[x].lbVal <= v[x] /\ v[x] <= u.nodes[x].ubVal
    BY <1>2, <1>5, <1>6, <1>8 DEF Brackets, NodeBounds, v
  <2>2. u.nodes \in [DOMAIN u.nodes -> NodeBounds]
    BY <1>8, <2>1
  <2> QED
    BY <1>2, <1>8, <2>1, <2>2 DEF Brackets, v
<1>10. q \in [Relax!Action -> NodeBounds]
  BY <1>1, <1>3
<1> QED
  BY <1>2, <1>7, <1>8, <1>9, <1>10

\* A trial goes on to a state of the problem.
LEMMA RelaxSuccessor ==
  ASSUME RelaxAssumption, relaxProblem \in RelaxProblems, Brackets(relaxProblem, lookup),
         NEW f \in Calls(relaxProblem), NEW u \in Relax!Update(f.s)
  PROVE  Relax!Successor(f, u) \in Calls(relaxProblem)
<1>1. f.s \in DOMAIN relaxProblem.next /\ f.costSoFar \in Int /\ f.altActionPrio \in Int
  BY DEF Calls
<1>2. /\ Brackets(relaxProblem, u.nodes)
      /\ u.q \in [Relax!Action -> NodeBounds]
      /\ \A a \in Relax!Action : \A i \in DOMAIN RelaxNext(f.s, a) :
           RelaxNext(f.s, a)[i] \in DOMAIN u.nodes
  BY <1>1, RelaxUpdate
<1>3. /\ NumActions \in Nat /\ NumActions - 1 \in Nat /\ NumActions > 1
      /\ Relax!Action = 0 .. NumActions - 1
  BY DEF RelaxAssumption, Relax!Action
<1>4. PICK h \in [Relax!Action -> Int] : h = [a \in Relax!Action |-> u.q[a].ubVal]
  BY <1>2 DEF NodeBounds
<1>5. PICK a : a = Relax!MaxUBAction(u.q)
  OBVIOUS
<1>6. a \in Relax!Action
  <2> DEFINE A == {b \in Relax!Action : \A c \in Relax!Action : u.q[c].ubVal <= u.q[b].ubVal}
  <2>1. PICK m \in 0 .. NumActions - 1 : FirstMax(h, NumActions - 1, m)
    BY <1>3, <1>4, FirstMaxExists
  <2>2. m \in A
    BY <1>3, <1>4, <2>1 DEF FirstMax
  <2>3. A \in SUBSET Nat /\ A \subseteq Relax!Action
    BY <1>3
  <2>4. a = Relax!Min(A)
    BY <1>5, Zenon DEF Relax!MaxUBAction
  <2> HIDE DEF A
  <2>5. \E k \in A : \A b \in A : k <= b
    BY <2>2, <2>3, LeastNatural
  <2>6. Relax!Min(A) \in A
    BY <2>5 DEF Relax!Min
  <2> QED
    BY <2>3, <2>4, <2>6
<1>7. Relax!SecondBest(u.q) \in Int
  <2> DEFINE S == {u.q[b].ubVal : b \in Relax!Action \ {a}}
  <2>1. PICK c \in Relax!Action : c # a
    <3>1. 0 \in Relax!Action /\ 1 \in Relax!Action
      BY <1>3
    <3> QED
      BY <3>1
  <2>2. S \subseteq Int /\ \A b \in Relax!Action \ {a} : h[b] \in S
    BY <1>2, <1>4 DEF NodeBounds
  <2>3. \A y \in S : \E b \in Relax!Action \ {a} : y = h[b]
    BY <1>4
  <2>4. Relax!SecondBest(u.q) = Relax!Max(S)
    BY <1>5, Zenon DEF Relax!SecondBest
  <2> HIDE DEF S
  <2> DEFINE low == [b \in 0 .. NumActions - 1 |-> IF b = a THEN h[c] ELSE h[b]]
  <2>5. low \in [0 .. NumActions - 1 -> Int]
    BY <1>3, <1>4
  <2>6. PICK m \in 0 .. NumActions - 1 : FirstMax(low, NumActions - 1, m)
    <3> HIDE DEF low
    <3> QED
      BY <1>3, <2>5, FirstMaxExists
  <2>7. low[m] \in S /\ \A y \in S : low[m] >= y
    <3>1. low[m] \in S
      BY <1>3, <2>1, <2>2
    <3>2. ASSUME NEW b \in Relax!Action \ {a} PROVE low[m] >= h[b]
      <4>1. low[b] = h[b] /\ b \in 0 .. NumActions - 1
        BY <1>3
      <4> HIDE DEF low
      <4>2. low[b] <= low[m] /\ low[m] \in Int /\ low[b] \in Int
        BY <2>5, <2>6, <4>1 DEF FirstMax
      <4> QED
        BY <4>1, <4>2
    <3> QED
      BY <2>3, <3>1, <3>2
  <2> HIDE DEF low
  <2> QED
    BY <2>2, <2>4, <2>7 DEF Relax!Max
<1>8. Relax!BestOutcome(u.nodes, f.s, a) \in DOMAIN relaxProblem.next
  <2> DEFINE next == RelaxNext(f.s, a)
             B == {i \in DOMAIN next :
                     \A j \in DOMAIN next : u.nodes[next[j]].ubVal <= u.nodes[next[i]].ubVal}
  <2>1. next \in Seq(DOMAIN relaxProblem.next) /\ next # <<>>
    BY <1>1, <1>6, RelaxFacts
  <2>2. PICK n \in Nat \ {0} : DOMAIN next = 1 .. n
    BY <2>1
  <2>3. \A i \in 1 .. n : next[i] \in DOMAIN u.nodes /\ u.nodes[next[i]].ubVal \in Int
    BY <1>2, <1>6, <2>2 DEF Brackets, NodeBounds
  <2>4. Relax!BestOutcome(u.nodes, f.s, a) = next[Relax!Min(B)]
    BY Zenon DEF Relax!BestOutcome, RelaxNext
  <2>5. \A i \in DOMAIN next : next[i] \in DOMAIN relaxProblem.next
    BY <2>1
  <2> HIDE DEF next
  <2>6. B \in SUBSET Nat /\ B \subseteq DOMAIN next
    BY <2>2
  <2>7. B # {}
    <3>1. PICK g \in [1 .. n -> Int] : g = [i \in 1 .. n |-> u.nodes[next[i]].ubVal]
      BY <2>3
    <3>2. PICK k \in 1 .. n : Relax!Best(g) = g[k] /\ \A j \in 1 .. n : g[j] <= Relax!Best(g)
      BY <3>1, BestOfList
    <3> QED
      BY <2>2, <3>1, <3>2
  <2> HIDE DEF B
  <2>8. \E k \in B : \A b \in B : k <= b
    BY <2>6, <2>7, LeastNatural
  <2>9. Relax!Min(B) \in B
    BY <2>8 DEF Relax!Min
  <2> QED
    BY <2>4, <2>5, <2>6, <2>9
<1>9. \A x, y \in Int : Relax!Max({x, y}) \in Int
  <2>1. ASSUME NEW x \in Int, NEW y \in Int PROVE Relax!Max({x, y}) \in {x, y}
    <3>1. \E m \in {x, y} : \A k \in {x, y} : m >= k
      OBVIOUS
    <3> QED
      BY <3>1 DEF Relax!Max
  <2> QED
    BY <2>1
<1>10. relaxProblem.reward[f.s][a] \in Int
  BY <1>1, <1>6, RelaxFacts
<1>11. Relax!Successor(f, u) =
         [ s             |-> Relax!BestOutcome(u.nodes, f.s, a),
           costSoFar     |-> f.costSoFar + relaxProblem.reward[f.s][a],
           altActionPrio |->
             Relax!Max({f.altActionPrio, Relax!SecondBest(u.q) + f.costSoFar}) ]
  BY <1>5, Zenon DEF Relax!Successor
<1>12. Relax!Max({f.altActionPrio, Relax!SecondBest(u.q) + f.costSoFar}) \in Int
  BY <1>1, <1>7, <1>9
<1> QED
  BY <1>1, <1>8, <1>10, <1>11, <1>12 DEF Calls

LEMMA RelaxInitInv ==
  ASSUME RelaxAssumption, Relax!Init PROVE RelaxInv
<1>1. relaxProblem \in RelaxProblems /\ relaxProblem.initial \in DOMAIN relaxProblem.next
  BY DEF RelaxAssumption, Relax!Init, Relax!IsProblem
<1>2. lookup = [x \in {relaxProblem.initial} |->
                  [lbVal |-> relaxProblem.lower[x], ubVal |-> relaxProblem.upper[x]]]
  BY DEF Relax!Init, Relax!root, Relax!NewNode
<1>3. ASSUME NEW x \in DOMAIN lookup
      PROVE  /\ x \in DOMAIN relaxProblem.next /\ lookup[x] \in NodeBounds
             /\ lookup[x].lbVal <= Relaxed[relaxProblem][x]
             /\ Relaxed[relaxProblem][x] <= lookup[x].ubVal
  <2>1. x = relaxProblem.initial
    BY <1>2
  <2> QED
    BY <1>1, <1>2, <2>1, RelaxFacts DEF NodeBounds
<1>4. Brackets(relaxProblem, lookup)
  BY <1>2, <1>3 DEF Brackets
<1>5. calls = <<>> /\ relaxPc = "width"
  BY DEF Relax!Init
<1> QED
  BY <1>1, <1>4, <1>5 DEF RelaxInv

\* The call on top of the stack, and what is left without it.
LEMMA TopCall ==
  ASSUME NEW S, calls \in Seq(S), calls # <<>>
  PROVE  Relax!Top \in S /\ Relax!Front(calls) \in Seq(S)
BY FrontProperties DEF Relax!Top, Relax!Front, Front

LEMMA RelaxNextInv ==
  ASSUME RelaxAssumption, RelaxInv, [Relax!Next]_(Relax!vars)
  PROVE  RelaxInv'
<1> DEFINE S == Calls(relaxProblem)
<1>1. /\ relaxProblem \in RelaxProblems /\ Brackets(relaxProblem, lookup)
      /\ calls \in Seq(S) /\ (relaxPc = "call" => calls # <<>>)
  BY DEF RelaxInv
<1>2. relaxProblem' = relaxProblem
  BY DEF Relax!Next, Relax!vars, Relax!DoTrial, Relax!Terminate, Relax!TrialEnds,
         Relax!TrialStep, Relax!TrialReturns, Relax!EndTrial
<1>4. ASSUME NEW f \in S, NEW u \in Relax!Update(f.s)
      PROVE  Brackets(relaxProblem, u.nodes)
  <2>1. f.s \in DOMAIN relaxProblem.next
    BY DEF Calls
  <2> QED
    BY <1>1, <2>1, RelaxUpdate
<1>5. ASSUME Brackets(relaxProblem, lookup'), calls' \in Seq(S),
             relaxPc' = "call" => calls' # <<>>
      PROVE  RelaxInv'
  BY <1>1, <1>2, <1>5 DEF RelaxInv, Brackets, Calls
<1> HIDE DEF S
<1>6. CASE Relax!DoTrial
  <2>1. /\ lookup' = lookup
        /\ calls' = <<[s |-> relaxProblem.initial, costSoFar |-> 0,
                       altActionPrio |-> MinusInfinity]>>
    BY <1>6 DEF Relax!DoTrial, Relax!root
  <2>2. relaxProblem.initial \in DOMAIN relaxProblem.next /\ MinusInfinity \in Int
    BY <1>1 DEF RelaxAssumption, Relax!IsProblem
  <2>3. [s |-> relaxProblem.initial, costSoFar |-> 0, altActionPrio |-> MinusInfinity] \in S
    BY <2>2 DEF S, Calls
  <2>4. calls' \in Seq(S) /\ calls' # <<>>
    BY <2>1, <2>3
  <2> QED
    BY <1>1, <1>5, <2>1, <2>4
<1>7. CASE Relax!TrialEnds
  <2>1. Relax!Top \in S /\ Relax!Front(calls) \in Seq(S)
    BY <1>1, <1>7, TopCall DEF Relax!TrialEnds
  <2>2. PICK u \in Relax!Update(Relax!Top.s) : Relax!Apply(u, Relax!Top.s)
    BY <1>7 DEF Relax!TrialEnds
  <2>3. lookup' = u.nodes /\ calls' = Relax!Front(calls) /\ relaxPc' = "return"
    BY <1>7, <2>2 DEF Relax!TrialEnds, Relax!Apply
  <2> QED
    BY <1>4, <1>5, <2>1, <2>2, <2>3
<1>8. CASE Relax!TrialStep
  <2>1. Relax!Top \in S
    BY <1>1, <1>8, TopCall DEF Relax!TrialStep
  <2>2. PICK u \in Relax!Update(Relax!Top.s) :
          /\ Relax!Apply(u, Relax!Top.s)
          /\ calls' = Append(calls, Relax!Successor(Relax!Top, u))
    BY <1>8 DEF Relax!TrialStep
  <2>3. Relax!Successor(Relax!Top, u) \in S
    BY <1>1, <2>1, RelaxSuccessor DEF S
  <2>4. calls' \in Seq(S) /\ calls' # <<>>
    BY <1>1, <2>2, <2>3
  <2>5. lookup' = u.nodes
    BY <2>2 DEF Relax!Apply
  <2> QED
    BY <1>4, <1>5, <2>1, <2>2, <2>4, <2>5
<1>9. CASE Relax!TrialReturns
  <2>1. Relax!Top \in S /\ Relax!Front(calls) \in Seq(S)
    BY <1>1, <1>9, TopCall DEF Relax!TrialReturns
  <2>2. PICK u \in Relax!Update(Relax!Top.s) : Relax!Apply(u, Relax!Top.s)
    BY <1>9 DEF Relax!TrialReturns
  <2>3. lookup' = u.nodes /\ calls' = Relax!Front(calls) /\ relaxPc' = "return"
    BY <1>9, <2>2 DEF Relax!TrialReturns, Relax!Apply
  <2> QED
    BY <1>4, <1>5, <2>1, <2>2, <2>3
<1>10. CASE Relax!Terminate \/ Relax!EndTrial \/ UNCHANGED Relax!vars
  <2>1. lookup' = lookup /\ calls' = calls /\ (relaxPc' = "call" => relaxPc = "call")
    BY <1>10 DEF Relax!Terminate, Relax!EndTrial, Relax!vars
  <2> QED
    BY <1>1, <1>5, <2>1
<1> QED
  BY <1>6, <1>7, <1>8, <1>9, <1>10 DEF Relax!Next

\* The relaxed heuristic is on its side: wherever the trials go, and whatever they
\* have not reached, the bounds of every node bracket the value of the problem in
\* which outcomes may be chosen (RelaxUBInitializer).
THEOREM RelaxedEnclosed ==
  ASSUME RelaxAssumption PROVE Relax!Spec => []Relax!Enclosed
<1>1. Relax!Init => RelaxInv
  BY RelaxInitInv
<1>2. RelaxInv /\ [Relax!Next]_(Relax!vars) => RelaxInv'
  BY RelaxNextInv
<1>3. RelaxInv => Relax!Enclosed
  BY DEF RelaxInv, Brackets, Relax!Enclosed
<1> QED
  BY <1>1, <1>2, <1>3, PTL DEF Relax!Spec
=============================================================================
