----------------------------- MODULE BoundPair -----------------------------
(***************************************************************************)
(* The table of search nodes and the bounds kept on them: BoundPair and    *)
(* BoundPairCore over point bounds (PointLowerBound, PointUpperBound).     *)
(*                                                                         *)
(* The table is a record so that each search strategy keeps it in one      *)
(* variable and an operation is an operator from tables to tables:         *)
(*   lookup    nodes that exist (in the hash table)                        *)
(*   expanded  nodes whose Q entries exist (the others are fringe nodes)   *)
(*   lb, ub    the bounds of a node; meaningless outside lookup (lb is     *)
(*             -1, "n/a", when only the upper bound is maintained)         *)
(*   qub       the upper bound cached in each Q entry                      *)
(***************************************************************************)
EXTENDS MDP

CONSTANTS
  DualPointBounds,  \* both bounds are maintained, and are point bounds
  QValUndefined     \* BP_QVAL_UNDEFINED, below every value of a backup

ASSUME BoundPairAssumption ==
         DualPointBounds \in BOOLEAN /\ QValUndefined \in Int

BoundTable ==
  [ lookup   : SUBSET Node,
    expanded : SUBSET Node,
    lb       : [Node -> Int],
    ub       : [Node -> Int],
    qub      : [Node -> [Action -> Int]] ]

EmptyTable ==
  [ lookup   |-> {},
    expanded |-> {},
    lb       |-> [n \in Node |-> 0],
    ub       |-> [n \in Node |-> 0],
    qub      |-> [n \in Node |-> [a \in Action |-> QValUndefined]] ]

\* A terminal node is worth 0 whatever the heuristic says of it.
InitUB(p, n) == IF p.terminal[n] THEN 0 ELSE p.upper[n]

InitLB(p, n) == IF ~DualPointBounds THEN -1
                ELSE IF p.terminal[n] THEN 0 ELSE p.lower[n]

\* Mutant of GetNodes: a state that has a node is given its initial bounds
\* again.
GetNodesAgain(p, bp, states) ==
  [bp EXCEPT
     !.lookup = @ \cup states,
     !.ub = [n \in Node |-> IF n \in states THEN InitUB(p, n) ELSE bp.ub[n]],
     !.lb = [n \in Node |-> IF n \in states THEN InitLB(p, n) ELSE bp.lb[n]]]

\* Nodes for the states that have none yet, with their initial bounds.
GetNodes(p, bp, states) ==
  LET new == states \ bp.lookup
  IN  [bp EXCEPT
         !.lookup = @ \cup new,
         !.ub = [n \in Node |-> IF n \in new THEN InitUB(p, n) ELSE bp.ub[n]],
         !.lb = [n \in Node |-> IF n \in new THEN InitLB(p, n) ELSE bp.lb[n]]]

\* Q entries for a fringe node; their upper bounds are not yet known.
Expand(p, bp, s) ==
  LET succ == UNION {Successors(p, s, a) : a \in Action}
  IN  [GetNodes(p, bp, succ) EXCEPT
         !.expanded = @ \cup {s},
         !.qub[s] = [a \in Action |-> QValUndefined]]

\* The loop of updateUseCache (module UseCacheLoop), in closed form: the loop
\* goes through the actions in the order of their cached values, and comes to
\* an action when it is the best once all the actions before it are fresh.
UseCache(cached, fresh) ==
  LET Mixed(U)  == [a \in Action |-> IF a \in U THEN fresh[a] ELSE cached[a]]
      Before(a) == {b \in Action : \/ cached[b] > cached[a]
                                   \/ cached[b] = cached[a] /\ b < a}
  IN  Mixed({a \in Action : MaxAction(Mixed(Before(a))) = a})

\* The Q values of s after an update of the upper bound.
NewQ(p, bp, s) ==
  LET fresh == [a \in Action |-> Backup(p, bp.ub, s, a)]
  IN  IF DualPointBounds \/ bp.qub[s][0] = QValUndefined
      THEN fresh
      ELSE UseCache(bp.qub[s], fresh)

NewLB(p, bp, s) ==
  LET best == MaxValue([a \in Action |-> Backup(p, bp.lb, s, a)])
  IN  IF best > bp.lb[s] THEN best ELSE bp.lb[s]

\* Mutant of UpdateBounds: the bound follows action 0, not the best action.
UpdateBoundsByAction0(p, bp, s) ==
  LET q == NewQ(p, bp, s)
  IN  [bp EXCEPT
         !.qub[s] = q,
         !.ub[s] = IF q[0] < @ THEN q[0] ELSE @,
         !.lb[s] = IF DualPointBounds THEN NewLB(p, bp, s) ELSE @]

UpdateBounds(p, bp, s) ==
  LET q == NewQ(p, bp, s)
  IN  [bp EXCEPT
         !.qub[s] = q,
         !.ub[s] = IF MaxValue(q) < @ THEN MaxValue(q) ELSE @,
         !.lb[s] = IF DualPointBounds THEN NewLB(p, bp, s) ELSE @]

Update(p, bp, s) ==
  UpdateBounds(p, IF s \in bp.expanded THEN bp ELSE Expand(p, bp, s), s)

\* Relies on correct cached Q values.
MaxUBAction(bp, s) == MaxAction(bp.qub[s])

\* Mutant of ValueOf: the heuristic is used even where there is a node.
ValueOfHeuristic(p, bp, bound, h) == h

\* The action a policy evaluator or an executive takes in state s: one step
\* of lookahead over the bounds, with the heuristic where there is no node.
ValueOf(p, bp, bound, h) ==
  [n \in Node |-> IF n \in bp.lookup THEN bound[n] ELSE h[n]]

ChooseActionUB(p, bp, s) ==
  MaxAction([a \in Action |-> Backup(p, ValueOf(p, bp, bp.ub, p.upper), s, a)])

ChooseActionLB(p, bp, s) ==
  MaxAction([a \in Action |-> Backup(p, ValueOf(p, bp, bp.lb, p.lower), s, a)])

-----------------------------------------------------------------------------
\* Values v of the states of p that no backup changes.
IsValue(p, v) ==
  \A n \in Node :
    v[n] = IF p.terminal[n] THEN 0
           ELSE MaxValue([a \in Action |-> Backup(p, v, n, a)])

\* What newLowerBound and newUpperBound promise: "a new lower bound or upper
\* bound that is valid for this MDP".
ValidHeuristics(p, v) ==
  \A n \in Node : ~p.terminal[n] => p.lower[n] <= v[n] /\ v[n] <= p.upper[n]

\* The bounds of every node, and the cached Q values, bracket the values v.
Bracketed(p, v, bp) ==
  \A n \in bp.lookup :
    /\ v[n] <= bp.ub[n]
    /\ DualPointBounds => bp.lb[n] <= v[n]
    /\ n \in bp.expanded =>
         \A a \in Action : \/ bp.qub[n][a] = QValUndefined
                           \/ Backup(p, v, n, a) <= bp.qub[n][a]

\* Problems whose heuristics no backup would raise (UB) or lower (LB).
UniformlyImprovable(p) ==
  LET ub == [n \in Node |-> IF p.terminal[n] THEN 0 ELSE p.upper[n]]
      lb == [n \in Node |-> IF p.terminal[n] THEN 0 ELSE p.lower[n]]
  IN  \A n \in Node : ~p.terminal[n] =>
        /\ MaxValue([a \in Action |-> Backup(p, ub, n, a)]) <= ub[n]
        /\ MaxValue([a \in Action |-> Backup(p, lb, n, a)]) >= lb[n]

UniformProblems == {p \in Problems : UniformlyImprovable(p)}
=============================================================================
