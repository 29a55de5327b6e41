------------------------------ MODULE Sawtooth ------------------------------
(***************************************************************************)
(* The upper bound of a POMDP as a set of belief points over the values of *)
(* the corners: pomdpBounds/SawtoothUpperBound.cc, from the iterations of  *)
(* the fast informed bound on, and driven by updates of any nodes in any   *)
(* order.  A point is an entry of the function point, whose domain is what *)
(* is allocated.  Values are multiplied by the sum of the weights of their *)
(* belief, and quotients are rounded up.                                   *)
(***************************************************************************)
EXTENDS Pomdp

CONSTANTS
  PruneIncrement,  \* PRUNE_PTS_INCREMENT; PRUNE_PTS_FACTOR is 2
  MaxIters,        \* MDP_MAX_ITERS
  MaxBackups,      \* bound on the length of a run
  Policies         \* plans for each problem, see Plan

ASSUME SawtoothAssumption ==
         /\ PruneIncrement \in Nat /\ MaxIters \in Nat /\ MaxBackups \in Nat
         /\ \A n \in Problems, a \in Action, j \in State : Total(Pomdps[n].obs[a][j]) = Den

VARIABLES
  problem, useSawtoothSupportList,  \* never change
  al,         \* vectors of the fast informed bound, one for each action
  cornerPts,
  point,      \* the points that are allocated, by their identity
  pts,        \* the list of points
  support,    \* supportList: for each state, the points defined on it, if used
  ubVal,      \* of each node that was touched
  q,          \* of each node with Q entries: ubVal of each action
  numBackups,
  lastPruneNumPts, lastPruneNumBackups,
  pc,         \* where the upper bound is, see InitFIB, AddPoint and EndPrune
  node,       \* the node being updated
  fresh,      \* successors of node that still have to get a node
  candidate   \* place in pts of the loop of prune

settings == <<problem, useSawtoothSupportList>>

vars == <<settings, al, cornerPts, point, pts, support, ubVal, q, numBackups,
          lastPruneNumPts, lastPruneNumBackups, pc, node, fresh, candidate>>

pomdp == Pomdps[problem]
Terminal(b) == TerminalIn(pomdp, b)
CeilDiv(n, d) == -((-n) \div d)
Undefined == 99999999  \* BP_QVAL_UNDEFINED

\* Function f, with value y at x.
Extended(f, x, y) == [z \in DOMAIN f \cup {x} |-> IF z = x THEN y ELSE f[z]]

-----------------------------------------------------------------------------
\* FullObsUBInitializer and FastInfUBInitializer.

NextAlphaAction(p, a, alpha) ==
  [i \in State |->
     p.reward[a][i] +
     CeilDiv(p.discount * Total([j \in State |-> p.trans[a][i][j] * alpha[j]]), Den * Den)]

MaxOver(vectors) ==
  Table([i \in State |-> Max({vectors[a][i] : a \in Action})])

\* The values of the process whose states can be observed, from 0.  (The code
\* leaves the loop when they stay the same, as they then do for ever.)
ValueIteration(p) ==
  LET alpha[k \in 0 .. MaxIters] ==
        IF k = 0 THEN [i \in State |-> 0]
        ELSE LET last == alpha[k - 1]
             IN  MaxOver([a \in Action |-> NextAlphaAction(p, a, last)])
  IN  alpha[MaxIters]

\* That of each problem.
FullObsValue == Table([n \in Problems |-> ValueIteration(Pomdps[n])])

\* What may follow from each state when o is observed after a and the next
\* action may depend on it.
MaxNext(p, a, vectors, i, o) ==
  Max({Total([j \in State |-> p.trans[a][i][j] * p.obs[a][j][o] * vectors[n][j]]) :
         n \in Action})

\* One FIB update of an action.
FIBAction(p, a, vectors) ==
  Table([i \in State |-> p.reward[a][i] +
    CeilDiv(p.discount * Total([o \in Observation |-> MaxNext(p, a, vectors, i, o)]),
            Den * Den * Den)])

\* The corner values, 0 at terminal states.
Corners(p, vectors) ==
  Table([i \in State |-> IF i \in p.terminal THEN 0 ELSE MaxOver(vectors)[i]])

-----------------------------------------------------------------------------
\* A policy, as its execution remembers it: take the action, then go on with
\* the plan whose value is that of the observation.  The value of a plan is
\* for each state what the policy earns from there, or less.
Plan == [value : Vector, action : Action, after : [Observation -> Vector]]

\* What a plan may expect of those it goes on with, from state i.
Expected(p, plan, i) ==
  Total([o \in Observation |-> Total([j \in State |->
    p.trans[plan.action][i][j] * p.obs[plan.action][j][o] * plan.after[o][j]])])

ASSUME PoliciesAssumption ==
         \A n \in Problems :
         LET p == Pomdps[n]
             P == Policies[n]
         IN  /\ P \subseteq Plan
             /\ \A plan \in P :
                  /\ \A o \in Observation : \E then \in P : then.value = plan.after[o]
                  /\ \A i \in State :
                       Den * Den * Den * (plan.value[i] - p.reward[plan.action][i])
                         <= p.discount * Expected(p, plan, i)
                  \* a terminal state is worth nothing
                  /\ \A i \in p.terminal : plan.value[i] <= 0
                  \* the value iteration has come above all policies
                  /\ \A i \in State : plan.value[i] <= FullObsValue[n][i]

-----------------------------------------------------------------------------
\* The value of a belief.

\* Mutant of Ratio: the ratio of the first state only.
RatioFirst(b, c) == <<b[First(c)], c[First(c)]>>

\* minRatio, as numerator and denominator.
Ratio(b, c) ==
  LET i == CHOOSE i \in Support(c) : \A j \in Support(c) : b[i] * c[j] <= b[j] * c[i]
  IN  <<b[i], c[i]>>

\* A point with belief c and value v that lies above the corners, or is about
\* states that b excludes, bounds nothing at b.
Bounds(b, c, v, innerC) == v < innerC /\ Support(c) \subseteq Support(b)

\* getBVValue: the bound that it induces on b otherwise.
BVValue(b, c, v, innerB, innerC) ==
  LET r == Ratio(b, c) IN innerB + CeilDiv(r[1] * (v - innerC), r[2])

\* ptsToCheck: the points that may matter at a belief are in the list of its
\* first state.
PtsToCheck(b) == IF useSawtoothSupportList THEN support[First(b)] ELSE pts

Below(k) == Inner(cornerPts, point[k].b)

\* getValue
Value(b) ==
  LET inner == Inner(cornerPts, b)
      bounds == {k \in ToSet(PtsToCheck(b)) : Bounds(b, point[k].b, point[k].v, Below(k))}
  IN  Min({inner} \cup {BVValue(b, point[k].b, point[k].v, inner, Below(k)) : k \in bounds})

\* getNewUBValueQ
NewQ(b, a) ==
  Inner(pomdp.reward[a], b) +
  CeilDiv(pomdp.discount *
    Total([o \in Observation |->
      LET c == pomdp.next[b][a][o]
      IN  IF c = NoBelief THEN 0
          ELSE Pushed(b, pomdp.trans, pomdp.obs, a, o)[First(c)] * Value(c)]),
    Den * Den * Den)

MaxAction(cached) ==
  CHOOSE a \in Action : \A c \in Action :
    cached[c] <= cached[a] /\ (c < a => cached[c] < cached[a])

\* getNewUBValueUseCache: back up the action that looks best until that is one
\* backed up before.  The loop is that of UseCacheLoop, and so is what it does.
UseCache(cached, new) ==
  LET Mixed(U)  == [a \in Action |-> IF a \in U THEN new[a] ELSE cached[a]]
      Before(a) == {c \in Action : \/ cached[c] > cached[a]
                                   \/ cached[c] = cached[a] /\ c < a}
  IN  Mixed({a \in Action : MaxAction(Mixed(Before(a))) = a})

\* getNewUBValue: the Q values after the backup.
NewQs(b) ==
  LET new == Table([a \in Action |-> NewQ(b, a)])
  IN  IF q[b][0] = Undefined THEN new ELSE UseCache(q[b], new)

-----------------------------------------------------------------------------
Init ==
  /\ problem \in Problems /\ useSawtoothSupportList \in BOOLEAN
  /\ al = Table([a \in Action |-> Table(NextAlphaAction(pomdp, a, FullObsValue[problem]))])
  /\ cornerPts = [i \in State |-> 0]
  /\ point = <<>>
  /\ pts = <<>>
  /\ support = [i \in State |-> <<>>]
  /\ ubVal = <<>>
  /\ q = <<>>
  /\ numBackups = 0
  /\ lastPruneNumPts = 0
  /\ lastPruneNumBackups = -1
  /\ pc = "fib"
  /\ node = NoBelief            \* getRootNode: the root gets a node, no update
  /\ fresh = {pomdp.initial}
  /\ candidate = 0

\* A pass of initFIB's loop, which ends when the vectors stay the same.
InitFIB ==
  /\ pc = "fib"
  /\ al' = Table([a \in Action |-> FIBAction(pomdp, a, al)])
  /\ IF al' = al THEN pc' = "expand" /\ cornerPts' = Corners(pomdp, al)
     ELSE UNCHANGED <<pc, cornerPts>>
  /\ UNCHANGED <<settings, point, pts, support, ubVal, q, numBackups,
                 lastPruneNumPts, lastPruneNumBackups, node, fresh, candidate>>

\* whichCornerPoint
IsCorner(b) == Cardinality(Support(b)) = 1

NewId == Max({0} \cup DOMAIN point) + 1

\* addPoint, then maybePrune: the value of a corner is replaced, any other
\* point joins the lists.  The bound goes on at next, or first at prune.
AddPoint(b, v, next, prune) ==
  /\ IF IsCorner(b)
     THEN /\ cornerPts' = [cornerPts EXCEPT ![First(b)] = v]
          /\ UNCHANGED <<point, pts, support>>
     ELSE /\ point' = Extended(point, NewId, [b |-> b, v |-> v, created |-> numBackups])
          /\ pts' = Append(pts, NewId)
          /\ support' = [i \in State |-> IF useSawtoothSupportList /\ b[i] > 0
                                         THEN Append(support[i], NewId) ELSE support[i]]
          /\ UNCHANGED cornerPts
  /\ IF /\ Len(pts') > lastPruneNumPts + PruneIncrement
        /\ Len(pts') > 2 * lastPruneNumPts
     THEN candidate' = 1 /\ pc' = prune
     ELSE UNCHANGED candidate /\ pc' = next

\* initNodeBound of a successor: a terminal node adds a point of value 0.
InitNode(b) ==
  /\ pc = "expand"
  /\ b \in fresh
  /\ fresh' = fresh \ {b}
  /\ IF Terminal(b)
     THEN /\ ubVal' = Extended(ubVal, b, 0)
          /\ AddPoint(b, 0, "expand", "pruneInExpand")
     ELSE /\ ubVal' = Extended(ubVal, b, Value(b))
          /\ UNCHANGED <<cornerPts, point, pts, support, pc, candidate>>
  /\ UNCHANGED <<settings, al, q, numBackups, lastPruneNumPts, lastPruneNumBackups, node>>

Expanded ==
  /\ pc = "expand"
  /\ fresh = {}
  /\ pc' = IF node = NoBelief THEN "idle" ELSE "update"
  /\ UNCHANGED <<settings, al, cornerPts, point, pts, support, ubVal, q, numBackups,
                 lastPruneNumPts, lastPruneNumBackups, node, fresh, candidate>>

\* A search strategy updates a node it has come to.
Update(b) ==
  /\ pc = "idle"
  /\ numBackups < MaxBackups
  /\ b \in DOMAIN ubVal /\ ~Terminal(b)
  /\ node' = b
  /\ IF b \in DOMAIN q
     THEN pc' = "update" /\ UNCHANGED <<q, fresh>>
     ELSE /\ pc' = "expand"
          /\ q' = Extended(q, b, [a \in Action |-> Undefined])
          /\ fresh' = SuccessorsIn(pomdp, b) \ DOMAIN ubVal
  /\ UNCHANGED <<settings, al, cornerPts, point, pts, support, ubVal, numBackups,
                 lastPruneNumPts, lastPruneNumBackups, candidate>>

\* SawtoothUpperBound::update
UpdateValue ==
  /\ pc = "update"
  /\ \E new \in {NewQs(node)} :
       /\ q' = [q EXCEPT ![node] = new]
       /\ ubVal' = [ubVal EXCEPT ![node] = Max(Range(new))]
       /\ AddPoint(node, Max(Range(new)), "updated", "pruneInUpdate")
  /\ UNCHANGED <<settings, al, numBackups, lastPruneNumPts, lastPruneNumBackups, node, fresh>>

EndUpdate ==
  /\ pc = "updated"
  /\ numBackups' = numBackups + 1
  /\ pc' = "idle"
  /\ UNCHANGED <<settings, al, cornerPts, point, pts, support, ubVal, q,
                 lastPruneNumPts, lastPruneNumBackups, node, fresh, candidate>>

-----------------------------------------------------------------------------
Pruning == pc \in {"pruneInExpand", "pruneInUpdate"}

\* A pair that was compared the last time points were pruned.
Compared(x, y) ==
  /\ point[x].created <= lastPruneNumBackups
  /\ point[y].created <= lastPruneNumBackups

\* Mutant of Dominates: the values are compared as if at the same belief.
DominatesByValue(x, y) == point[x].v <= point[y].v

\* Point x supports a value at the belief of y as low as y does.
Dominates(x, y) ==
  /\ Bounds(point[y].b, point[x].b, point[x].v, Below(x))
  /\ BVValue(point[y].b, point[x].b, point[x].v, Below(y), Below(x)) <= point[y].v

\* Mutant of Opponents: a point may be its own opponent.
OpponentsAll(y) == ToSet(PtsToCheck(point[y].b))

\* The points that candidate y is compared with.
Opponents(y) ==
  {x \in ToSet(PtsToCheck(point[y].b)) : x # y /\ ~Compared(y, x)}

\* One pass of the loop of prune.
PruneCandidate ==
  /\ Pruning
  /\ candidate <= Len(pts)
  /\ LET y == pts[candidate]
     IN  IF \E x \in Opponents(y) : Dominates(x, y)
         THEN /\ support' = [i \in State |-> RemoveFirst(support[i], y)]
              /\ point' = Restrict(point, DOMAIN point \ {y})
              /\ pts' = RemoveAt(pts, candidate)
              /\ UNCHANGED candidate
         ELSE candidate' = candidate + 1 /\ UNCHANGED <<point, pts, support>>
  /\ UNCHANGED <<settings, al, cornerPts, ubVal, q, numBackups, lastPruneNumPts,
                 lastPruneNumBackups, pc, node, fresh>>

EndPrune ==
  /\ Pruning
  /\ candidate > Len(pts)
  /\ lastPruneNumPts' = Len(pts)
  /\ lastPruneNumBackups' = numBackups
  /\ pc' = IF pc = "pruneInExpand" THEN "expand" ELSE "updated"
  /\ UNCHANGED <<settings, al, cornerPts, point, pts, support, ubVal, q, numBackups,
                 node, fresh, candidate>>

Next ==
  \/ InitFIB
  \/ \E b \in Belief : InitNode(b) \/ Update(b)
  \/ Expanded
  \/ UpdateValue
  \/ EndUpdate
  \/ PruneCandidate
  \/ EndPrune

Spec == Init /\ [][Next]_vars

-----------------------------------------------------------------------------
AbovePolicies(value, b) ==
  \A v \in {value}, plan \in Policies[problem] : Inner(plan.value, b) <= v

\* The bound is above what any policy earns, at every belief that can be
\* reached, and so is what the nodes report.
UpperBoundSound ==
  /\ pc # "fib" => \A b \in pomdp.reachable : AbovePolicies(Value(b), b)
  /\ \A b \in DOMAIN ubVal : AbovePolicies(ubVal[b], b)

\* No corner rises.
CornersFall == pc # "fib" => \A i \in State : cornerPts'[i] <= cornerPts[i]

\* The bound at a belief that can be reached rises only with a corner: not
\* when a point is deleted because another one makes it superfluous, not when
\* the value of a corner falls, under which every point lies.
BoundNeverRises ==
  [][pc # "fib" /\ CornersFall => \A b \in pomdp.reachable : Value(b)' <= Value(b)]_vars

\* What a node reports is backed: the set of points still gives its belief a
\* value as low, whatever was pruned since.
NodesAreBacked ==
  \A b \in DOMAIN ubVal : pc = "idle" => Value(b) <= ubVal[b]
=============================================================================
