------------------------------- MODULE RelaxUB -------------------------------
(***************************************************************************)
(* The stronger upper bound heuristic for racetracks                       *)
(* (bounds/RelaxUBInitializer.cc): the problem is relaxed so that the      *)
(* outcome of an action may be chosen, and the relaxed problem is solved   *)
(* from the initial state by trials that follow the best path as long as   *)
(* no alternative left on the way is better.                               *)
(***************************************************************************)
EXTENDS Integers, Sequences, SequencesExt, FiniteSetsExt

CONSTANTS
  NumActions,       \* actions are numbered from 0
  DiscountDen,      \* denominator of discounts
  Problems,         \* the problems a run may be given
  Relaxed,          \* the values of the states of each problem, once relaxed
  MinusInfinity,    \* -99e+20
  TargetPrecision   \* what the root's bounds may differ by in the end

Action == 0 .. NumActions - 1

\* A problem as the relaxation sees it: next holds for each state and action
\* the states its possible outcomes lead to, in the order of the outcomes.
IsProblem(p) ==
  LET State == DOMAIN p.next
  IN  /\ p.initial \in State
      /\ p.terminal \subseteq State
      /\ \A s \in State, a \in Action :
            p.next[s][a] \in Seq(State) \ {<<>>}
      /\ p.reward \in [State -> [Action -> Int]]
      /\ p.discount \in 1 .. DiscountDen
      /\ p.lower \in [State -> Int] /\ p.upper \in [State -> Int]

\* v are values of the relaxed problem, in which a state is worth what its best
\* action gives with the best of its outcomes, and the heuristics bracket them.
IsRelaxedValue(p, v) ==
  LET State == DOMAIN p.next
      value(s, a, i) == p.reward[s][a] + ((p.discount * v[p.next[s][a][i]]) \div DiscountDen)
  IN  /\ v \in [State -> Int]
      /\ \A s \in State :
           /\ p.lower[s] <= v[s] /\ v[s] <= p.upper[s]
           /\ \E a \in Action : \E i \in DOMAIN p.next[s][a] : v[s] = value(s, a, i)
           /\ \A a \in Action : \A i \in DOMAIN p.next[s][a] : value(s, a, i) <= v[s]

ASSUME NumActionsAssumption == NumActions \in Nat /\ NumActions > 1
ASSUME ProblemsAssumption == \A p \in Problems : IsProblem(p)
ASSUME RelaxedAssumption == \A p \in Problems : IsRelaxedValue(p, Relaxed[p])
ASSUME InfinityAssumption ==
         /\ MinusInfinity \in Int
         /\ \A p \in Problems : \A s \in DOMAIN p.next : MinusInfinity < 2 * p.lower[s]

VARIABLES
  problem,   \* the problem; never changes
  lookup,    \* the bounds of each node by its state
  expanded,  \* the nodes that are no fringe nodes
  stack,     \* the calls of trialRecurse: state, costSoFar, altActionPrio
  pc         \* "width" between trials, "call" or "return" in one, "done"

vars == <<problem, lookup, expanded, stack, pc>>

root == problem.initial

\* getNode, for a state that has no node.
NewNode(p, s) == [lbVal |-> p.lower[s], ubVal |-> p.upper[s]]

-----------------------------------------------------------------------------
\* Mutant of Best: the last outcome counts, as without std::max.
BestIsLast(bounds) == bounds[Len(bounds)]

\* The outcome of an action that counts is the best one.
Best(bounds) == Max(ToSet(bounds))

\* The Q entry of action a.
QVal(nodes, s, a) ==
  LET sn == [i \in DOMAIN problem.next[s][a] |-> nodes[problem.next[s][a][i]]]
      value(v) == problem.reward[s][a] + ((problem.discount * v) \div DiscountDen)
  IN  [ lbVal |-> value(Best([i \in DOMAIN sn |-> sn[i].lbVal])),
        ubVal |-> value(Best([i \in DOMAIN sn |-> sn[i].ubVal])) ]

\* expand: a node for each state that an outcome leads to.
Expand(s) ==
  LET reached == UNION {ToSet(problem.next[s][a]) : a \in Action}
  IN  [x \in DOMAIN lookup \cup reached |->
         IF x \in DOMAIN lookup THEN lookup[x] ELSE NewNode(problem, x)]

\* updateInternal: a node has the bounds of its best action.
UpdateInternal(nodes, s, q) ==
  [ q     |-> q,
    nodes |-> [nodes EXCEPT ![s] = [ lbVal |-> Max({q[a].lbVal : a \in Action}),
                                     ubVal |-> Max({q[a].ubVal : a \in Action}) ]] ]

\* update, as the set of its one result.  (Expanding a second time would find
\* every node.)
Update(s) ==
  UNION {{UpdateInternal(nodes, s, q) : q \in {[a \in Action |-> QVal(nodes, s, a)]}} :
           nodes \in {Expand(s)}}

Apply(u, s) ==
  /\ lookup' = u.nodes
  /\ expanded' = expanded \cup {s}

\* getMaxUBAction: the first best action, and the value of the second best.
MaxUBAction(q) ==
  Min({a \in Action : \A b \in Action : q[b].ubVal <= q[a].ubVal})
SecondBest(q) ==
  Max({q[a].ubVal : a \in Action \ {MaxUBAction(q)}})

\* Where the first outcome with the highest upper bound leads to.
BestOutcome(nodes, s, a) ==
  LET next == problem.next[s][a]
      best == {i \in DOMAIN next :
                 \A j \in DOMAIN next : nodes[next[j]].ubVal <= nodes[next[i]].ubVal}
  IN  next[Min(best)]

-----------------------------------------------------------------------------
\* setup
Init ==
  /\ problem \in Problems
  /\ lookup = [x \in {root} |-> NewNode(problem, x)]
  /\ expanded = {}
  /\ stack = <<>>
  /\ pc = "width"

Width == lookup[root].ubVal - lookup[root].lbVal

DoTrial ==
  /\ pc = "width" /\ Width >= TargetPrecision
  /\ stack' = <<[s |-> root, costSoFar |-> 0, altActionPrio |-> MinusInfinity]>>
  /\ pc' = "call"
  /\ UNCHANGED <<problem, lookup, expanded>>

Terminate ==
  /\ pc = "width" /\ Width < TargetPrecision
  /\ pc' = "done"
  /\ UNCHANGED <<problem, lookup, expanded, stack>>

Top == stack[Len(stack)]

\* Mutant of AlternativeIsBetter: one that is as good ends the trial, too.
AlternativeIsAsGood(f, u) == f.altActionPrio >= f.costSoFar + u.nodes[f.s].ubVal

\* The check for termination.
AlternativeIsBetter(f, u) ==
  f.altActionPrio > f.costSoFar + u.nodes[f.s].ubVal

\* The call that follows the best outcome of the best action.
Successor(f, u) ==
  LET a == MaxUBAction(u.q)
  IN  [ s             |-> BestOutcome(u.nodes, f.s, a),
        costSoFar     |-> f.costSoFar + problem.reward[f.s][a],
        altActionPrio |-> Max({f.altActionPrio, SecondBest(u.q) + f.costSoFar}) ]

TrialEnds ==
  /\ pc = "call"
  /\ \E u \in Update(Top.s) :
        /\ AlternativeIsBetter(Top, u)
        /\ Apply(u, Top.s)
  /\ stack' = Front(stack)
  /\ pc' = "return"
  /\ UNCHANGED problem

TrialStep ==
  /\ pc = "call"
  /\ \E u \in Update(Top.s) :
        /\ ~AlternativeIsBetter(Top, u)
        /\ Apply(u, Top.s)
        /\ stack' = Append(stack, Successor(Top, u))
  /\ UNCHANGED <<problem, pc>>

TrialReturns ==
  /\ pc = "return" /\ stack # <<>>
  /\ \E u \in Update(Top.s) : Apply(u, Top.s)
  /\ stack' = Front(stack)
  /\ UNCHANGED <<problem, pc>>

EndTrial ==
  /\ pc = "return" /\ stack = <<>>
  /\ pc' = "width"
  /\ UNCHANGED <<problem, lookup, expanded, stack>>

Next == DoTrial \/ Terminate \/ TrialEnds \/ TrialStep \/ TrialReturns \/ EndTrial

Spec     == Init /\ [][Next]_vars
FairSpec == Spec /\ WF_vars(Next)

\* getValue with no node, as PointUpperBound calls it for a new search node.
GetValue(s) == problem.upper[s]

-----------------------------------------------------------------------------
\* The relaxed problem's value stays between the bounds of every node, whatever
\* the trials have and have not reached.
Enclosed ==
  \A x \in DOMAIN lookup :
    /\ lookup[x].lbVal <= Relaxed[problem][x]
    /\ Relaxed[problem][x] <= lookup[x].ubVal

\* The initialisation ends, though trialRecurse does not ask for terminal
\* states: there every action costs nothing and leads back, so that a trial
\* that went on from one would not return.
Ends == <>(pc = "done")
=============================================================================
