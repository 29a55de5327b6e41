------------------------------- MODULE Tracks -------------------------------
(***************************************************************************)
(* Problem instances for TLC: stochastic shortest-path problems over three *)
(* nodes and a goal, with back edges and heuristics of every kind, and the *)
(* reference values the bounds are compared with: the optimal value of a   *)
(* problem and the value of a policy, by Horizon rounds of value iteration *)
(* from the pessimistic heuristic, in the arithmetic of MDP.  Each round   *)
(* stays below the exact value, so "an upper bound is at least this" is    *)
(* implied by soundness whatever Horizon is.                               *)
(***************************************************************************)
EXTENDS BoundPair, TLC

CONSTANT Horizon

ASSUME HorizonAssumption == Horizon \in Nat

\* The value after Horizon rounds, acting in each node as choose says.  (The
\* union with the empty function has TLC evaluate each round only once.)
IteratedValue(p, choose(_, _)) ==
  LET V[k \in 0 .. Horizon] ==
        IF k = 0
        THEN [n \in Node |-> IF p.terminal[n] THEN 0 ELSE p.lower[n]]
        ELSE LET prev == V[k - 1]
             IN  [n \in Node |->
                    IF p.terminal[n] THEN 0
                    ELSE Backup(p, prev, n, choose(prev, n))] @@ <<>>
  IN  V[Horizon]

OptimalValue(p) ==
  IteratedValue(p, LAMBDA v, n : MaxAction([a \in Action |-> Backup(p, v, n, a)]))

PolicyValue(p, policy) == IteratedValue(p, LAMBDA v, n : policy[n])

\* Evaluated once per problem.
Optimal == [p \in Problems |-> OptimalValue(p)] @@ <<>>

CONSTANTS n0, n1, n2, goal

States    == {n0, n1, n2, goal}
Undefined == -10000

\* Outcome probabilities out of 2: a coin toss, or outcome 0 alone.
Toss == [o \in Outcome |-> 1]
Sure == [o \in Outcome |-> IF o = 0 THEN 2 ELSE 0]

To(x, y) == [o \in Outcome |-> IF o = 0 THEN x ELSE y]

\* x and y are where the risky actions of n1 and n2 may fall back to.
Track(x, y, cost, discount, heuristic) ==
  [ initial  |-> n0,
    terminal |-> [n \in Node |-> n = goal],
    reward   |-> [n \in Node |-> [a \in Action |->
                   CASE n = n0   -> IF a = 0 THEN -4 ELSE -6
                     [] n = n1   -> IF a = 0 THEN -2 ELSE -1
                     [] n = n2   -> IF a = 0 THEN cost ELSE -2
                     [] n = goal -> 0]],
    prob     |-> [n \in Node |-> [a \in Action |->
                   CASE n = n0   -> IF a = 0 THEN Toss ELSE Sure
                     [] n = n1   -> IF a = 0 THEN Toss ELSE Sure
                     [] n = n2   -> IF a = 0 THEN Sure ELSE Toss
                     [] n = goal -> Sure]],
    next     |-> [n \in Node |-> [a \in Action |->
                   CASE n = n0   -> IF a = 0 THEN To(n1, n2) ELSE To(n2, n2)
                     [] n = n1   -> IF a = 0 THEN To(goal, x) ELSE To(n2, n2)
                     [] n = n2   -> IF a = 0 THEN To(goal, goal) ELSE To(goal, y)
                     [] n = goal -> To(goal, goal)]],
    discount |-> discount,
    lower    |-> [n \in Node |-> -40],
    upper    |-> heuristic ]

\* The trivial heuristic and informed ones that need not be consistent.
Heuristics ==
  {[n \in Node |-> IF n = n0 THEN h0 ELSE IF n = n1 THEN h1 ELSE 0] :
     h0 \in {0, -3, -5}, h1 \in {0, -2}}

Tracks(xs, ys, costs, discounts) ==
  {p \in {Track(x, y, c, d, h) : x \in xs, y \in ys, c \in costs,
                                 d \in discounts, h \in Heuristics} :
     ValidHeuristics(p, OptimalValue(p))}

\* A discounted chain that looks free until its last node, and a way around
\* it: a solver that stops early loses a lot.  From n1 an action may go back.
Trap(toll, back) ==
  [ initial  |-> n0,
    terminal |-> [n \in Node |-> n = goal],
    reward   |-> [n \in Node |-> [a \in Action |->
                   CASE n = n0   -> IF a = 0 THEN 0 ELSE -10
                     [] n = n1   -> 0
                     [] n = n2   -> toll
                     [] n = goal -> 0]],
    prob     |-> [n \in Node |-> [a \in Action |->
                   IF n = n1 /\ a = 1 THEN Toss ELSE Sure]],
    next     |-> [n \in Node |-> [a \in Action |->
                   CASE n = n0   -> IF a = 0 THEN To(n1, n1) ELSE To(goal, goal)
                     [] n = n1   -> To(n2, back)
                     [] n = n2   -> To(goal, goal)
                     [] n = goal -> To(goal, goal)]],
    discount |-> 3,
    lower    |-> [n \in Node |-> -60],
    upper    |-> [n \in Node |-> 0] ]

Traps == {Trap(toll, back) : toll \in {-40, -15}, back \in {n0, n1, n2}}

CyclicTracks == Tracks({n0, n2}, {n1, n2}, {-3, -8}, {3, 4}) \cup Traps

\* In each node a cheap coin toss between two nodes, or a dear way out: the
\* greedy envelopes are strongly connected in many ways.
Loop(e0, e1, e2, escape) ==
  [ initial  |-> n0,
    terminal |-> [n \in Node |-> n = goal],
    reward   |-> [n \in Node |-> [a \in Action |->
                   IF n = goal THEN 0 ELSE IF a = 0 THEN -2 ELSE escape]],
    prob     |-> [n \in Node |-> [a \in Action |-> IF a = 0 THEN Toss ELSE Sure]],
    next     |-> [n \in Node |-> [a \in Action |->
                   IF a = 1 \/ n = goal THEN To(goal, goal)
                   ELSE CASE n = n0 -> e0 [] n = n1 -> e1 [] n = n2 -> e2]],
    discount |-> DiscountDen,
    lower    |-> [n \in Node |-> -40],
    upper    |-> [n \in Node |-> 0] ]

Loops ==
  {Loop(e0, e1, e2, -9) :
     e0 \in {To(n1, n2), To(n1, goal), To(n2, n1)},
     e1 \in {To(n0, n2), To(n2, n0), To(n2, goal), To(n1, n2), To(goal, n0)},
     e2 \in {To(n0, goal), To(n1, goal), To(goal, n1), To(n1, n0), To(n2, goal)}}

TracksAndLoops == CyclicTracks \cup Loops

\* The same problem with every reward and heuristic value times k: rounding
\* takes a smaller part of them.
Scaled(p, k) ==
  [p EXCEPT
     !.reward = [n \in Node |-> [a \in Action |-> k * p.reward[n][a]]],
     !.lower  = [n \in Node |-> k * p.lower[n]],
     !.upper  = [n \in Node |-> k * p.upper[n]]]

ScaledTracks == {Scaled(p, 4) : p \in TracksAndLoops}
=============================================================================
