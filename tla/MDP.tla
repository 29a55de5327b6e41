-------------------------------- MODULE MDP --------------------------------
(***************************************************************************)
(* The planning problem as every solver of zmdp sees it: the interface MDP *)
(* of common/MDPModel.h, with the value backup all bounds are built from.  *)
(*                                                                         *)
(* Values, rewards and probabilities are doubles in the code.  Here they   *)
(* are fixed-point integers: a probability is a numerator over ProbDen, a  *)
(* discount a numerator over DiscountDen, and a backup rounds down.  The   *)
(* rounding is monotone, which is what the properties rely on.             *)
(*                                                                         *)
(* An action has two outcomes, as a move of the racetrack has; an outcome  *)
(* of probability 0 is one the model does not produce (a NULL edge).       *)
(***************************************************************************)
EXTENDS Integers, FiniteSets

CONSTANTS
  Node,         \* identities of states: a node stands for one state vector
  NumActions,   \* actions are numbered from 0, as in the code
  ProbDen,      \* denominator of outcome probabilities
  DiscountDen,  \* denominator of discount factors
  Problems      \* the problem instances a run may be given

Action  == 0 .. NumActions - 1
Outcome == {0, 1}

ASSUME NumActionsAssumption == NumActions \in Nat \ {0}
ASSUME DenominatorAssumption ==
         ProbDen \in Nat \ {0} /\ DiscountDen \in Nat \ {0}

(***************************************************************************)
(* A problem: initial state, terminal states, reward R(s,a), outcome       *)
(* probabilities and successors, discount, and the values of the heuristic *)
(* bounds (AbstractBound::getValue of newLowerBound and newUpperBound).    *)
(***************************************************************************)
Problem ==
  [ initial  : Node,
    terminal : [Node -> BOOLEAN],
    reward   : [Node -> [Action -> Int]],
    prob     : [Node -> [Action -> [Outcome -> 0 .. ProbDen]]],
    next     : [Node -> [Action -> [Outcome -> Node]]],
    discount : 0 .. DiscountDen,
    lower    : [Node -> Int],
    upper    : [Node -> Int] ]

ASSUME ProblemsAssumption == Problems \subseteq Problem

\* Every action has an outcome, as its probabilities sum to one.
ASSUME DistributionAssumption ==
         \A p \in Problems, s \in Node, a \in Action :
            p.prob[s][a][0] + p.prob[s][a][1] = ProbDen

\* The outcomes an edge is made for, and the states they lead to.
Edges(p, s, a)      == {o \in Outcome : p.prob[s][a][o] > 0}
Successors(p, s, a) == {p.next[s][a][o] : o \in Edges(p, s, a)}

\* R(s,a) + discount * sum over outcomes of prob * value of the next state.
Backup(p, val, s, a) ==
  p.reward[s][a] +
    (p.discount * (  p.prob[s][a][0] * val[p.next[s][a][0]]
                   + p.prob[s][a][1] * val[p.next[s][a][1]]))
      \div (DiscountDen * ProbDen)

\* The first action of largest value: a later one must be strictly better.
MaxAction(q) ==
  CHOOSE a \in Action : \A b \in Action : /\ q[b] <= q[a]
                                          /\ b < a => q[b] < q[a]

MaxValue(q) == q[MaxAction(q)]
=============================================================================
