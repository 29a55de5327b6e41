------------------------------ MODULE MCLRTDP ------------------------------
(***************************************************************************)
(* LRTDP on the instances of Tracks, against the reference values.         *)
(***************************************************************************)
EXTENDS LRTDP, Tracks

\* When the root is solved and the problem is discounted, the policy that
\* looks ahead over the bounds loses at most (TargetPrecision + 1)/(1 -
\* discount) against the root's upper bound, the 1 being for rounding.
RegretBounded ==
  pc = "done" /\ problem \in UniformProblems /\ problem.discount < DiscountDen =>
    LET policy == [n \in Node |-> ChooseActionUB(problem, bp, n)]
        regret == bp.ub[problem.initial]
                    - PolicyValue(problem, policy)[problem.initial]
    IN  (DiscountDen - problem.discount) * regret
          <= DiscountDen * (TargetPrecision + 1)

=============================================================================
