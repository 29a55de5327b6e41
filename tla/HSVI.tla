-------------------------------- MODULE HSVI --------------------------------
(***************************************************************************)
(* Heuristic search value iteration (search/HSVI.cc) over a BoundPair with *)
(* both bounds: a trial follows the best action and the outcome with the   *)
(* most excess uncertainty, down to a node that has none, and backs up     *)
(* every node on the way down and again on the way up.  (The adaptive      *)
(* depth of USE_HSVI_ADAPTIVE_DEPTH is not compiled in.)                   *)
(*                                                                         *)
(* The excess uncertainty of a node at some depth is its width less the    *)
(* trial's precision / discount^depth.  Here both are multiplied by        *)
(* discount^depth, which keeps them integers and orders them alike.        *)
(***************************************************************************)
EXTENDS BoundPair, Sequences, SequencesExt

CONSTANTS
  TargetPrecision,  \* terminateRegretBound
  Value             \* the values of the states of each problem

\* Solving with HSVI without a lower bound is refused (solverUtils.cc).
ASSUME HSVIAssumption == DualPointBounds /\ TargetPrecision \in Nat

\* The values are those that no backup changes, and the heuristics bracket
\* them: newLowerBound and newUpperBound make bounds that are "valid for this
\* MDP".
ASSUME ValueAssumption ==
         /\ Value \in [Problems -> [Node -> Int]]
         /\ \A p \in Problems : IsValue(p, Value[p]) /\ ValidHeuristics(p, Value[p])

VARIABLES
  problem,     \* the problem planInit was given; never changes
  bp,          \* the bounds
  pc,          \* "planFixedTime" between trials, "trialRecurse" when
               \* Last(stack) was just called, "return" when the call below
               \* it has returned, "done" when doTrial has returned true
  stack,       \* nodes of the active calls of trialRecurse, root first
  startWidth   \* of the root when the trial began: trialTargetPrecision is
               \* 0.95 (HSVI_IMPROVEMENT_CONSTANT) of it

vars == <<problem, bp, pc, stack, startWidth>>

TypeOK ==
  /\ problem \in Problem
  /\ bp \in BoundTable
  /\ pc \in {"planFixedTime", "trialRecurse", "return", "done"}
  /\ stack \in Seq(Node)
  /\ startWidth \in Int

Init ==
  /\ problem \in Problems
  /\ bp = EmptyTable
  /\ pc = "planFixedTime"
  /\ stack = <<>>
  /\ startWidth = 0

Width(table, n) == table.ub[n] - table.lb[n]

\* x to the power of k: pow.
pow(x, k) ==
  LET power[i \in Nat] == IF i = 0 THEN 1 ELSE x * power[i - 1]
  IN  power[k]

\* 20 * DiscountDen^depth * discount^depth * the excess uncertainty.
ExcessUnc(table, n, depth) ==
  20 * pow(problem.discount, depth) * Width(table, n)
    - 19 * pow(DiscountDen, depth) * startWidth

\* The first outcome with the most excess uncertainty, weighted by its
\* probability.
MaxExcessUncOutcome(table, s, a, depth) ==
  LET unc(o) == problem.prob[s][a][o]
                  * ExcessUnc(table, problem.next[s][a][o], depth + 1)
      E == Edges(problem, s, a)
  IN  CHOOSE o \in E : \A x \in E : /\ unc(x) <= unc(o)
                                    /\ x < o => unc(x) < unc(o)

UpdateNode(s) == bp' = Update(problem, bp, s)

-----------------------------------------------------------------------------
\* planFixedTime: doTrial on the root, made on the first call.
PlanFixedTime ==
  /\ pc = "planFixedTime"
  /\ bp' = GetNodes(problem, bp, {problem.initial})
  /\ startWidth' = Width(bp', problem.initial)
  /\ stack' = <<problem.initial>>
  /\ pc' = "trialRecurse"
  /\ UNCHANGED problem

\* Mutant of StopsAt: the depth is one too large.
StopsAtNextDepth(s, depth) == ExcessUnc(bp, s, depth + 1) <= 0

StopsAt(s, depth) == ExcessUnc(bp, s, depth) <= 0

TrialEnds ==
  /\ pc = "trialRecurse"
  /\ StopsAt(Last(stack), Len(stack) - 1)
  /\ stack' = Front(stack)
  /\ pc' = "return"
  /\ UNCHANGED <<problem, bp, startWidth>>

\* The node is updated, and trialRecurse calls itself on the best outcome.
TrialStep ==
  LET s     == Last(stack)
      depth == Len(stack) - 1
      a     == MaxUBAction(bp', s)
      o     == MaxExcessUncOutcome(bp', s, a, depth)
  IN  /\ pc = "trialRecurse"
      /\ ~StopsAt(s, depth)
      /\ UpdateNode(s)
      /\ stack' = Append(stack, problem.next[s][a][o])
      /\ UNCHANGED <<problem, pc, startWidth>>

\* On the way back up every node is updated again.
TrialReturns ==
  /\ pc = "return"
  /\ stack # <<>>
  /\ UpdateNode(Last(stack))
  /\ stack' = Front(stack)
  /\ UNCHANGED <<problem, pc, startWidth>>

EndTrial ==
  /\ pc = "return"
  /\ stack = <<>>
  /\ pc' = IF Width(bp, problem.initial) < TargetPrecision
           THEN "done" ELSE "planFixedTime"
  /\ UNCHANGED <<problem, bp, stack, startWidth>>

Next ==
  \/ PlanFixedTime
  \/ TrialEnds
  \/ TrialStep
  \/ TrialReturns
  \/ EndTrial

Spec == Init /\ [][Next]_vars

\* The solver runs until it is done (doSolve calls planFixedTime in a loop).
FairSpec == Spec /\ WF_vars(Next)

-----------------------------------------------------------------------------
\* No bound, and no cached Q value, ever leaves its side of the values, in
\* whatever order trials update the nodes.
Bracket == Bracketed(problem, Value[problem], bp)

\* The root becomes precise: no trial changes nothing and is made again.
RootPrecise == <>(pc = "done")
=============================================================================
