------------------------------- MODULE FRTDP -------------------------------
(***************************************************************************)
(* Focused RTDP (search/FRTDP.cc) over a BoundPair with both bounds: a     *)
(* trial follows the best action and the outcome of highest priority, down *)
(* to a node whose bounds are close or to the maximum depth, and backs up  *)
(* every node on the way down and again on the way up.  The maximum depth  *)
(* grows with the quality of the updates below the last one.               *)
(*                                                                         *)
(* A priority is the logarithm of a positive number, or minus infinity.    *)
(* Here it is that number times PrioScale, rounded up so that a positive   *)
(* one stays positive, and 0 stands for minus infinity.                    *)
(***************************************************************************)
EXTENDS BoundPair, Sequences, SequencesExt

CONSTANTS
  TargetPrecision,  \* terminateRegretBound
  InitMaxDepth,     \* FRTDP_INIT_MAX_DEPTH, in hundredths
  DepthCap,         \* bound on the growth of maxDepth
  PrioScale         \* resolution of priorities

\* Solving with FRTDP without a lower bound is refused (solverUtils.cc).
ASSUME FRTDPAssumption ==
         /\ DualPointBounds
         /\ TargetPrecision \in Nat /\ InitMaxDepth \in Nat
         /\ DepthCap \in Nat /\ PrioScale \in Nat \ {0}
         /\ InitMaxDepth <= 100 * DepthCap

VARIABLES
  problem,      \* the problem planInit was given; never changes
  bp,           \* the bounds
  prio,         \* the priority kept in each node
  pc,           \* where the solver is
  stack,        \* nodes of the active calls of trialRecurse, root first
  oldMaxDepth,  \* the maximum depth before it last grew, in hundredths
  maxDepth,     \* the maximum depth of a trial, in hundredths
  oldImproved,  \* oldQualitySum is not 0
  newUpdates    \* newNumUpdates is not 0

vars == <<problem, bp, prio, pc, stack, oldMaxDepth, maxDepth, oldImproved,
          newUpdates>>

Location ==
  {"planFixedTime",  \* between trials
   "trialRecurse",   \* Last(stack) was just called
   "return",         \* the call below Last(stack) has returned
   "done"}           \* doTrial returned true: the root is precise

TypeOK ==
  /\ problem \in Problem
  /\ bp \in BoundTable
  /\ prio \in [Node -> Nat]
  /\ pc \in Location
  /\ stack \in Seq(Node)
  /\ {oldMaxDepth, maxDepth} \subseteq 0 .. 100 * DepthCap
  /\ oldImproved \in BOOLEAN
  /\ newUpdates \in BOOLEAN

Init ==
  /\ problem \in Problems
  /\ bp = EmptyTable
  /\ prio = [n \in Node |-> 0]
  /\ pc = "planFixedTime"
  /\ stack = <<>>
  /\ oldMaxDepth = 0
  /\ maxDepth = InitMaxDepth
  /\ oldImproved = FALSE
  /\ newUpdates = FALSE

Width(table, n) == table.ub[n] - table.lb[n]

\* Twice the width in excess of RT_PRIO_IMPROVEMENT_CONSTANT (one half) of
\* the target precision.
ExcessWidth(table, n) == 2 * Width(table, n) - TargetPrecision

\* The priority of a node by its own bounds.
OwnPrio(table, n) ==
  IF ExcessWidth(table, n) <= 0 THEN 0 ELSE PrioScale * ExcessWidth(table, n)

\* Priorities with those of the nodes of new that are not in bp:
\* getNodeHandler.
WithNewNodes(new) ==
  [n \in Node |-> IF n \in new.lookup \ bp.lookup
                  THEN OwnPrio(new, n) ELSE prio[n]]

\* discount * obsProb * priority of the outcome, rounded up.
OutcomePrio(pr, s, a, o) ==
  - ((- problem.discount * problem.prob[s][a][o]
        * pr[problem.next[s][a][o]]) \div (DiscountDen * ProbDen))

\* The first outcome of highest priority, -1 when all are minus infinity
\* (maxPrio starts at the value that stands for minus infinity).
MaxPrioOutcome(pr, s, a) ==
  LET value(o) == OutcomePrio(pr, s, a, o)
      able == {o \in Edges(problem, s, a) : value(o) > 0}
  IN  IF able = {} THEN -1
      ELSE CHOOSE o \in able : \A x \in able : /\ value(x) <= value(o)
                                               /\ x < o => value(x) < value(o)

\* Mutant of NodePrio: the priority is the one of the best outcome alone.
NodePrioOutcome(table, pr, s) ==
  LET a == MaxUBAction(table, s)
      o == MaxPrioOutcome(pr, s, a)
  IN  IF o = -1 THEN 0 ELSE OutcomePrio(pr, s, a, o)

\* The priority of s after an update: that of the best outcome, and no more
\* than by its own bounds.
NodePrio(table, pr, s) ==
  LET a   == MaxUBAction(table, s)
      o   == MaxPrioOutcome(pr, s, a)
      own == OwnPrio(table, s)
  IN  IF o = -1 THEN 0
      ELSE IF OutcomePrio(pr, s, a, o) < own THEN OutcomePrio(pr, s, a, o)
      ELSE own

\* update: bounds, then the priorities of new nodes, then that of s.
UpdateNode(s) ==
  /\ bp' = Update(problem, bp, s)
  /\ prio' = [WithNewNodes(bp') EXCEPT
                ![s] = NodePrio(bp', WithNewNodes(bp'), s)]

-----------------------------------------------------------------------------
\* planFixedTime: doTrial on the root, made on the first call.
PlanFixedTime ==
  /\ pc = "planFixedTime"
  /\ bp' = GetNodes(problem, bp, {problem.initial})
  /\ prio' = WithNewNodes(bp')
  /\ stack' = <<problem.initial>>
  /\ oldImproved' = FALSE
  /\ newUpdates' = FALSE
  /\ pc' = "trialRecurse"
  /\ UNCHANGED <<problem, oldMaxDepth, maxDepth>>

\* The quality of the update just made of s is counted.  (It is the change of
\* the upper bound times the discounted probability of getting there, which
\* the code takes to be 0 below exp(-50): no trial here is that unlikely.)
CountQuality(s, depth) ==
  IF 100 * depth > oldMaxDepth
  THEN newUpdates' = TRUE /\ oldImproved' = oldImproved
  ELSE /\ oldImproved' = (oldImproved \/ bp'.ub[s] < bp.ub[s])
       /\ newUpdates' = newUpdates

\* trialRecurse updates its node and ends the trial there ...
TrialEnds ==
  LET s     == Last(stack)
      depth == Len(stack) - 1
  IN  /\ pc = "trialRecurse"
      /\ UpdateNode(s)
      /\ CountQuality(s, depth)
      /\ ExcessWidth(bp', s) <= 0 \/ 100 * depth > maxDepth
      /\ stack' = Front(stack)
      /\ pc' = "return"
      /\ UNCHANGED <<problem, oldMaxDepth, maxDepth>>

\* ... or calls itself on the best outcome, which the code asserts to exist.
TrialStep ==
  LET s     == Last(stack)
      depth == Len(stack) - 1
      a     == MaxUBAction(bp', s)
      o     == MaxPrioOutcome(WithNewNodes(bp'), s, a)
  IN  /\ pc = "trialRecurse"
      /\ UpdateNode(s)
      /\ CountQuality(s, depth)
      /\ ExcessWidth(bp', s) > 0 /\ 100 * depth <= maxDepth
      /\ o # -1
      /\ stack' = Append(stack, problem.next[s][a][o])
      /\ UNCHANGED <<problem, pc, oldMaxDepth, maxDepth>>

\* On the way back up every node is updated again.
TrialReturns ==
  /\ pc = "return"
  /\ stack # <<>>
  /\ UpdateNode(Last(stack))
  /\ stack' = Front(stack)
  /\ UNCHANGED <<problem, pc, oldMaxDepth, maxDepth, oldImproved, newUpdates>>

\* Mutant of MayDeepen: a trial that changed nothing keeps the depth.
MayDeepenIfImproved == IF oldImproved /\ newUpdates THEN {TRUE, FALSE} ELSE {FALSE}

\* Whether maxDepth grows.  It does when no update up to the old depth
\* changed an upper bound, and does not when none was made below it; when
\* both were made it depends on their mean qualities.
MayDeepen ==
  IF ~oldImproved THEN {TRUE} ELSE IF ~newUpdates THEN {FALSE} ELSE {TRUE, FALSE}

\* doTrial: maxDepth grows by FRTDP_MAX_DEPTH_ADJUST_RATIO, or not.
EndTrial(deepen) ==
  /\ pc = "return"
  /\ stack = <<>>
  /\ deepen \in MayDeepen
  /\ oldMaxDepth' = IF deepen THEN maxDepth ELSE oldMaxDepth
  /\ maxDepth' = IF ~deepen THEN maxDepth
                 ELSE IF (11 * maxDepth) \div 10 > 100 * DepthCap THEN 100 * DepthCap
                 ELSE (11 * maxDepth) \div 10
  /\ pc' = IF Width(bp, problem.initial) < TargetPrecision
           THEN "done" ELSE "planFixedTime"
  /\ UNCHANGED <<problem, bp, prio, stack, oldImproved, newUpdates>>

Next ==
  \/ PlanFixedTime
  \/ TrialEnds
  \/ TrialStep
  \/ TrialReturns
  \/ \E deepen \in BOOLEAN : EndTrial(deepen)

Spec == Init /\ [][Next]_vars

\* The solver runs until it is done (doSolve calls planFixedTime in a loop).
FairSpec == Spec /\ WF_vars(Next)

-----------------------------------------------------------------------------
\* A node has priority minus infinity only when its bounds are close enough,
\* however its successors have changed since it was last updated, and is
\* never more urgent than its own bounds make it.
PrioBounds ==
  \A n \in bp.lookup :
    /\ prio[n] = 0 => ExcessWidth(bp, n) <= 0
    /\ prio[n] <= OwnPrio(bp, n)

\* A trial calls itself only on nodes that it can improve, and always finds
\* one: the assertion of trialRecurse, which relies on PrioBounds.
AssertionHolds ==
  pc = "trialRecurse" =>
    LET s  == Last(stack)
        t  == Update(problem, bp, s)
    IN  /\ Len(stack) > 1 => ExcessWidth(bp, s) > 0
        /\ ExcessWidth(t, s) > 0 =>
             MaxPrioOutcome(WithNewNodes(t), s, MaxUBAction(t, s)) # -1

\* Priorities never hide a node that is still imprecise.
PrioSound == PrioBounds /\ AssertionHolds

\* The policy that looks ahead over the lower bound (the default when both
\* bounds are kept) is worth at least the bound at every expanded node: no
\* step of it can lose value against the bound.  (A fringe node may have a
\* terminal successor that has no node yet and is not known to be worth 0.)
PolicyKeepsLowerBound ==
  problem \in UniformProblems =>
    \A s \in bp.expanded : ~problem.terminal[s] =>
      bp.lb[s] <= Backup(problem, ValueOf(problem, bp, bp.lb, problem.lower), s,
                         ChooseActionLB(problem, bp, s))

\* The root becomes precise: no trial pattern starves it, and maxDepth does
\* not stay too small.
RootPrecise == <>(pc = "done")
=============================================================================
