-------------------------------- MODULE HDP --------------------------------
(***************************************************************************)
(* Heuristic dynamic programming (search/HDP.cc) over a BoundPair: a depth *)
(* first search of the greedy envelope of the root that backs up nodes     *)
(* with big residuals and, with Tarjan's indices, labels the strongly      *)
(* connected components in which there were none.                          *)
(*                                                                         *)
(* The recursion of trialRecurse is the variable frames, and each pass of  *)
(* its loop over outcomes is a step.                                       *)
(***************************************************************************)
EXTENDS BoundPair, Sequences, SequencesExt

CONSTANT TargetPrecision  \* terminateRegretBound

ASSUME HDPAssumption == TargetPrecision \in Nat

VARIABLES
  problem,    \* the problem planInit was given; never changes
  bp,         \* the bounds
  solved,     \* nodes whose isSolved flag is set
  idx, low,   \* Tarjan's numbers, kept in the node
  index,      \* the next number to give
  nodeStack,  \* visited and not yet labelled, top last
  visited,    \* nodes numbered in this trial
  pc,         \* where the solver is
  callee,     \* the node trialRecurse is called on
  frames      \* active calls that passed the residual check, root first

vars == <<problem, bp, solved, idx, low, index, nodeStack, visited, pc,
          callee, frames>>

PlusInfinity == 2147483647  \* RT_IDX_PLUS_INFINITY, INT_MAX

\* index is an int that nothing guards: no node is given the number that
\* stands for none only because memory holds fewer nodes than that.
ASSUME NodeCountAssumption ==
         IsFiniteSet(Node) /\ Cardinality(Node) <= PlusInfinity

Location ==
  {"planFixedTime",  \* between trials
   "call",           \* trialRecurse was just called on callee
   "loop",           \* in the loop over outcomes of Last(frames)
   "endTrial",       \* the call on the root returned
   "done"}           \* doTrial returned true

\* A call in its loop: its node and action, the outcome it is at (2 when the
\* loop is over), and the result so far.
Frame == [node : Node, action : Action, o : 0 .. 2, flag : BOOLEAN]

TypeOK ==
  /\ problem \in Problem
  /\ bp \in BoundTable
  /\ solved \in SUBSET Node
  /\ idx \in [Node -> Nat]
  /\ low \in [Node -> Nat]
  /\ index \in Nat
  /\ nodeStack \in Seq(Node)
  /\ visited \in SUBSET Node
  /\ pc \in Location
  /\ callee \in Node
  /\ frames \in Seq(Frame)

Init ==
  /\ problem \in Problems
  /\ bp = EmptyTable
  /\ solved = {}
  /\ idx = [n \in Node |-> PlusInfinity]
  /\ low = [n \in Node |-> PlusInfinity]
  /\ index = 0
  /\ nodeStack = <<>>
  /\ visited = {}
  /\ pc = "planFixedTime"
  /\ callee = problem.initial
  /\ frames = <<>>

\* A new table of bounds: getNodeHandler labels the new nodes that are
\* terminal.
SetBounds(new) ==
  /\ bp' = new
  /\ solved' = solved \cup
                 {n \in new.lookup \ bp.lookup : problem.terminal[n]}

\* Update keeping the changes to Q but not the one to ubVal.
CacheQ(s) == [Update(problem, bp, s) EXCEPT !.ub[s] = bp.ub[s]]

Distance(x, y) == IF x >= y THEN x - y ELSE y - x

Residual(table, s) == Distance(table.ub[s], MaxValue(table.qub[s]))

BigResidual(table, s) == Residual(table, s) > TargetPrecision

Least(x, y) == IF x < y THEN x ELSE y

-----------------------------------------------------------------------------
\* doTrial returns true at once when the root is solved.
PlanFixedTime ==
  /\ pc = "planFixedTime"
  /\ SetBounds(GetNodes(problem, bp, {problem.initial}))
  /\ callee' = problem.initial
  /\ index' = 0
  /\ pc' = IF problem.initial \in solved' THEN "done" ELSE "call"
  /\ UNCHANGED <<problem, idx, low, nodeStack, visited, frames>>

\* trialRecurse on s returns flag to the call below it, if there is one:
\* calls are the calls that remain and lows the low numbers at that moment.
Return(calls, s, flag, lows) ==
  IF calls = <<>>
  THEN /\ pc' = "endTrial"
       /\ frames' = calls
       /\ low' = lows
  ELSE LET caller == Last(calls)
       IN  /\ pc' = "loop"
           /\ frames' = Append(Front(calls),
                               [caller EXCEPT !.o = @ + 1, !.flag = @ \/ flag])
           /\ low' = [lows EXCEPT ![caller.node] = Least(@, lows[s])]

CallSolved ==
  /\ pc = "call"
  /\ callee \in solved
  /\ Return(frames, callee, FALSE, low)
  /\ UNCHANGED <<problem, bp, solved, idx, index, nodeStack, visited, callee>>

\* Mutant of TakeBestQ: ubVal keeps its value.
TakeNothing(table, s) == table

TakeBestQ(table, s) == [table EXCEPT !.ub[s] = MaxValue(table.qub[s])]

\* A big residual: ubVal becomes the best Q value and the call returns true.
CallBigResidual ==
  LET cached == CacheQ(callee)
  IN  /\ pc = "call"
      /\ callee \notin solved
      /\ BigResidual(cached, callee)
      /\ SetBounds(TakeBestQ(cached, callee))
      /\ Return(frames, callee, TRUE, low)
      /\ UNCHANGED <<problem, idx, index, nodeStack, visited, callee>>

\* A small residual: the node is numbered and its outcomes looked at.
CallEnter ==
  LET cached == CacheQ(callee)
  IN  /\ pc = "call"
      /\ callee \notin solved
      /\ ~BigResidual(cached, callee)
      /\ SetBounds(cached)
      /\ visited' = visited \cup {callee}
      /\ nodeStack' = Append(nodeStack, callee)
      /\ idx' = [idx EXCEPT ![callee] = index]
      /\ low' = [low EXCEPT ![callee] = index]
      /\ index' = index + 1
      /\ frames' = Append(frames, [node |-> callee, o |-> 0, flag |-> FALSE,
                                   action |-> MaxUBAction(cached, callee)])
      /\ pc' = "loop"
      /\ UNCHANGED <<problem, callee>>

InLoop(f) == f.o < 2

\* One pass of the loop over outcomes: a node without a number is called,
\* the number of a node on the stack lowers low, others are passed over.
LoopOutcome ==
  LET f  == Last(frames)
      sn == problem.next[f.node][f.action][f.o]
      edge == f.o \in Edges(problem, f.node, f.action)
  IN  /\ pc = "loop"
      /\ InLoop(f)
      /\ IF edge /\ idx[sn] = PlusInfinity
         THEN /\ callee' = sn
              /\ pc' = "call"
              /\ UNCHANGED <<low, frames>>
         ELSE /\ low' = IF edge /\ sn \in ToSet(nodeStack)
                        THEN [low EXCEPT ![f.node] = Least(@, idx[sn])]
                        ELSE low
              /\ frames' = Append(Front(frames), [f EXCEPT !.o = @ + 1])
              /\ UNCHANGED <<callee, pc>>
      /\ UNCHANGED <<problem, bp, solved, idx, index, nodeStack, visited>>

\* Some call made in the loop returned true: the node is backed up.
FinishUpdate ==
  LET f == Last(frames)
  IN  /\ pc = "loop"
      /\ ~InLoop(f)
      /\ f.flag
      /\ SetBounds(Update(problem, bp, f.node))
      /\ Return(Front(frames), f.node, TRUE, low)
      /\ UNCHANGED <<problem, idx, index, nodeStack, visited, callee>>

\* Mutants: every node that finishes is a root; the stack is popped down to
\* the caller of the root.
IsComponentRootAny(s) == TRUE

ComponentAndCaller(s) ==
  LET i == CHOOSE i \in DOMAIN nodeStack : nodeStack[i] = s
  IN  SubSeq(nodeStack, IF i = 1 THEN 1 ELSE i - 1, Len(nodeStack))

\* Of a strongly connected component of the greedy envelope.
IsComponentRoot(s) == idx[s] = low[s]

\* The stack down to and including the node, from which its component is.
Component(s) ==
  SubSeq(nodeStack, CHOOSE i \in DOMAIN nodeStack : nodeStack[i] = s,
         Len(nodeStack))

FinishLabel ==
  LET f == Last(frames)
      component == Component(f.node)
  IN  /\ pc = "loop"
      /\ ~InLoop(f)
      /\ ~f.flag
      /\ IsComponentRoot(f.node)
      /\ solved' = solved \cup ToSet(component)
      /\ nodeStack' = SubSeq(nodeStack, 1, Len(nodeStack) - Len(component))
      /\ Return(Front(frames), f.node, FALSE, low)
      /\ UNCHANGED <<problem, bp, idx, index, visited, callee>>

FinishInside ==
  LET f == Last(frames)
  IN  /\ pc = "loop"
      /\ ~InLoop(f)
      /\ ~f.flag
      /\ ~IsComponentRoot(f.node)
      /\ Return(Front(frames), f.node, FALSE, low)
      /\ UNCHANGED <<problem, bp, solved, idx, index, nodeStack, visited, callee>>

Forgotten == [n \in Node |-> IF n \in visited THEN PlusInfinity ELSE idx[n]]

\* Back in doTrial: the numbers are forgotten, but low keeps its value.
EndTrial ==
  /\ pc = "endTrial"
  /\ idx' = Forgotten
  /\ nodeStack' = <<>>
  /\ visited' = {}
  /\ pc' = "planFixedTime"
  /\ UNCHANGED <<problem, bp, solved, low, index, callee, frames>>

Next ==
  \/ PlanFixedTime
  \/ CallSolved
  \/ CallBigResidual
  \/ CallEnter
  \/ LoopOutcome
  \/ FinishUpdate
  \/ FinishLabel
  \/ FinishInside
  \/ EndTrial

Spec == Init /\ [][Next]_vars

\* The solver runs until it is done (doSolve calls planFixedTime in a loop).
FairSpec == Spec /\ WF_vars(Next)

-----------------------------------------------------------------------------
\* The best cached Q value of s is up to date, and within TargetPrecision of
\* its upper bound.
Settled(s) ==
  LET a == MaxUBAction(bp, s)
  IN  /\ s \in bp.expanded
      /\ bp.qub[s][a] = Backup(problem, bp.ub, s, a)
      /\ Residual(bp, s) <= TargetPrecision

\* What the label "solved" promises of a node that is not terminal: it is
\* settled, and its best action leads to solved nodes only.
Converged(s) ==
  /\ Settled(s)
  /\ Successors(problem, s, MaxUBAction(bp, s)) \subseteq solved

\* Every label is right, now and not only when it was set: the greedy policy
\* never leaves the solved nodes, and all of them have converged.
SolvedSound == \A s \in solved : problem.terminal[s] \/ Converged(s)

\* A node that is solved is never unlabelled, nor are its bound and the action
\* it stands for ever changed again: the search keeps the contract of Labels.
Contract ==
  INSTANCE Labels WITH
    plan    <- [n \in Node |-> IF problem.terminal[n] THEN {}
                              ELSE Successors(problem, n, MaxUBAction(bp, n))],
    value   <- bp.ub,
    settled <- [n \in Node |-> problem.terminal[n] \/ Settled(n)]

ImplementsLabels == Contract!Spec

\* No number or stack entry of a trial is seen by the next, so that a node is
\* numbered at most once in each.
TrialStartsClean ==
  pc = "planFixedTime" =>
    /\ nodeStack = <<>> /\ visited = {} /\ frames = <<>>
    /\ \A n \in Node : idx[n] = PlusInfinity

\* The loop that pops the stack down to the labelled node ends, as it is
\* there: each call's node stays on the stack, in the order of the calls,
\* and the stack is in the order of the numbers; and a trial leaves nothing
\* behind.
StackDiscipline ==
  /\ TrialStartsClean
  /\ \A i, j \in DOMAIN nodeStack : i < j => idx[nodeStack[i]] < idx[nodeStack[j]]
  /\ \A i \in DOMAIN frames : frames[i].node \in ToSet(nodeStack)
  /\ \A i, j \in DOMAIN frames : i < j => idx[frames[i].node] < idx[frames[j].node]

\* The trials come to an end with the root solved.
RootSolved == <>(pc = "done")
=============================================================================
