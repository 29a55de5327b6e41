------------------------------- MODULE LRTDP -------------------------------
(***************************************************************************)
(* Labelled RTDP (search/LRTDP.cc) over a BoundPair: trials that follow    *)
(* the greedy action and a sampled outcome down to a solved node, then     *)
(* checkSolved on the way back up, labelling nodes whose greedy envelope   *)
(* has converged.                                                          *)
(*                                                                         *)
(* The recursion of trialRecurse is the variable stack; the two loops of   *)
(* checkSolved are steps of their own, as each does a backup per node.     *)
(***************************************************************************)
EXTENDS BoundPair, Sequences, SequencesExt

CONSTANTS
  TargetPrecision,  \* terminateRegretBound
  MaxRepeats        \* bound on the detours of a trial, see MaySample

ASSUME LRTDPAssumption ==
         TargetPrecision \in Nat /\ MaxRepeats \in Nat

VARIABLES
  problem,  \* the problem planInit was given; never changes
  bp,       \* the bounds
  solved,   \* nodes whose isSolved flag is set
  pc,       \* where the solver is
  stack,    \* nodes of the active calls of trialRecurse, root first
  open,     \* NodeStack of checkSolved, top last
  closed,   \* NodeStack of checkSolved, top last
  rv        \* checkSolved has met no big residual yet

vars == <<problem, bp, solved, pc, stack, open, closed, rv>>

Location ==
  {"planFixedTime",  \* between trials
   "trialRecurse",   \* Last(stack) was just called
   "checkSolved",    \* a call below Last(stack) returned true
   "check",          \* in the loop over open
   "update",         \* in the loop over closed after a big residual
   "done"}           \* doTrial returned true: the root is solved

TypeOK ==
  /\ problem \in Problem
  /\ bp \in BoundTable
  /\ solved \in SUBSET Node
  /\ pc \in Location
  /\ stack \in Seq(Node)
  /\ stack = <<>> <=> pc \in {"planFixedTime", "done"}
  /\ open \in Seq(Node)
  /\ closed \in Seq(Node)
  /\ rv \in BOOLEAN

Init ==
  /\ problem \in Problems
  /\ bp = EmptyTable
  /\ solved = {}
  /\ pc = "planFixedTime"
  /\ stack = <<>>
  /\ open = <<>>
  /\ closed = <<>>
  /\ rv = TRUE

\* A new table of bounds: getNodeHandler labels the new nodes that are
\* terminal.
SetBounds(new) ==
  /\ bp' = new
  /\ solved' = solved \cup
                 {n \in new.lookup \ bp.lookup : problem.terminal[n]}

\* Mutant of CacheQ: the change to ubVal is not undone.
CacheQKeepsChange(s) == Update(problem, bp, s)

\* Update keeping the changes to Q but not the one to ubVal.
CacheQ(s) == [Update(problem, bp, s) EXCEPT !.ub[s] = bp.ub[s]]

\* Mutant of UpdateInternal: the change to ubVal is undone here too.
UpdateInternalNoChange(s) == CacheQ(s)

\* CacheQ, then ubVal becomes the cached value of the best action: unlike
\* Update it may raise ubVal.
UpdateInternal(s) ==
  LET cached == CacheQ(s)
  IN  [cached EXCEPT !.ub[s] = MaxValue(cached.qub[s])]

Distance(x, y) == IF x >= y THEN x - y ELSE y - x

Residual(table, s) == Distance(table.ub[s], MaxValue(table.qub[s]))

\* Mutant of BigResidual: every residual passes.
BigResidualNever(table, s) == FALSE

BigResidual(table, s) == Residual(table, s) > TargetPrecision

-----------------------------------------------------------------------------
\* planFixedTime: doTrial on the root, made on the first call.
PlanFixedTime ==
  /\ pc = "planFixedTime"
  /\ SetBounds(GetNodes(problem, bp, {problem.initial}))
  /\ stack' = <<problem.initial>>
  /\ pc' = "trialRecurse"
  /\ UNCHANGED <<problem, open, closed, rv>>

\* A call returns true: the caller, if there is one, calls checkSolved, and
\* doTrial returns whether the root is labelled.
ReturnTrue ==
  /\ stack' = Front(stack)
  /\ pc' = IF Len(stack) > 1 THEN "checkSolved"
           ELSE IF problem.initial \in solved' THEN "done"
           ELSE "planFixedTime"

\* Mutant of StopsAt: only a terminal node ends the trial.
StopsAtTerminal(s) == problem.terminal[s]

StopsAt(s) == s \in solved

\* trialRecurse meets a solved node.
TrialAtSolved ==
  /\ pc = "trialRecurse"
  /\ StopsAt(Last(stack))
  /\ ReturnTrue
  /\ UNCHANGED <<problem, bp, solved, open, closed, rv>>

\* The outcomes a trial may sample.  The code has no bound on the length of a
\* trial: it relies on every outcome being sampled sooner or later.  Here a
\* trial that has come back MaxRepeats times to nodes of its own path samples
\* an outcome that does not come back, where there is one.
MaySample(s, a) ==
  LET fresh == {o \in Edges(problem, s, a) :
                  problem.next[s][a][o] \notin ToSet(stack)}
  IN  IF fresh = {} \/ Len(stack) - Cardinality(ToSet(stack)) < MaxRepeats
      THEN Edges(problem, s, a)
      ELSE fresh

\* trialRecurse backs the node up and follows outcome o of the best action.
TrialStep(o) ==
  LET s == Last(stack)
      a == MaxUBAction(bp', s)
  IN  /\ pc = "trialRecurse"
      /\ ~StopsAt(s)
      /\ SetBounds(Update(problem, bp, s))
      /\ o \in MaySample(s, a)
      /\ stack' = Append(stack, problem.next[s][a][o])
      /\ UNCHANGED <<problem, pc, open, closed, rv>>

\* checkSolved starts with the node it is called on, unless that is solved.
StartCheckSolved ==
  /\ pc = "checkSolved"
  /\ pc' = "check"
  /\ open' = IF Last(stack) \in solved THEN <<>> ELSE <<Last(stack)>>
  /\ closed' = <<>>
  /\ rv' = TRUE
  /\ UNCHANGED <<problem, bp, solved, stack>>

\* Outcome o of the best action of s is pushed on st, if it has an edge and
\* its node is neither solved nor on one of the stacks.
PushOutcome(st, s, o) ==
  LET a == MaxUBAction(bp', s)
      n == problem.next[s][a][o]
  IN  IF /\ o \in Edges(problem, s, a)
         /\ n \notin solved' \cup ToSet(st) \cup ToSet(closed')
      THEN Append(st, n)
      ELSE st

\* One pass of the loop over open: the node at its top is closed, and when
\* its residual is small its greedy successors are opened.
CheckNode ==
  LET s == Last(open)
  IN  /\ pc = "check"
      /\ open # <<>>
      /\ SetBounds(CacheQ(s))
      /\ closed' = Append(closed, s)
      /\ IF BigResidual(bp', s)
         THEN /\ rv' = FALSE
              /\ open' = Front(open)
         ELSE /\ rv' = rv
              /\ open' = PushOutcome(PushOutcome(Front(open), s, 0), s, 1)
      /\ UNCHANGED <<problem, pc, stack>>

\* No residual was big: every closed node is labelled.
LabelClosed ==
  /\ pc = "check"
  /\ open = <<>>
  /\ rv
  /\ solved' = solved \cup ToSet(closed)
  /\ closed' = <<>>
  /\ ReturnTrue
  /\ UNCHANGED <<problem, bp, open, rv>>

\* Some residual was big: the closed nodes are updated, last closed first.
StartUpdate ==
  /\ pc = "check"
  /\ open = <<>>
  /\ ~rv
  /\ pc' = "update"
  /\ UNCHANGED <<problem, bp, solved, stack, open, closed, rv>>

UpdateClosed ==
  /\ pc = "update"
  /\ closed # <<>>
  /\ SetBounds(UpdateInternal(Last(closed)))
  /\ closed' = Front(closed)
  /\ UNCHANGED <<problem, pc, stack, open, rv>>

\* checkSolved returns false, and so does every call of trialRecurse.
CheckFailed ==
  /\ pc = "update"
  /\ closed = <<>>
  /\ stack' = <<>>
  /\ pc' = IF problem.initial \in solved THEN "done" ELSE "planFixedTime"
  /\ UNCHANGED <<problem, bp, solved, open, closed, rv>>

Next ==
  \/ PlanFixedTime
  \/ TrialAtSolved
  \/ \E o \in Outcome : TrialStep(o)
  \/ StartCheckSolved
  \/ CheckNode
  \/ LabelClosed
  \/ StartUpdate
  \/ UpdateClosed
  \/ CheckFailed

Spec == Init /\ [][Next]_vars

\* The solver runs until it is done (doSolve calls planFixedTime in a loop).
FairSpec == Spec /\ WF_vars(Next)

-----------------------------------------------------------------------------
\* The best cached Q value of s is up to date, and within TargetPrecision of
\* its upper bound.
Settled(p, table, s) ==
  LET a == MaxUBAction(table, s)
  IN  /\ s \in table.expanded
      /\ table.qub[s][a] = Backup(p, table.ub, s, a)
      /\ Residual(table, s) <= TargetPrecision

\* What the label "solved" promises of a node that is not terminal: it is
\* settled, and its best action leads to nodes of S only.
Converged(p, table, s, S) ==
  /\ Settled(p, table, s)
  /\ Successors(p, s, MaxUBAction(table, s)) \subseteq S

\* Every label is right, now and not only when it was set: the greedy policy
\* never leaves the solved nodes, and all of them have converged.
SolvedSound ==
  \A s \in solved : problem.terminal[s] \/ Converged(problem, bp, s, solved)

\* The policy that executes the solution looks one step ahead over the bounds
\* as they are; at a solved node it must take an action whose outcomes are
\* solved.
PolicyStaysSolved ==
  problem \in UniformProblems =>
    \A s \in solved : ~problem.terminal[s] =>
      Successors(problem, s, ChooseActionUB(problem, bp, s)) \subseteq solved

\* What checkSolved relies on while it backs up one node after another: the
\* nodes it has closed stay converged, and lead nowhere it will not look.
CheckSound ==
  pc = "check" /\ rv =>
    \A s \in ToSet(closed) :
      Converged(problem, bp, s, solved \cup ToSet(open) \cup ToSet(closed))

\* The two NodeStacks hold each node once (their lookup tables lose an element
\* that is pushed twice and popped once), and nothing that is solved.
NodesCheckedOnce ==
  /\ IsInjective(open)
  /\ IsInjective(closed)
  /\ ToSet(open) \cap ToSet(closed) = {}
  /\ (ToSet(open) \cup ToSet(closed)) \cap solved = {}

\* A node that is solved is never unlabelled, nor are its bound and the action
\* it stands for ever changed again: the search keeps the contract of Labels.
Contract ==
  INSTANCE Labels WITH
    plan    <- [n \in Node |-> IF problem.terminal[n] THEN {}
                              ELSE Successors(problem, n, MaxUBAction(bp, n))],
    value   <- bp.ub,
    settled <- [n \in Node |-> problem.terminal[n] \/ Settled(problem, bp, n)]

ImplementsLabels == Contract!Spec

\* The trials come to an end with the root solved.
RootSolved == <>(pc = "done")
=============================================================================
