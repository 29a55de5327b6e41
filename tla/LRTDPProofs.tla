---------------------------- MODULE LRTDPProofs ----------------------------
(***************************************************************************)
(* Labelled RTDP labels correctly: proofs for any problem, any number of   *)
(* nodes and actions, and any sequence of sampled outcomes.                *)
(***************************************************************************)
EXTENDS LRTDP, BoundPairProofs

\* The inductive invariant: the labels are sound because checkSolved only
\* changes nodes that have no label, and nodes with one lead to nodes with
\* one; so besides the properties it says that whatever is on a stack, or is
\* the successor of an expanded node, is in the table.
IInv ==
  /\ TypeOK
  /\ Linked(problem, bp)
  /\ solved \subseteq bp.lookup
  /\ ToSet(stack) \subseteq bp.lookup
  /\ ToSet(open) \subseteq bp.lookup
  /\ ToSet(closed) \subseteq bp.lookup
  /\ NodesCheckedOnce
  /\ SolvedSound
  /\ CheckSound

-----------------------------------------------------------------------------
\* A node stays converged when neither it nor the nodes its best action leads
\* to change, and more nodes are allowed for its successors.
LEMMA ConvergedStable ==
  ASSUME NEW p \in Problem, NEW T \in BoundTable, NEW T2 \in BoundTable,
         NEW s \in Node, NEW S, NEW S2,
         Linked(p, T),
         Converged(p, T, s, S),
         s \in T2.expanded,
         T2.qub[s] = T.qub[s],
         T2.ub[s] = T.ub[s],
         \A n \in Successors(p, s, MaxUBAction(T, s)) : T2.ub[n] = T.ub[n],
         Successors(p, s, MaxUBAction(T, s)) \subseteq S2
  PROVE  Converged(p, T2, s, S2)
<1> DEFINE a == MaxUBAction(T, s)
<1>1. T.qub[s] \in [Action -> Int] /\ T.ub \in [Node -> Int] /\ T2.ub \in [Node -> Int]
  BY DEF BoundTable
<1>2. a \in Action
  BY <1>1, MaxActionProperties DEF MaxUBAction
<1>3. MaxUBAction(T2, s) = a
  BY DEF MaxUBAction
<1>4. Backup(p, T2.ub, s, a) = Backup(p, T.ub, s, a)
  <2> HIDE DEF a
  <2>1. \A n \in Successors(p, s, a) : T2.ub[n] = T.ub[n]
    BY DEF a
  <2> QED
    BY <1>1, <1>2, <2>1, BackupLocal
<1>5. Residual(T2, s) = Residual(T, s)
  BY DEF Residual
<1> QED
  BY <1>3, <1>4, <1>5 DEF Converged, Settled

\* The table after CacheQ: only the Q values of s have changed, and the best
\* of them is a backup of the bounds as they are.
LEMMA CacheQProperties ==
  ASSUME problem \in Problem, bp \in BoundTable, Linked(problem, bp),
         NEW s \in bp.lookup
  PROVE  LET T == CacheQ(s)
             a == MaxUBAction(T, s)
         IN  /\ T \in BoundTable
             /\ bp.lookup \subseteq T.lookup
             /\ T.expanded = bp.expanded \cup {s}
             /\ Linked(problem, T)
             /\ \A n \in Node \ {s} : T.qub[n] = bp.qub[n]
             /\ \A n \in bp.lookup : T.ub[n] = bp.ub[n]
             /\ a \in Action
             /\ T.qub[s][a] = Backup(problem, T.ub, s, a)
<1>1. CacheQ(s) = Cached(problem, bp, s)
  BY DEF CacheQ, Cached
<1> QED
  BY <1>1, CachedProperties

LEMMA ResidualType ==
  ASSUME NEW T \in BoundTable, NEW s \in Node
  PROVE  Residual(T, s) \in Int
<1>1. T.ub[s] \in Int /\ T.qub[s] \in [Action -> Int]
  BY DEF BoundTable
<1>2. MaxValue(T.qub[s]) \in Int
  BY <1>1, MaxValueType
<1> QED
  BY <1>1, <1>2 DEF Residual, Distance

\* A step that changes the bounds of no labelled node keeps the labels sound.
LEMMA SetBoundsSound ==
  ASSUME IInv, NEW T \in BoundTable, NEW C \in SUBSET Node,
         SetBounds(T), problem' = problem,
         Linked(problem, T),
         bp.lookup \subseteq T.lookup,
         bp.expanded \subseteq T.expanded,
         C \cap solved = {},
         \A n \in bp.lookup \ C : T.ub[n] = bp.ub[n] /\ T.qub[n] = bp.qub[n]
  PROVE  /\ bp' = T
         /\ solved' \in SUBSET Node
         /\ solved' \subseteq T.lookup
         /\ solved \subseteq solved'
         /\ solved' \cap bp.lookup = solved
         /\ SolvedSound'
<1>1. /\ bp' = T
      /\ solved' = solved \cup {n \in T.lookup \ bp.lookup : problem.terminal[n]}
  BY DEF SetBounds
<1>2. /\ solved \subseteq bp.lookup /\ problem \in Problem /\ bp \in BoundTable
      /\ Linked(problem, bp) /\ bp.lookup \subseteq Node /\ T.lookup \subseteq Node
  BY DEF IInv, TypeOK, BoundTable
<1>3. ASSUME NEW s \in solved', ~problem'.terminal[s]
      PROVE  Converged(problem', bp', s, solved')
  <2>1. s \in solved /\ s \in Node
    BY <1>1, <1>2, <1>3
  <2>2. Converged(problem, bp, s, solved)
    BY <1>3, <2>1 DEF IInv, SolvedSound
  <2>3. /\ s \in bp.expanded
        /\ Successors(problem, s, MaxUBAction(bp, s)) \subseteq solved
    BY <2>2 DEF Converged, Settled
  <2>4. /\ s \in T.expanded
        /\ T.ub[s] = bp.ub[s] /\ T.qub[s] = bp.qub[s]
        /\ \A n \in Successors(problem, s, MaxUBAction(bp, s)) : T.ub[n] = bp.ub[n]
        /\ Successors(problem, s, MaxUBAction(bp, s)) \subseteq solved'
    BY <1>1, <1>2, <2>1, <2>3
  <2>5. Converged(problem, T, s, solved')
    BY <1>2, <2>1, <2>2, <2>4, ConvergedStable
  <2> QED
    BY <1>1, <2>5
<1>4. SolvedSound'
  BY <1>3 DEF SolvedSound
<1> QED
  BY <1>1, <1>2, <1>4

-----------------------------------------------------------------------------
\* The facts about a state every action lemma starts from.
LEMMA IInvFacts ==
  ASSUME IInv
  PROVE  /\ problem \in Problem /\ bp \in BoundTable
         /\ bp.lookup \subseteq Node /\ solved \subseteq Node
         /\ stack \in Seq(Node) /\ open \in Seq(Node) /\ closed \in Seq(Node)
         /\ problem.initial \in Node
BY DEF IInv, TypeOK, BoundTable, Problem

LEMMA InitIInv == Init => IInv
<1> SUFFICES ASSUME Init PROVE IInv
  OBVIOUS
<1>1. problem \in Problem
  BY ProblemsAssumption DEF Init
<1>2. EmptyTable \in BoundTable
  BY BoundPairAssumption DEF EmptyTable, BoundTable
<1>3. TypeOK
  BY <1>1, <1>2 DEF Init, TypeOK, Location
<1>4. Linked(problem, bp)
  BY DEF Init, Linked, EmptyTable
<1>5. SolvedSound /\ CheckSound
  BY DEF Init, SolvedSound, CheckSound
<1> QED
  BY <1>3, <1>4, <1>5, EmptyStack DEF Init, IInv, NodesCheckedOnce

LEMMA PlanFixedTimeIInv == IInv /\ PlanFixedTime => IInv'
<1> SUFFICES ASSUME IInv, PlanFixedTime PROVE IInv'
  OBVIOUS
<1> DEFINE T == GetNodes(problem, bp, {problem.initial})
<1>1. /\ T \in BoundTable
      /\ T.lookup = bp.lookup \cup {problem.initial}
      /\ T.expanded = bp.expanded /\ T.qub = bp.qub
      /\ \A n \in bp.lookup : T.ub[n] = bp.ub[n]
  BY IInvFacts, GetNodesProperties
<1>2. SetBounds(T) /\ problem' = problem /\ open' = open /\ closed' = closed
  BY DEF PlanFixedTime
<1>3. stack' = <<problem.initial>> /\ pc' = "trialRecurse" /\ rv' = rv
  BY DEF PlanFixedTime
<1> HIDE DEF T
<1>4. Linked(problem, T)
  BY <1>1 DEF IInv, Linked
<1>5. /\ bp' = T
      /\ solved' \in SUBSET Node
      /\ solved' \subseteq T.lookup
      /\ solved' \cap bp.lookup = solved
      /\ SolvedSound'
  <2>1. {} \in SUBSET Node /\ {} \cap solved = {}
    OBVIOUS
  <2>2. \A n \in bp.lookup \ {} : T.ub[n] = bp.ub[n] /\ T.qub[n] = bp.qub[n]
    BY <1>1
  <2> QED
    BY <1>1, <1>2, <1>4, <2>1, <2>2, SetBoundsSound
<1>6. stack' \in Seq(Node) /\ ToSet(stack') = {problem.initial} /\ stack' # <<>>
  BY <1>3, IInvFacts DEF ToSet
<1>7. TypeOK'
  BY <1>1, <1>2, <1>3, <1>5, <1>6 DEF IInv, TypeOK, Location
<1>8. NodesCheckedOnce'
  BY <1>2, <1>5 DEF IInv, NodesCheckedOnce
<1>9. CheckSound'
  BY <1>3 DEF CheckSound
<1> QED
  BY <1>1, <1>2, <1>4, <1>5, <1>6, <1>7, <1>8, <1>9 DEF IInv

\* Returning to the caller keeps the types right, whatever is labelled.
LEMMA ReturnTrueTypes ==
  ASSUME IInv, ReturnTrue, stack # <<>>
  PROVE  /\ stack' \in Seq(Node)
         /\ ToSet(stack') \subseteq bp.lookup
         /\ pc' \in {"checkSolved", "done", "planFixedTime"}
         /\ stack' = <<>> <=> pc' \in {"planFixedTime", "done"}
<1> DEFINE n == Len(stack)
<1>1. /\ stack' = Front(stack)
      /\ pc' = IF n > 1 THEN "checkSolved"
               ELSE IF problem.initial \in solved' THEN "done"
               ELSE "planFixedTime"
  BY DEF ReturnTrue
<1>2. n \in Nat \ {0}
  BY IInvFacts
<1>3. stack' = <<>> <=> n = 1
  BY <1>1, IInvFacts, PopProperties
<1>4. /\ stack' \in Seq(Node)
      /\ ToSet(stack') \subseteq ToSet(stack)
  BY <1>1, IInvFacts, PopProperties
<1>5. ToSet(stack) \subseteq bp.lookup
  BY DEF IInv
<1> HIDE DEF n
<1>6. n = 1 <=> ~(n > 1)
  BY <1>2
<1> QED
  BY <1>1, <1>3, <1>4, <1>5, <1>6

LEMMA TrialAtSolvedIInv == IInv /\ TrialAtSolved => IInv'
<1> SUFFICES ASSUME IInv, TrialAtSolved PROVE IInv'
  OBVIOUS
<1>1. pc = "trialRecurse" /\ ReturnTrue /\ UNCHANGED <<problem, bp, solved, open, closed, rv>>
  BY DEF TrialAtSolved
<1>2. stack # <<>>
  BY <1>1 DEF IInv, TypeOK
<1>3. /\ stack' \in Seq(Node)
      /\ ToSet(stack') \subseteq bp.lookup
      /\ pc' \in {"checkSolved", "done", "planFixedTime"}
      /\ stack' = <<>> <=> pc' \in {"planFixedTime", "done"}
  BY <1>1, <1>2, ReturnTrueTypes
<1>4. TypeOK'
  BY <1>1, <1>3 DEF IInv, TypeOK, Location
<1>5. NodesCheckedOnce' /\ SolvedSound'
  BY <1>1 DEF IInv, NodesCheckedOnce, SolvedSound
<1>6. CheckSound'
  BY <1>3 DEF CheckSound
<1> QED
  BY <1>1, <1>3, <1>4, <1>5, <1>6 DEF IInv

LEMMA TrialStepIInv ==
  ASSUME IInv, NEW o \in Outcome, TrialStep(o)
  PROVE  IInv'
<1> DEFINE s == Last(stack)
           T == Update(problem, bp, s)
           a == MaxUBAction(bp', s)
           n == problem.next[s][a][o]
<1>1. /\ pc = "trialRecurse" /\ s \notin solved
      /\ SetBounds(T) /\ problem' = problem
      /\ o \in MaySample(s, a)
      /\ stack' = Append(stack, n)
      /\ pc' = pc /\ open' = open /\ closed' = closed /\ rv' = rv
  BY DEF TrialStep, StopsAt
<1> HIDE DEF n, a
<1>2. stack # <<>>
  BY <1>1 DEF IInv, TypeOK
<1>3. s \in bp.lookup /\ s \in Node
  BY <1>2, IInvFacts, PopProperties DEF IInv
<1> HIDE DEF s
<1>4. /\ T \in BoundTable
      /\ bp.lookup \subseteq T.lookup
      /\ T.expanded = bp.expanded \cup {s}
      /\ Linked(problem, T)
      /\ \A m \in Node \ {s} : T.qub[m] = bp.qub[m]
      /\ \A m \in bp.lookup \ {s} : T.ub[m] = bp.ub[m]
  <2>1. problem \in Problem /\ bp \in BoundTable /\ Linked(problem, bp)
    BY IInvFacts DEF IInv
  <2> QED
    BY <1>3, <2>1, TableAfterUpdate
<1> HIDE DEF T
<1>5. /\ bp' = T
      /\ solved' \in SUBSET Node
      /\ solved' \subseteq T.lookup
      /\ solved' \cap bp.lookup = solved
      /\ SolvedSound'
  <2>1. {s} \in SUBSET Node /\ {s} \cap solved = {}
    BY <1>1, <1>3
  <2>2. \A m \in bp.lookup \ {s} : T.ub[m] = bp.ub[m] /\ T.qub[m] = bp.qub[m]
    BY <1>4, IInvFacts
  <2> QED
    BY <1>1, <1>4, <2>1, <2>2, SetBoundsSound
<1>6. n \in T.lookup /\ n \in Node
  <2>1. o \in Edges(problem, s, a)
    BY <1>1 DEF MaySample
  <2>2. a \in Action
    <3>1. T.qub[s] \in [Action -> Int]
      BY <1>3, <1>4 DEF BoundTable
    <3> QED
      BY <1>5, <3>1, MaxActionProperties DEF a, MaxUBAction
  <2>3. n \in Successors(problem, s, a)
    BY <2>1 DEF n, Successors
  <2> QED
    BY <1>4, <2>2, <2>3 DEF Linked, BoundTable
<1>7. /\ stack' \in Seq(Node) /\ stack' # <<>>
      /\ ToSet(stack') = ToSet(stack) \cup {n}
  BY <1>1, <1>6, IInvFacts, PushProperties
<1>8. TypeOK'
  BY <1>1, <1>4, <1>5, <1>7 DEF IInv, TypeOK, Location
<1>9. NodesCheckedOnce'
  BY <1>1, <1>5 DEF IInv, NodesCheckedOnce
<1>10. CheckSound'
  BY <1>1 DEF CheckSound
<1> QED
  BY <1>1, <1>4, <1>5, <1>6, <1>7, <1>8, <1>9, <1>10 DEF IInv

LEMMA StartCheckSolvedIInv == IInv /\ StartCheckSolved => IInv'
<1> SUFFICES ASSUME IInv, StartCheckSolved PROVE IInv'
  OBVIOUS
<1>1. /\ pc = "checkSolved" /\ pc' = "check"
      /\ closed' = <<>> /\ rv' = TRUE
      /\ open' = IF Last(stack) \in solved THEN <<>> ELSE <<Last(stack)>>
      /\ UNCHANGED <<problem, bp, solved, stack>>
  BY DEF StartCheckSolved
<1>2. stack # <<>>
  BY <1>1 DEF IInv, TypeOK
<1>3. Last(stack) \in Node /\ Last(stack) \in bp.lookup
  BY <1>2, IInvFacts, PopProperties DEF IInv
<1>4. /\ open' \in Seq(Node)
      /\ ToSet(open') \subseteq bp.lookup \ solved
      /\ IsInjective(open')
  <2>1. CASE Last(stack) \in solved
    BY <1>1, <2>1, EmptyStack
  <2>2. CASE Last(stack) \notin solved
    BY <1>1, <1>3, <2>2 DEF ToSet, IsInjective
  <2> QED
    BY <2>1, <2>2
<1>5. TypeOK'
  BY <1>1, <1>2, <1>4 DEF IInv, TypeOK, Location
<1>6. NodesCheckedOnce' /\ CheckSound'
  BY <1>1, <1>4, EmptyStack DEF NodesCheckedOnce, CheckSound
<1>7. SolvedSound'
  BY <1>1 DEF IInv, SolvedSound
<1> QED
  BY <1>1, <1>4, <1>5, <1>6, <1>7, EmptyStack DEF IInv

\* Pushing an outcome of s on a stack of open nodes.
LEMMA PushOutcomeProperties ==
  ASSUME NEW st \in Seq(Node), NEW s, NEW o \in Outcome, NEW L,
         ToSet(st) \subseteq L, IsInjective(st),
         ToSet(st) \cap ToSet(closed') = {}, ToSet(st) \cap solved' = {},
         L \subseteq Node,
         o \in Edges(problem, s, MaxUBAction(bp', s)) =>
           problem.next[s][MaxUBAction(bp', s)][o] \in L
  PROVE  LET new == PushOutcome(st, s, o)
         IN  /\ new \in Seq(Node)
             /\ ToSet(st) \subseteq ToSet(new)
             /\ ToSet(new) \subseteq L
             /\ IsInjective(new)
             /\ ToSet(new) \cap ToSet(closed') = {}
             /\ ToSet(new) \cap solved' = {}
             /\ o \in Edges(problem, s, MaxUBAction(bp', s)) =>
                  problem.next[s][MaxUBAction(bp', s)][o]
                    \in solved' \cup ToSet(new) \cup ToSet(closed')
<1> DEFINE e == o \in Edges(problem, s, MaxUBAction(bp', s))
           n == problem.next[s][MaxUBAction(bp', s)][o]
<1>1. PushOutcome(st, s, o)
        = IF e /\ n \notin solved' \cup ToSet(st) \cup ToSet(closed')
          THEN Append(st, n) ELSE st
  BY DEF PushOutcome
<1>2. e => n \in L /\ n \in Node
  OBVIOUS
<1> HIDE DEF e, n
<1>3. CASE e /\ n \notin solved' \cup ToSet(st) \cup ToSet(closed')
  <2>1. /\ Append(st, n) \in Seq(Node)
        /\ ToSet(Append(st, n)) = ToSet(st) \cup {n}
        /\ IsInjective(Append(st, n))
    BY <1>2, <1>3, PushProperties
  <2> QED
    BY <1>1, <1>2, <1>3, <2>1 DEF e, n
<1>4. CASE ~(e /\ n \notin solved' \cup ToSet(st) \cup ToSet(closed'))
  BY <1>1, <1>4 DEF e, n
<1> QED
  BY <1>3, <1>4

LEMMA CheckNodeIInv == IInv /\ CheckNode => IInv'
<1> SUFFICES ASSUME IInv, CheckNode PROVE IInv'
  OBVIOUS
<1> DEFINE s  == Last(open)
           T  == CacheQ(s)
           a  == MaxUBAction(T, s)
           S  == solved \cup ToSet(open) \cup ToSet(closed)
           S2 == solved' \cup ToSet(open') \cup ToSet(closed')
           f  == Front(open)
           p0 == PushOutcome(f, s, 0)
           p1 == PushOutcome(p0, s, 1)
<1>1. /\ pc = "check" /\ pc' = pc /\ open # <<>>
      /\ SetBounds(T) /\ problem' = problem /\ stack' = stack
      /\ closed' = Append(closed, s)
      /\ IF BigResidual(bp', s)
         THEN rv' = FALSE /\ open' = f
         ELSE rv' = rv /\ open' = p1
  BY DEF CheckNode
<1>2. /\ s \in ToSet(open) /\ s \in Node /\ f \in Seq(Node)
      /\ ToSet(open) = ToSet(f) \cup {s}
      /\ IsInjective(f) /\ s \notin ToSet(f)
  BY <1>1, IInvFacts, PopProperties DEF IInv, NodesCheckedOnce
<1>3. s \in bp.lookup /\ s \notin solved /\ s \notin ToSet(closed)
  BY <1>2 DEF IInv, NodesCheckedOnce
<1> HIDE DEF f, s
<1>4. /\ T \in BoundTable
      /\ bp.lookup \subseteq T.lookup
      /\ T.expanded = bp.expanded \cup {s}
      /\ Linked(problem, T)
      /\ \A n \in Node \ {s} : T.qub[n] = bp.qub[n]
      /\ \A n \in bp.lookup : T.ub[n] = bp.ub[n]
      /\ a \in Action
      /\ T.qub[s][a] = Backup(problem, T.ub, s, a)
  <2>1. problem \in Problem /\ bp \in BoundTable /\ Linked(problem, bp)
    BY IInvFacts DEF IInv
  <2> QED
    BY <1>3, <2>1, CacheQProperties
<1> HIDE DEF T
<1>5. /\ bp' = T
      /\ solved' \in SUBSET Node
      /\ solved' \subseteq T.lookup
      /\ solved \subseteq solved'
      /\ solved' \cap bp.lookup = solved
      /\ SolvedSound'
  <2>1. {s} \in SUBSET Node /\ {s} \cap solved = {}
    BY <1>2, <1>3
  <2>2. \A n \in bp.lookup \ {s} : T.ub[n] = bp.ub[n] /\ T.qub[n] = bp.qub[n]
    BY <1>4, IInvFacts
  <2>3. bp.expanded \subseteq T.expanded
    BY <1>4
  <2> QED
    BY <1>1, <1>4, <2>1, <2>2, <2>3, SetBoundsSound
<1>6. /\ closed' \in Seq(Node)
      /\ ToSet(closed') = ToSet(closed) \cup {s}
      /\ IsInjective(closed')
  BY <1>1, <1>2, <1>3, IInvFacts, PushProperties DEF IInv, NodesCheckedOnce
<1>7. /\ ToSet(f) \subseteq bp.lookup
      /\ ToSet(closed') \subseteq bp.lookup
      /\ ToSet(f) \cap ToSet(closed') = {}
      /\ ToSet(f) \cap solved' = {}
      /\ ToSet(closed') \cap solved' = {}
  BY <1>2, <1>3, <1>5, <1>6 DEF IInv, NodesCheckedOnce
<1>8. T.lookup \subseteq Node
  BY <1>4 DEF BoundTable
<1>9. \A o \in Outcome : o \in Edges(problem, s, a) => problem.next[s][a][o] \in T.lookup
  BY <1>4 DEF Linked, Successors
<1>10. /\ p0 \in Seq(Node)
       /\ ToSet(f) \subseteq ToSet(p0)
       /\ ToSet(p0) \subseteq T.lookup
       /\ IsInjective(p0)
       /\ ToSet(p0) \cap ToSet(closed') = {}
       /\ ToSet(p0) \cap solved' = {}
       /\ 0 \in Edges(problem, s, a) =>
            problem.next[s][a][0] \in solved' \cup ToSet(p0) \cup ToSet(closed')
  <2>1. ToSet(f) \subseteq T.lookup /\ 0 \in Outcome
    BY <1>4, <1>7 DEF Outcome
  <2>2. a = MaxUBAction(bp', s)
    BY <1>5
  <2>3. 0 \in Edges(problem, s, a) => problem.next[s][a][0] \in T.lookup
    BY <1>9, <2>1
  <2>4. f \in Seq(Node) /\ IsInjective(f)
    BY <1>2
  <2>5. ToSet(f) \cap ToSet(closed') = {} /\ ToSet(f) \cap solved' = {}
    BY <1>7
  <2> HIDE DEF a
  <2> QED
    BY <1>8, <2>1, <2>2, <2>3, <2>4, <2>5, PushOutcomeProperties
<1> HIDE DEF p0
<1>11. /\ p1 \in Seq(Node)
       /\ ToSet(p0) \subseteq ToSet(p1)
       /\ ToSet(p1) \subseteq T.lookup
       /\ IsInjective(p1)
       /\ ToSet(p1) \cap ToSet(closed') = {}
       /\ ToSet(p1) \cap solved' = {}
       /\ 1 \in Edges(problem, s, a) =>
            problem.next[s][a][1] \in solved' \cup ToSet(p1) \cup ToSet(closed')
  <2>1. 1 \in Outcome
    BY DEF Outcome
  <2>2. a = MaxUBAction(bp', s)
    BY <1>5
  <2>3. 1 \in Edges(problem, s, a) => problem.next[s][a][1] \in T.lookup
    BY <1>9, <2>1
  <2> HIDE DEF a
  <2> QED
    BY <1>8, <1>10, <2>1, <2>2, <2>3, PushOutcomeProperties
<1> HIDE DEF p1, a
<1>12. Successors(problem, s, a) \subseteq solved' \cup ToSet(p1) \cup ToSet(closed')
  <2>1. Edges(problem, s, a) \subseteq {0, 1}
    BY DEF Edges, Outcome
  <2> QED
    BY <1>10, <1>11, <2>1 DEF Successors
<1>13. /\ open' \in Seq(Node) /\ rv' \in BOOLEAN
       /\ ToSet(f) \subseteq ToSet(open')
       /\ ToSet(open') \subseteq T.lookup
       /\ IsInjective(open')
       /\ ToSet(open') \cap ToSet(closed') = {}
       /\ ToSet(open') \cap solved' = {}
  <2>1. rv \in BOOLEAN /\ ToSet(f) \subseteq T.lookup
    BY <1>4, <1>7 DEF IInv, TypeOK
  <2>2. CASE BigResidual(bp', s)
    BY <1>1, <1>2, <1>7, <2>1, <2>2
  <2>3. CASE ~BigResidual(bp', s)
    BY <1>1, <1>10, <1>11, <2>1, <2>3
  <2> QED
    BY <2>2, <2>3
<1>14. TypeOK'
  BY <1>1, <1>4, <1>5, <1>6, <1>13 DEF IInv, TypeOK
<1>15. NodesCheckedOnce'
  BY <1>6, <1>7, <1>13 DEF NodesCheckedOnce
<1>16. ASSUME rv', NEW n \in ToSet(closed')
       PROVE  Converged(problem, T, n, S2)
  <2>1. rv /\ ~BigResidual(T, s) /\ open' = p1
    BY <1>1, <1>5, <1>16
  <2>2. CASE n = s
    <3>1. Residual(T, s) <= TargetPrecision
      <4>1. Residual(T, s) \in Int /\ TargetPrecision \in Int
        BY <1>2, <1>4, ResidualType, LRTDPAssumption
      <4> QED
        BY <2>1, <4>1 DEF BigResidual
    <3>2. s \in T.expanded /\ Successors(problem, s, a) \subseteq S2
      BY <1>4, <1>12, <2>1
    <3> QED
      BY <1>4, <2>2, <3>1, <3>2 DEF Converged, Settled, a
  <2>3. CASE n # s
    <3>1. n \in ToSet(closed)
      BY <1>6, <1>16, <2>3
    <3>2. Converged(problem, bp, n, S)
      BY <1>1, <2>1, <3>1 DEF IInv, CheckSound
    <3>3. n \in bp.expanded /\ Successors(problem, n, MaxUBAction(bp, n)) \subseteq S
      BY <3>2 DEF Converged, Settled
    <3>4. S \subseteq S2 /\ S \subseteq bp.lookup
      BY <1>2, <1>5, <1>6, <1>13 DEF IInv
    <3>5. n \in bp.lookup /\ n \in Node
      BY <3>1, IInvFacts DEF IInv
    <3>6. /\ n \in T.expanded
          /\ T.qub[n] = bp.qub[n] /\ T.ub[n] = bp.ub[n]
          /\ \A m \in Successors(problem, n, MaxUBAction(bp, n)) : T.ub[m] = bp.ub[m]
          /\ Successors(problem, n, MaxUBAction(bp, n)) \subseteq S2
      BY <1>4, <2>3, <3>3, <3>4, <3>5
    <3> HIDE DEF S, S2
    <3>7. problem \in Problem /\ bp \in BoundTable /\ Linked(problem, bp)
      BY IInvFacts DEF IInv
    <3> QED
      BY <1>4, <3>2, <3>5, <3>6, <3>7, ConvergedStable
  <2> QED
    BY <2>2, <2>3
<1>17. CheckSound'
  BY <1>1, <1>5, <1>16 DEF CheckSound
<1>18. Linked(problem, bp)' /\ ToSet(stack') \subseteq T.lookup
  BY <1>1, <1>4, <1>5 DEF IInv
<1> QED
  BY <1>4, <1>5, <1>7, <1>13, <1>14, <1>15, <1>17, <1>18 DEF IInv

LEMMA LabelClosedIInv == IInv /\ LabelClosed => IInv'
<1> SUFFICES ASSUME IInv, LabelClosed PROVE IInv'
  OBVIOUS
<1>1. /\ pc = "check" /\ open = <<>> /\ rv
      /\ solved' = solved \cup ToSet(closed)
      /\ closed' = <<>> /\ ReturnTrue
      /\ UNCHANGED <<problem, bp, open, rv>>
  BY DEF LabelClosed
<1>2. stack # <<>>
  BY <1>1 DEF IInv, TypeOK
<1>3. /\ stack' \in Seq(Node)
      /\ ToSet(stack') \subseteq bp.lookup
      /\ pc' \in {"checkSolved", "done", "planFixedTime"}
      /\ stack' = <<>> <=> pc' \in {"planFixedTime", "done"}
  BY <1>1, <1>2, ReturnTrueTypes
<1>4. solved' \subseteq bp.lookup /\ solved' \subseteq Node
  BY <1>1, IInvFacts DEF IInv
<1>5. TypeOK'
  BY <1>1, <1>3, <1>4, IInvFacts DEF IInv, TypeOK, Location
<1>6. NodesCheckedOnce' /\ CheckSound'
  BY <1>1, <1>3, EmptyStack DEF NodesCheckedOnce, CheckSound
<1>7. ASSUME NEW s \in solved', ~problem.terminal[s]
      PROVE  Converged(problem, bp, s, solved')
  <2>1. CASE s \in solved
    <3>1. Converged(problem, bp, s, solved)
      BY <1>7, <2>1 DEF IInv, SolvedSound
    <3> QED
      BY <1>1, <3>1 DEF Converged, Settled
  <2>2. CASE s \in ToSet(closed)
    <3>1. Converged(problem, bp, s, solved \cup ToSet(open) \cup ToSet(closed))
      BY <1>1, <2>2 DEF IInv, CheckSound
    <3>2. solved \cup ToSet(open) \cup ToSet(closed) = solved'
      BY <1>1, EmptyStack
    <3> QED
      BY <3>1, <3>2
  <2> QED
    BY <1>1, <1>7, <2>1, <2>2
<1>8. SolvedSound'
  BY <1>1, <1>7 DEF SolvedSound
<1> QED
  BY <1>1, <1>3, <1>4, <1>5, <1>6, <1>8, EmptyStack DEF IInv

LEMMA StartUpdateIInv == IInv /\ StartUpdate => IInv'
<1> SUFFICES ASSUME IInv, StartUpdate PROVE IInv'
  OBVIOUS
<1>1. /\ pc = "check" /\ pc' = "update"
      /\ UNCHANGED <<problem, bp, solved, stack, open, closed, rv>>
  BY DEF StartUpdate
<1>2. TypeOK'
  BY <1>1 DEF IInv, TypeOK, Location
<1>3. NodesCheckedOnce' /\ SolvedSound' /\ CheckSound'
  BY <1>1 DEF IInv, NodesCheckedOnce, SolvedSound, CheckSound
<1> QED
  BY <1>1, <1>2, <1>3 DEF IInv

\* The table after updateInternal, which may move the upper bound of s.
LEMMA UpdateInternalProperties ==
  ASSUME problem \in Problem, bp \in BoundTable, Linked(problem, bp),
         NEW s \in bp.lookup
  PROVE  LET T == UpdateInternal(s)
         IN  /\ T \in BoundTable
             /\ bp.lookup \subseteq T.lookup
             /\ T.expanded = bp.expanded \cup {s}
             /\ Linked(problem, T)
             /\ \A n \in Node \ {s} : T.qub[n] = bp.qub[n]
             /\ \A n \in bp.lookup \ {s} : T.ub[n] = bp.ub[n]
<1> DEFINE U == CacheQ(s)
           v == MaxValue(U.qub[s])
           T == UpdateInternal(s)
<1>1. /\ U \in BoundTable
      /\ bp.lookup \subseteq U.lookup
      /\ U.expanded = bp.expanded \cup {s}
      /\ Linked(problem, U)
      /\ \A n \in Node \ {s} : U.qub[n] = bp.qub[n]
      /\ \A n \in bp.lookup : U.ub[n] = bp.ub[n]
  BY CacheQProperties
<1>2. T = [U EXCEPT !.ub[s] = v]
  BY DEF UpdateInternal
<1>3. s \in Node /\ bp.lookup \subseteq Node
  BY DEF BoundTable
<1> HIDE DEF U, T
<1>4. v \in Int
  <2>1. U.qub[s] \in [Action -> Int]
    BY <1>1, <1>3 DEF BoundTable
  <2> QED
    BY <2>1, MaxValueType
<1> HIDE DEF v
<1>5. /\ T \in BoundTable
      /\ T.lookup = U.lookup /\ T.expanded = U.expanded /\ T.qub = U.qub
      /\ \A n \in Node \ {s} : T.ub[n] = U.ub[n]
  BY <1>1, <1>2, <1>3, <1>4 DEF BoundTable
<1>6. Linked(problem, T)
  BY <1>1, <1>5 DEF Linked
<1> QED
  BY <1>1, <1>3, <1>5, <1>6 DEF T

LEMMA UpdateClosedIInv == IInv /\ UpdateClosed => IInv'
<1> SUFFICES ASSUME IInv, UpdateClosed PROVE IInv'
  OBVIOUS
<1> DEFINE s == Last(closed)
           T == UpdateInternal(s)
<1>1. /\ pc = "update" /\ pc' = pc /\ closed # <<>>
      /\ SetBounds(T) /\ closed' = Front(closed)
      /\ problem' = problem /\ stack' = stack /\ open' = open /\ rv' = rv
  BY DEF UpdateClosed
<1>2. /\ s \in ToSet(closed) /\ s \in Node
      /\ closed' \in Seq(Node)
      /\ ToSet(closed) = ToSet(closed') \cup {s}
      /\ IsInjective(closed')
  BY <1>1, IInvFacts, PopProperties DEF IInv, NodesCheckedOnce
<1>3. s \in bp.lookup /\ s \notin solved
  BY <1>2 DEF IInv, NodesCheckedOnce
<1> HIDE DEF s
<1>4. /\ T \in BoundTable
      /\ bp.lookup \subseteq T.lookup
      /\ T.expanded = bp.expanded \cup {s}
      /\ Linked(problem, T)
      /\ \A n \in Node \ {s} : T.qub[n] = bp.qub[n]
      /\ \A n \in bp.lookup \ {s} : T.ub[n] = bp.ub[n]
  <2>1. problem \in Problem /\ bp \in BoundTable /\ Linked(problem, bp)
    BY IInvFacts DEF IInv
  <2> QED
    BY <1>3, <2>1, UpdateInternalProperties
<1> HIDE DEF T
<1>5. /\ bp' = T
      /\ solved' \in SUBSET Node
      /\ solved' \subseteq T.lookup
      /\ solved' \cap bp.lookup = solved
      /\ SolvedSound'
  <2>1. {s} \in SUBSET Node /\ {s} \cap solved = {}
    BY <1>2, <1>3
  <2>2. \A n \in bp.lookup \ {s} : T.ub[n] = bp.ub[n] /\ T.qub[n] = bp.qub[n]
    BY <1>4, IInvFacts
  <2>3. bp.expanded \subseteq T.expanded
    BY <1>4
  <2> QED
    BY <1>1, <1>4, <2>1, <2>2, <2>3, SetBoundsSound
<1>6. TypeOK'
  BY <1>1, <1>2, <1>4, <1>5 DEF IInv, TypeOK
<1>7. NodesCheckedOnce'
  BY <1>1, <1>2, <1>5 DEF IInv, NodesCheckedOnce
<1>8. CheckSound'
  BY <1>1 DEF CheckSound
<1>9. Linked(problem, bp)'
  BY <1>1, <1>4, <1>5
<1> QED
  BY <1>1, <1>2, <1>4, <1>5, <1>6, <1>7, <1>8, <1>9 DEF IInv

LEMMA CheckFailedIInv == IInv /\ CheckFailed => IInv'
<1> SUFFICES ASSUME IInv, CheckFailed PROVE IInv'
  OBVIOUS
<1>1. /\ pc = "update" /\ stack' = <<>>
      /\ pc' \in {"done", "planFixedTime"}
      /\ UNCHANGED <<problem, bp, solved, open, closed, rv>>
  BY DEF CheckFailed
<1>2. TypeOK'
  BY <1>1 DEF IInv, TypeOK, Location
<1>3. NodesCheckedOnce' /\ SolvedSound' /\ CheckSound'
  BY <1>1 DEF IInv, NodesCheckedOnce, SolvedSound, CheckSound
<1> QED
  BY <1>1, <1>2, <1>3, EmptyStack DEF IInv

LEMMA NextIInv == IInv /\ [Next]_vars => IInv'
<1> SUFFICES ASSUME IInv, [Next]_vars PROVE IInv'
  OBVIOUS
<1>1. CASE \E o \in Outcome : TrialStep(o)
  BY <1>1, TrialStepIInv
<1>2. CASE UNCHANGED vars
  <2>1. UNCHANGED <<problem, bp, solved, pc, stack, open, closed, rv>>
    BY <1>2 DEF vars
  <2>2. TypeOK'
    BY <2>1 DEF IInv, TypeOK
  <2>3. NodesCheckedOnce' /\ SolvedSound' /\ CheckSound'
    BY <2>1 DEF IInv, NodesCheckedOnce, SolvedSound, CheckSound
  <2> QED
    BY <2>1, <2>2, <2>3 DEF IInv
<1> QED
  BY <1>1, <1>2, PlanFixedTimeIInv, TrialAtSolvedIInv, StartCheckSolvedIInv,
     CheckNodeIInv, LabelClosedIInv, StartUpdateIInv, UpdateClosedIInv,
     CheckFailedIInv DEF Next

LEMMA Invariance == Spec => []IInv
<1> QED
  BY InitIInv, NextIInv, PTL DEF Spec

-----------------------------------------------------------------------------
\* Every variable of the solver keeps its type, and a trial has a stack of
\* calls exactly while it runs.
THEOREM TypeCorrect == Spec => []TypeOK
<1>1. IInv => TypeOK
  BY DEF IInv
<1> QED
  BY <1>1, Invariance, PTL

\* Labels are right for as long as the solver runs: a solved node that is not
\* terminal has a fresh best Q value within the precision of its bound, and
\* the action it stands for leads to solved nodes only.
THEOREM LabelsSound == Spec => []SolvedSound
<1>1. IInv => SolvedSound
  BY DEF IInv
<1> QED
  BY <1>1, Invariance, PTL

\* checkSolved closes a node at most once, never one that is solved, and what
\* it has closed stays converged until it labels it.
THEOREM CheckSolvedSound == Spec => [](CheckSound /\ NodesCheckedOnce)
<1>1. IInv => CheckSound /\ NodesCheckedOnce
  BY DEF IInv
<1> QED
  BY <1>1, Invariance, PTL

\* No step unlabels a solved node, moves its bound or touches its Q values.
LEMMA FrozenStep ==
  ASSUME IInv, [Next]_vars, NEW s \in solved
  PROVE  s \in solved' /\ bp'.ub[s] = bp.ub[s] /\ bp'.qub[s] = bp.qub[s]
<1>1. /\ problem \in Problem /\ bp \in BoundTable /\ Linked(problem, bp)
      /\ s \in bp.lookup /\ s \in Node
  BY IInvFacts DEF IInv
<1>2. CASE PlanFixedTime
  <2>1. {problem.initial} \in SUBSET Node
    BY IInvFacts
  <2>2. SetBounds(GetNodes(problem, bp, {problem.initial}))
    BY <1>2 DEF PlanFixedTime
  <2> QED
    BY <1>1, <2>1, <2>2, GetNodesProperties DEF SetBounds
<1>3. CASE \E o \in Outcome : TrialStep(o)
  <2>1. /\ SetBounds(Update(problem, bp, Last(stack)))
        /\ Last(stack) \notin solved /\ pc = "trialRecurse"
    BY <1>3 DEF TrialStep, StopsAt
  <2>2. Last(stack) \in bp.lookup
    BY <2>1, IInvFacts, PopProperties DEF IInv, TypeOK
  <2> DEFINE n == Last(stack)
  <2> HIDE DEF n
  <2>3. /\ \A m \in Node \ {n} : Update(problem, bp, n).qub[m] = bp.qub[m]
        /\ \A m \in bp.lookup \ {n} : Update(problem, bp, n).ub[m] = bp.ub[m]
    BY <1>1, <2>2, TableAfterUpdate DEF n
  <2> QED
    BY <1>1, <2>1, <2>3 DEF SetBounds, n
<1>4. CASE CheckNode
  <2>1. SetBounds(CacheQ(Last(open))) /\ open # <<>>
    BY <1>4 DEF CheckNode
  <2>2. Last(open) \in bp.lookup /\ Last(open) \notin solved
    BY <2>1, IInvFacts, PopProperties DEF IInv, NodesCheckedOnce
  <2> DEFINE n == Last(open)
  <2> HIDE DEF n
  <2>3. /\ \A m \in Node \ {n} : CacheQ(n).qub[m] = bp.qub[m]
        /\ \A m \in bp.lookup : CacheQ(n).ub[m] = bp.ub[m]
    BY <1>1, <2>2, CacheQProperties DEF n
  <2> QED
    BY <1>1, <2>1, <2>2, <2>3 DEF SetBounds, n
<1>5. CASE UpdateClosed
  <2>1. SetBounds(UpdateInternal(Last(closed))) /\ closed # <<>>
    BY <1>5 DEF UpdateClosed
  <2>2. Last(closed) \in bp.lookup /\ Last(closed) \notin solved
    BY <2>1, IInvFacts, PopProperties DEF IInv, NodesCheckedOnce
  <2> DEFINE n == Last(closed)
  <2> HIDE DEF n
  <2>3. /\ \A m \in Node \ {n} : UpdateInternal(n).qub[m] = bp.qub[m]
        /\ \A m \in bp.lookup \ {n} : UpdateInternal(n).ub[m] = bp.ub[m]
    BY <1>1, <2>2, UpdateInternalProperties DEF n
  <2> QED
    BY <1>1, <2>1, <2>2, <2>3 DEF SetBounds, n
<1>6. CASE LabelClosed
  BY <1>6 DEF LabelClosed
<1>7. CASE UNCHANGED <<bp, solved>>
  BY <1>7
<1> QED
  BY <1>2, <1>3, <1>4, <1>5, <1>6, <1>7
     DEF Next, vars, TrialAtSolved, StartCheckSolved, StartUpdate, CheckFailed

LEMMA NextKeepsProblem == [Next]_vars => problem' = problem
BY DEF Next, vars, PlanFixedTime, TrialAtSolved, TrialStep, StartCheckSolved,
       CheckNode, LabelClosed, StartUpdate, UpdateClosed, CheckFailed

LEMMA InitContract == IInv /\ Init => Contract!Init
BY DEF Init, Contract!Init

\* A step of the solver is one of Labels: it labels the nodes that are new in
\* solved, or it does not concern labels.
LEMMA NextContract == IInv /\ IInv' /\ [Next]_vars => [Contract!Next]_(Contract!vars)
<1> SUFFICES ASSUME IInv, IInv', [Next]_vars PROVE Contract!Next
  OBVIOUS
<1>1. solved \subseteq Node /\ solved' \subseteq Node /\ problem' = problem
  BY NextKeepsProblem DEF IInv, TypeOK
<1>2. \A n \in solved' :
        ~problem.terminal[n] => /\ Settled(problem, bp', n)
                                /\ Successors(problem, n, MaxUBAction(bp', n)) \subseteq solved'
  BY <1>1 DEF IInv, SolvedSound, Converged, Settled
<1>3. Contract!LeaveSolvedAlone
  <2>1. ASSUME NEW n \in solved
        PROVE  /\ n \in solved' /\ n \in Node
               /\ bp'.ub[n] = bp.ub[n]
               /\ MaxUBAction(bp', n) = MaxUBAction(bp, n)
    BY <1>1, FrozenStep DEF MaxUBAction
  <2> QED
    BY <1>1, <1>2, <2>1 DEF Contract!LeaveSolvedAlone
<1>4. CASE solved' = solved
  BY <1>3, <1>4 DEF Contract!Next, Contract!Search
<1>5. CASE solved' # solved
  <2> DEFINE S == solved' \ solved
  <2>1. S \in SUBSET (Node \ solved) /\ solved' = solved \cup S
    BY <1>1, FrozenStep
  <2>2. ASSUME NEW n \in S
        PROVE  /\ [m \in Node |-> problem'.terminal[m] \/ Settled(problem', bp', m)][n]
               /\ [m \in Node |-> IF problem'.terminal[m] THEN {}
                                 ELSE Successors(problem', m, MaxUBAction(bp', m))][n]
                     \subseteq solved'
    BY <1>1, <1>2
  <2> HIDE DEF S
  <2>3. Contract!Label
    BY <1>3, <2>1, <2>2 DEF Contract!Label
  <2> QED
    BY <2>3 DEF Contract!Next
<1> QED
  BY <1>4, <1>5

\* The contract is strong enough: whatever search keeps it keeps its labels
\* sound, for nothing moves under a node that has one.
THEOREM ContractIsSound == Contract!Spec => []Contract!Sound
<1>1. Contract!Init => Contract!Sound
  BY DEF Contract!Init, Contract!Sound
<1>2. Contract!Sound /\ [Contract!Next]_(Contract!vars) => Contract!Sound'
  <2> SUFFICES ASSUME Contract!Sound, [Contract!Next]_(Contract!vars) PROVE Contract!Sound'
    OBVIOUS
  <2>1. CASE Contract!Search
    BY <2>1 DEF Contract!Search, Contract!LeaveSolvedAlone, Contract!Sound
  <2>2. CASE Contract!Label
    BY <2>2 DEF Contract!Label, Contract!LeaveSolvedAlone, Contract!Sound
  <2>3. CASE UNCHANGED Contract!vars
    BY <2>3 DEF Contract!vars, Contract!Sound
  <2> QED
    BY <2>1, <2>2, <2>3 DEF Contract!Next
<1> QED
  BY <1>1, <1>2, PTL DEF Contract!Spec

\* Labels are final: the solver keeps the contract of a labelling search, in
\* which what a later trial or check does never reaches the solved nodes.
\* That is what lets trials stop there.
THEOREM LabelsAreFinal == Spec => ImplementsLabels
<1>1. Init => IInv /\ Contract!Init
  BY InitIInv, InitContract
<1> QED
  BY <1>1, Invariance, NextContract, PTL DEF Spec, ImplementsLabels, Contract!Spec

-----------------------------------------------------------------------------
\* What keeps the looking-ahead policy inside the solved nodes: on a problem
\* whose heuristic one backup confirms, bounds and Q values only come down,
\* even through updateInternal, as no terminal node is ever backed up.
Lookahead ==
  /\ \A n \in bp.lookup : problem.terminal[n] => n \in solved
  /\ problem \in UniformProblems => Descending(problem, bp)

\* A new table in which the bounds come down, and whose new terminal nodes are
\* labelled.
LEMMA SetBoundsLookahead ==
  ASSUME Lookahead, NEW T, SetBounds(T), problem' = problem,
         problem \in UniformProblems => Descending(problem, T)
  PROVE  Lookahead'
BY DEF Lookahead, SetBounds

LEMMA InitLookahead == Init => Lookahead
<1> SUFFICES ASSUME Init PROVE Lookahead
  OBVIOUS
<1>1. problem \in Problem /\ bp = EmptyTable /\ bp.lookup = {}
  BY ProblemsAssumption DEF Init, EmptyTable
<1>2. problem \in UniformProblems => Descending(problem, bp)
  BY <1>1, EmptyTableDescends DEF UniformProblems
<1> QED
  BY <1>1, <1>2 DEF Lookahead

LEMMA NextLookahead == IInv /\ Lookahead /\ [Next]_vars => Lookahead'
<1> SUFFICES ASSUME IInv, Lookahead, [Next]_vars PROVE Lookahead'
  OBVIOUS
<1>1. /\ problem \in Problem /\ bp \in BoundTable /\ Linked(problem, bp)
      /\ problem' = problem
  BY IInvFacts, NextKeepsProblem DEF IInv
<1>2. problem \in UniformProblems => Distributed(problem) /\ Descending(problem, bp)
  BY DistributionAssumption DEF Lookahead, UniformProblems, Distributed
<1>3. ASSUME NEW s \in bp.lookup, s \notin solved
      PROVE  ~problem.terminal[s]
  BY <1>3 DEF Lookahead
<1>4. CASE PlanFixedTime
  <2> DEFINE T == GetNodes(problem, bp, {problem.initial})
  <2>1. {problem.initial} \in SUBSET Node /\ SetBounds(T)
    BY <1>4, IInvFacts DEF PlanFixedTime
  <2>2. problem \in UniformProblems => Descending(problem, T)
    BY <1>1, <1>2, <2>1, GetNodesKeepsDescending
  <2> QED
    BY <1>1, <2>1, <2>2, SetBoundsLookahead
<1>5. CASE \E o \in Outcome : TrialStep(o)
  <2> DEFINE s == Last(stack)
  <2>1. SetBounds(Update(problem, bp, s)) /\ s \notin solved /\ pc = "trialRecurse"
    BY <1>5 DEF TrialStep, StopsAt
  <2>2. s \in bp.lookup
    BY <2>1, IInvFacts, PopProperties DEF IInv, TypeOK
  <2> HIDE DEF s
  <2>3. problem \in UniformProblems => Descending(problem, Update(problem, bp, s))
    BY <1>1, <1>2, <1>3, <2>1, <2>2, UpdateKeepsDescending
  <2> QED
    BY <1>1, <2>1, <2>3, SetBoundsLookahead
<1>6. CASE CheckNode
  <2> DEFINE s == Last(open)
  <2>1. SetBounds(CacheQ(s)) /\ open # <<>>
    BY <1>6 DEF CheckNode
  <2>2. s \in bp.lookup /\ s \notin solved
    BY <2>1, IInvFacts, PopProperties DEF IInv, NodesCheckedOnce
  <2> HIDE DEF s
  <2>3. problem \in UniformProblems => Descending(problem, CacheQ(s))
    BY <1>1, <1>2, <1>3, <2>2, CachedKeepsDescending DEF CacheQ, Cached
  <2> QED
    BY <1>1, <2>1, <2>3, SetBoundsLookahead
<1>7. CASE UpdateClosed
  <2> DEFINE s == Last(closed)
  <2>1. SetBounds(UpdateInternal(s)) /\ closed # <<>>
    BY <1>7 DEF UpdateClosed
  <2>2. s \in bp.lookup /\ s \notin solved
    BY <2>1, IInvFacts, PopProperties DEF IInv, NodesCheckedOnce
  <2> HIDE DEF s
  <2>3. problem \in UniformProblems => Descending(problem, UpdateInternal(s))
    BY <1>1, <1>2, <1>3, <2>2, CachedKeepsDescending DEF UpdateInternal, CacheQ, Cached
  <2> QED
    BY <1>1, <2>1, <2>3, SetBoundsLookahead
<1>8. CASE bp' = bp /\ solved \subseteq solved'
  BY <1>1, <1>8 DEF Lookahead
<1>9. CASE LabelClosed
  BY <1>8, <1>9 DEF LabelClosed
<1> QED
  BY <1>4, <1>5, <1>6, <1>7, <1>8, <1>9
     DEF Next, vars, TrialAtSolved, StartCheckSolved, StartUpdate, CheckFailed

\* At a solved node the policy takes the action the node was labelled for, for
\* the others look no better from the bounds than they did when it was chosen.
\* So a policy that starts at a solved root meets solved nodes only.
THEOREM PolicyIsClosed == Spec => []PolicyStaysSolved
<1>1. IInv /\ Lookahead => PolicyStaysSolved
  <2> SUFFICES ASSUME IInv, Lookahead, problem \in UniformProblems,
                      NEW s \in solved, ~problem.terminal[s]
               PROVE  Successors(problem, s, ChooseActionUB(problem, bp, s)) \subseteq solved
    BY DEF PolicyStaysSolved
  <2>1. Converged(problem, bp, s, solved)
    BY DEF IInv, SolvedSound
  <2>2. /\ s \in bp.expanded
        /\ bp.qub[s][MaxUBAction(bp, s)]
             = Backup(problem, bp.ub, s, MaxUBAction(bp, s))
        /\ Successors(problem, s, MaxUBAction(bp, s)) \subseteq solved
    BY <2>1 DEF Converged, Settled
  <2>3. ChooseActionUB(problem, bp, s) = MaxUBAction(bp, s)
    BY <2>2, IInvFacts, LookaheadIsGreedy DEF IInv, Lookahead
  <2> QED
    BY <2>2, <2>3
<1> QED
  BY <1>1, Invariance, InitLookahead, NextLookahead, PTL DEF Spec
=============================================================================
